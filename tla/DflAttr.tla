------------------------------ MODULE DflAttr ------------------------------
(***************************************************************************)
(* The attribute reader of libdfl (src/libdfl/opae_dfl.c): the layered    *)
(* read of one numeric attribute of a device, dfl_parse_attr64/32 with    *)
(* its fallback dfl_direct_read_attr64/32, and the writer                 *)
(* dfl_device_write_attr64.  The registry holds the attribute twice: the  *)
(* udev cache (what udev_device_get_sysattr_value returns) and the sysfs  *)
(* file (what fopen/fread see).  Texts are sequences of one-character     *)
(* strings; strtoull and the trimming are modelled character by           *)
(* character because the checked properties are about them.              *)
(***************************************************************************)
EXTENDS Integers, Sequences, SequencesExt, CLib

CONSTANTS
  Chars,    \* the characters attribute texts are made of
  MaxLen,   \* longest text in the initial cache and file
  PgSize,   \* sysconf(_SC_PAGE_SIZE)
  Values,   \* values given to dfl_device_write_attr64
  MaxPages  \* bound on page buffers left allocated

\* strtoull's sign handling is not modelled: texts carry no sign.
ASSUME Chars \cap {"+", "-"} = {}

FPGA_OK == "FPGA_OK"
FPGA_INVALID_PARAM == "FPGA_INVALID_PARAM"
FPGA_EXCEPTION == "FPGA_EXCEPTION"
FPGA_NOT_FOUND == "FPGA_NOT_FOUND"
FPGA_DEVICE == "FPGA_DEVICE"
FPGA_ACCELERATOR == "FPGA_ACCELERATOR"
\* The enum value dfl_direct_read_attr returns as a byte count on ENOMEM.
FPGA_NO_MEMORY_AS_SIZE == 5
\* Outcomes of undefined behaviour: strlen on NULL, strlen past an
\* unterminated page buffer.
NullDeref == "strlen(NULL)"
Overread == "overread"
NoValue == 99999

Texts == BoundedSeq(Chars, MaxLen)

VARIABLES
  cache,    \* [present, s]: udev's cached value, or NULL
  file,     \* [exists, s]: the sysfs attribute file
  written,  \* the value of the last successful write64 still in place, or NoValue
  pages,    \* page buffers calloc'd by dfl_direct_read_attr and not freed
  last      \* the last call and its result

vars == <<cache, file, written, pages, last>>

-----------------------------------------------------------------------------
(* The reader *)

\* dfl_string_rtrim: overwrite trailing white space with NUL.
RECURSIVE dfl_string_rtrim(_)
dfl_string_rtrim(s) ==
  IF s # <<>> /\ IsSpace(Last(s)) THEN dfl_string_rtrim(Front(s)) ELSE s

\* dfl_direct_read_attr: the byte count it returns, the buffer left in
\* *buffer (null: NULL), whether that buffer is NUL-terminated, and the
\* page buffers it leaves allocated.  fread takes at most one page.
dfl_direct_read_attr(f, callocOk) ==
  LET k == IF f.exists THEN IF Len(f.s) < PgSize THEN Len(f.s) ELSE PgSize ELSE 0
      R(n, null, buf, term, leak) ==
        [n |-> n, null |-> null, buf |-> buf, term |-> term, leak |-> leak]
  IN IF ~callocOk THEN R(FPGA_NO_MEMORY_AS_SIZE, TRUE, <<>>, TRUE, 0)
     ELSE IF ~f.exists THEN R(0, FALSE, <<>>, TRUE, 1)
     ELSE IF k = 0 THEN R(0, TRUE, <<>>, TRUE, 0)
     ELSE IF k = PgSize THEN R(k, FALSE, SubSeq(f.s, 1, k), FALSE, 0)
     ELSE R(k, FALSE, dfl_string_rtrim(SubSeq(f.s, 1, k)), TRUE, 0)

\* Mutant: a second free(buffer) after the if block of the parse.
DirectRead64DoubleFree(f, callocOk) ==
  LET d == dfl_direct_read_attr(f, callocOk)
      p == strtoull(d.buf)
  IN IF d.n = 0 THEN [res |-> FPGA_EXCEPTION, val |-> NoValue, leak |-> 0]
     ELSE IF d.null THEN [res |-> NullDeref, val |-> NoValue, leak |-> 0]
     ELSE IF ~d.term THEN [res |-> Overread, val |-> NoValue, leak |-> 0]
     ELSE [res |-> IF p.end = Len(d.buf) THEN FPGA_OK ELSE FPGA_EXCEPTION,
           val |-> p.val, leak |-> -1]

\* dfl_direct_read_attr64/32: parse the trimmed file text; the whole of it
\* must be consumed.  *value is written whatever the outcome.
dfl_direct_read_attr64(f, callocOk) ==
  LET d == dfl_direct_read_attr(f, callocOk)
      p == strtoull(d.buf)
  IN IF d.n = 0 THEN [res |-> FPGA_EXCEPTION, val |-> NoValue, leak |-> d.leak]
     ELSE IF d.null THEN [res |-> NullDeref, val |-> NoValue, leak |-> 0]
     ELSE IF ~d.term THEN [res |-> Overread, val |-> NoValue, leak |-> 0]
     ELSE [res |-> IF p.end = Len(d.buf) THEN FPGA_OK ELSE FPGA_EXCEPTION,
           val |-> p.val, leak |-> 0]

\* dfl_parse_attr64/32: a NULL cached value is NOT_FOUND; a non-empty one
\* is parsed and fails only if no digit converts; an empty one falls back
\* to the file.  The 32-bit cast cannot bite on texts this short.
dfl_parse_attr64(c, f, callocOk) ==
  IF ~c.present THEN [res |-> FPGA_NOT_FOUND, val |-> NoValue, leak |-> 0]
  ELSE IF Len(c.s) > 0
       THEN LET p == strtoull(c.s)
            IN [res |-> IF p.end = 0 THEN FPGA_EXCEPTION ELSE FPGA_OK,
                val |-> p.val, leak |-> 0]
       ELSE dfl_direct_read_attr64(f, callocOk)

\* Mutant: "%lx\n", without the 0x prefix.
WriteTextNoPrefix(v) == Hex(v) \o <<"\n">>

\* dfl_device_write_attr64's text: "0x%lx\n".
WriteText(v) == <<"0", "x">> \o Hex(v) \o <<"\n">>

\* udev_device_set_sysattr_value (libudev, sd_device_set_sysattr_value):
\* trailing newlines are dropped, the rest is written to the file with one
\* newline and cached as it is.
RECURSIVE DropNewlines(_)
DropNewlines(s) == IF s # <<>> /\ Last(s) = "\n" THEN DropNewlines(Front(s)) ELSE s

SetSysattr(s) ==
  /\ file' = [exists |-> TRUE, s |-> DropNewlines(s) \o <<"\n">>]
  /\ cache' = [present |-> TRUE, s |-> DropNewlines(s)]

-----------------------------------------------------------------------------
(* The calls *)

ReadOps == {"read_attr64", "bbs_id", "ports_num"}

Init ==
  /\ cache \in {c \in [present : BOOLEAN, s : Texts] : ~c.present => c.s = <<>>}
  /\ file \in {f \in [exists : BOOLEAN, s : Texts] : ~f.exists => f.s = <<>>}
  /\ written = NoValue
  /\ pages = 0
  /\ last = [op |-> "none", res |-> FPGA_OK, val |-> NoValue]

\* dfl_device_read_attr64, and dfl_device_get_bbs_id / get_ports_num,
\* which read only on an FPGA_DEVICE.  callocOk: whether the page
\* buffer of the file fallback is allocated.
ReadAttr ==
  /\ pages < MaxPages
  /\ \E op \in ReadOps, type \in {FPGA_DEVICE, FPGA_ACCELERATOR}, callocOk \in BOOLEAN :
       IF op # "read_attr64" /\ type # FPGA_DEVICE
       THEN /\ last' = [op |-> op, res |-> FPGA_INVALID_PARAM, val |-> NoValue]
            /\ UNCHANGED <<cache, file, written, pages>>
       ELSE LET o == dfl_parse_attr64(cache, file, callocOk)
            IN /\ pages' = pages + o.leak
               /\ last' = [op |-> op, res |-> o.res, val |-> o.val]
               /\ UNCHANGED <<cache, file, written>>

\* dfl_device_write_attr64; setOk: whether udev_device_set_sysattr_value
\* succeeds.
WriteAttr64 ==
  \E v \in Values, setOk \in BOOLEAN :
    /\ IF setOk
       THEN /\ SetSysattr(WriteText(v))
            /\ written' = v
            /\ last' = [op |-> "write_attr64", res |-> FPGA_OK, val |-> v]
       ELSE /\ UNCHANGED <<cache, file, written>>
            /\ last' = [op |-> "write_attr64", res |-> FPGA_EXCEPTION, val |-> v]
    /\ UNCHANGED pages

\* dfl_device_set_attr with a caller's text; it returns the setter's result.
SetAttr ==
  \E s \in Texts, setOk \in BOOLEAN :
    /\ IF setOk
       THEN /\ SetSysattr(s)
            /\ written' = NoValue
       ELSE UNCHANGED <<cache, file, written>>
    /\ last' = [op |-> "set_attr", res |-> IF setOk THEN FPGA_OK ELSE FPGA_EXCEPTION,
                val |-> NoValue]
    /\ UNCHANGED pages

\* The kernel changes or removes the attribute file; udev's cache keeps the
\* value it read before.
SysfsChange ==
  /\ \E f \in {f \in [exists : BOOLEAN, s : Texts] : ~f.exists => f.s = <<>>} :
       /\ f # file
       /\ file' = f
  /\ written' = NoValue
  /\ last' = [op |-> "sysfs", res |-> FPGA_OK, val |-> NoValue]
  /\ UNCHANGED <<cache, pages>>

Next == ReadAttr \/ WriteAttr64 \/ SetAttr \/ SysfsChange

Spec == Init /\ [][Next]_vars

-----------------------------------------------------------------------------
(* Properties *)

TypeOK ==
  /\ cache \in [present : BOOLEAN, s : Seq(STRING)]
  /\ file \in [exists : BOOLEAN, s : Seq(STRING)]
  /\ written \in Values \cup {NoValue}
  /\ pages \in 0..MaxPages
  /\ last.res \in {FPGA_OK, FPGA_INVALID_PARAM, FPGA_EXCEPTION, FPGA_NOT_FOUND,
                   NullDeref, Overread}

IsRead == last.op \in ReadOps /\ last.res # FPGA_INVALID_PARAM

\* The text the last read parsed: the cached value when it is non-empty,
\* otherwise the file.
ReadText == IF cache.present /\ cache.s # <<>> THEN cache.s ELSE file.s

\* Round trip (spec: writing v through dfl_device_write_attr64 and reading
\* it back through dfl_parse_attr64 yields v): while the written value is in
\* place, every read on a device it applies to returns it.
RoundTrip ==
  (IsRead /\ written # NoValue) => last.res = FPGA_OK /\ last.val = written

\* The spec's reading of a number: "0x"/"0X" and hex digits, or decimal
\* digits.
SpecValue(t) ==
  IF Len(t) > 2 /\ t[1] = "0" /\ t[2] \in {"x", "X"}
  THEN DigitsValue(t, 3, Len(t) - 2, 16)
  ELSE DigitsValue(t, 1, Len(t), 10)
IsSpecNumber(t) ==
  IF Len(t) > 2 /\ t[1] = "0" /\ t[2] \in {"x", "X"}
  THEN \A i \in 3..Len(t) : DigitValue(t[i]) < 16
  ELSE Len(t) > 0 /\ \A i \in 1..Len(t) : DigitValue(t[i]) < 10

\* Spec 4.3: a read that returns reports NotFound when the cache is absent
\* or empty and the file is absent or blank once trimmed; it succeeds only
\* when the whole trimmed text is a number, hex after a 0x prefix and
\* decimal otherwise (partial consumption is a parse error), and the value
\* is then that number.  The text is trimmed at both ends.
ReadMatchesSpec ==
  LET r == dfl_string_rtrim(ReadText)
      s == SubSeq(r, SkipSpace(r, 1), Len(r))
      blank == (~cache.present \/ cache.s = <<>>) /\ (~file.exists \/ dfl_string_rtrim(file.s) = <<>>)
  IN /\ (IsRead /\ last.res \notin {NullDeref, Overread} /\ blank) => last.res = FPGA_NOT_FOUND
     /\ (IsRead /\ last.res = FPGA_OK /\ s # <<>>) => IsSpecNumber(s) /\ last.val = SpecValue(s)

\* A failed calloc or fopen inside dfl_direct_read_attr is handled: the
\* calloc failure is reported as an error, never turned into strlen(NULL)
\* in dfl_direct_read_attr64/32, and every page the read allocated is freed
\* by the time it returns.
DirectReadFailureSafe == last.res # NullDeref /\ pages = 0

====
