---------------------------- MODULE EscapeString ----------------------------
(***************************************************************************)
(* The decoder of string bodies (escape_string.rs).  A body is a sequence  *)
(* of units, as the tokenizer has validated them: a plain character, a     *)
(* simple escape, or \u with the value of its four digits.  A step is one  *)
(* item of the iterator Unescape and what unescape_into does with it.      *)
(***************************************************************************)
EXTENDS Integers, Sequences, FiniteSetsExt, SequencesExt

CONSTANTS
    Plain,     \* code points of plain characters
    Values,    \* values of \u escapes
    MaxUnits,  \* bound: units in a body
    Spare      \* sizes of the buffer, relative to raw_len

VARIABLES
    body,     \* the raw body
    rest,     \* its units that are not decoded
    decoded,  \* the characters so far
    written,  \* bytes in the buffer
    size,     \* of the buffer
    result    \* "none", "ok" or an ErrorKind

vars == <<body, rest, decoded, written, size, result>>

plain(c) == [kind |-> "plain", value |-> c]
simple == [kind |-> "simple", value |-> 10]
unicode(v) == [kind |-> "unicode", value |-> v]
Units == {plain(c) : c \in Plain} \cup {simple} \cup {unicode(v) : v \in Values}

len_utf8(c) == CASE c < 128 -> 1 [] c < 2048 -> 2 [] c < 65536 -> 3 [] OTHER -> 4

\* Bytes of a unit in the document.
unit_len(u) ==
    CASE u.kind = "plain" -> len_utf8(u.value) [] u.kind = "simple" -> 2 [] OTHER -> 6
RECURSIVE raw_len(_)
raw_len(s) == IF s = <<>> THEN 0 ELSE unit_len(Head(s)) + raw_len(Tail(s))

Bodies == UNION {[1..n -> Units] : n \in 0..MaxUnits}

Leading(v) == v \in 55296..56319
Trailing(v) == v \in 56320..57343

Init ==
    /\ body \in Bodies /\ rest = body
    /\ size \in {raw_len(body) + d : d \in Spare}
    /\ decoded = <<>> /\ written = 0 /\ result = "none"

\* The character and the number of units it takes, or an error.
char(c, n) == [error |-> "none", value |-> c, units |-> n]
LoneSurrogate == [error |-> "LoneSurrogate", value |-> 0, units |-> 0]

\* Mutant: the first half of a pair is shifted too far.
decode_unicode_escape_Shift(s) ==
    LET leading == s[1].value
        trailing == IF Len(s) > 1 /\ s[2].kind = "unicode" THEN s[2].value ELSE 0
    IN  CASE Leading(leading) /\ Trailing(trailing) ->
               char(65536 + (leading - 55296) * 2048 + (trailing - 56320), 2)
          [] Leading(leading) \/ Trailing(leading) -> LoneSurrogate
          [] OTHER -> char(leading, 1)

decode_unicode_escape(s) ==
    LET leading == s[1].value
        trailing == IF Len(s) > 1 /\ s[2].kind = "unicode" THEN s[2].value ELSE 0
    IN  CASE Leading(leading) /\ Trailing(trailing) ->
               char(65536 + (leading - 55296) * 1024 + (trailing - 56320), 2)
          [] Leading(leading) \/ Trailing(leading) -> LoneSurrogate
          [] OTHER -> char(leading, 1)

step(s) == IF s[1].kind = "unicode" THEN decode_unicode_escape(s) ELSE char(s[1].value, 1)

\* One character is decoded and copied to the buffer; the iterator stops after
\* an error.
Decode ==
    /\ result = "none" /\ rest # <<>>
    /\ LET c == step(rest)
           end == written + len_utf8(c.value)
       IN  /\ rest' = IF c.error # "none" THEN <<>> ELSE SubSeq(rest, c.units + 1, Len(rest))
           /\ IF c.error # "none" \/ end > size
              THEN /\ result' = IF c.error # "none" THEN c.error ELSE "BufferTooSmall"
                   /\ UNCHANGED <<decoded, written>>
              ELSE /\ decoded' = Append(decoded, c.value)
                   /\ written' = end
                   /\ UNCHANGED result
    /\ UNCHANGED <<body, size>>

unescape_into ==
    /\ result = "none" /\ rest = <<>>
    /\ result' = "ok"
    /\ UNCHANGED <<body, rest, decoded, written, size>>

Next == Decode \/ unescape_into

\* eq_unescaped: the characters one by one, until one differs or is an error.
RECURSIVE eq_chars(_, _)
eq_chars(s, other) ==
    IF s = <<>> THEN other = <<>>
    ELSE LET c == step(s) IN
         /\ c.error = "none" /\ other # <<>> /\ c.value = Head(other)
         /\ eq_chars(SubSeq(s, c.units + 1, Len(s)), Tail(other))
eq_unescaped(other) == eq_chars(body, other)

-----------------------------------------------------------------------------
TypeOK ==
    /\ written \in Nat /\ size \in Int
    /\ result \in {"none", "ok", "LoneSurrogate", "BufferTooSmall"}

\* UTF-16, the reference: a character is one unit outside of the surrogates or
\* a pair of them.
utf16(c) ==
    IF c < 65536 THEN <<unicode(c)>>
    ELSE <<unicode(55296 + (c - 65536) \div 1024), unicode(56320 + ((c - 65536) % 1024))>>
Encodes(u, c) ==
    \/ Len(u) = 1 /\ u[1].kind # "unicode" /\ u[1].value = c
    \/ c \notin 55296..57343 /\ u = utf16(c)
\* s is split where the characters of cs end, after ends[i] units.
Encoding(s, cs) ==
    \E ends \in [0..Len(cs) -> 0..Len(s)] :
       /\ ends[0] = 0 /\ ends[Len(cs)] = Len(s)
       /\ \A i \in 1..Len(cs) :
             ends[i] > ends[i - 1] /\ Encodes(SubSeq(s, ends[i - 1] + 1, ends[i]), cs[i])

\* unescape_into returns the characters whose UTF-16 form the body has, and
\* fails for a body that is no UTF-16; eq_unescaped agrees with it.
DecodesUtf16 ==
    /\ result = "ok" => Encoding(body, decoded) /\ eq_unescaped(decoded)
    /\ result = "LoneSurrogate" =>
          /\ \E i \in DOMAIN body :
                /\ body[i].kind = "unicode"
                /\ \/ /\ Leading(body[i].value)
                      /\ \/ i = Len(body) \/ body[i + 1].kind # "unicode"
                         \/ ~Trailing(body[i + 1].value)
                   \/ /\ Trailing(body[i].value)
                      /\ \/ i = 1 \/ body[i - 1].kind # "unicode"
                         \/ ~Leading(body[i - 1].value)
          /\ ~eq_unescaped(decoded)

\* "A decode never increases the length of a body": raw_len bytes suffice.
RawLenSuffices == size >= raw_len(body) => result # "BufferTooSmall"
=============================================================================
