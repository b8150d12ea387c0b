--------------------------- MODULE JsonTokenizer ---------------------------
(***************************************************************************)
(* The tokenizer of kimojio-json (tokenizer.rs): the scanners of strings,  *)
(* numbers and literals, and the automaton that puts tokens together.  One *)
(* step is one turn of the loop of run, that is one token or one comma: a  *)
(* visitor may suspend the scan after any of them, and drive goes on from  *)
(* there.  Bytes are characters; "ctl" is a control byte.  Offsets count   *)
(* from 1.                                                                 *)
(***************************************************************************)
EXTENDS Integers, Sequences, SequencesExt, FiniteSetsExt

CONSTANTS
    Alphabets,   \* bounds: [bytes, body, max], the bytes of an input, those
                 \* inside of its strings, and its length
    Beginnings,  \* per alphabet: the documents and what they begin with
    MAX_DEPTH

VARIABLES
    alphabet,
    input, offset, state, stack, depth, failure,
    tokens,     \* what the visitor was told (history)
    finished    \* drive has returned Ok(None)

vars == <<alphabet, input, offset, state, stack, depth, failure, tokens, finished>>
scanner == <<offset, state, stack, depth, failure, tokens, finished>>

Digits == {"0", "1"}
HexDigits == Digits \cup {"e"}
Simple == {"\"", "\\", "/", "b", "f", "n", "r", "t"}

State == {"Start", "Done", "ObjectFirstKey", "ObjectNextKey", "ObjectValue", "ObjectComma",
          "ArrayFirstValue", "ArrayNextValue", "ArrayComma"}
ErrorKind == {"UnexpectedEof", "UnexpectedByte", "TrailingData", "InvalidNumber",
              "UnterminatedString", "ControlCharacter", "InvalidEscape", "ExpectedKey",
              "ExpectedColon", "DepthExceeded"}

NoFailure == [kind |-> "none", at |-> 0]
Ok(cursor) == [kind |-> "none", at |-> cursor]
Error(kind, cursor) == [kind |-> kind, at |-> cursor]
IsErr(r) == r.kind # "none"

\* bytes.get(i); "eof" for None.
byte(i) == IF i \in DOMAIN input THEN input[i] ELSE "eof"

-----------------------------------------------------------------------------
(* Scanners: the offset after the token, or an error.                      *)

skip_whitespace(i) == Min({j \in i..(Len(input) + 1) : byte(j) # " "})

skip_digits(i) == Min({j \in i..(Len(input) + 1) : byte(j) \notin Digits})

scan_literal(word) ==
    LET end == offset + Len(word) IN
    IF end - 1 > Len(input) THEN Error("UnexpectedEof", offset)
    ELSE IF SubSeq(input, offset, end - 1) = word THEN Ok(end)
    ELSE Error("UnexpectedByte", offset)

\* Mutant: a control character is no escape.
validate_escape_NoControls(i) ==
    CASE byte(i + 1) = "eof" -> Error("UnterminatedString", i + 1)
      [] byte(i + 1) \in {"\"", "\\", "/"} -> Ok(i + 2)
      [] byte(i + 1) = "u" /\ \A j \in (i + 2)..(i + 5) : byte(j) \in HexDigits -> Ok(i + 6)
      [] OTHER -> Error("InvalidEscape", i)

\* Mutant: one hexadecimal digit too few.
validate_escape_Three(i) ==
    CASE byte(i + 1) = "eof" -> Error("UnterminatedString", i + 1)
      [] byte(i + 1) \in Simple -> Ok(i + 2)
      [] byte(i + 1) = "u" /\ \A j \in (i + 2)..(i + 4) : byte(j) \in HexDigits -> Ok(i + 5)
      [] OTHER -> Error("InvalidEscape", i)

validate_escape(i) ==
    CASE byte(i + 1) = "eof" -> Error("UnterminatedString", i + 1)
      [] byte(i + 1) \in Simple -> Ok(i + 2)
      [] byte(i + 1) = "u" /\ \A j \in (i + 2)..(i + 5) : byte(j) \in HexDigits -> Ok(i + 6)
      [] OTHER -> Error("InvalidEscape", i)

\* From the byte after the opening quote to the one after the closing quote.
scan_string ==
    LET loop[i \in 1..(Len(input) + 1)] ==
          CASE byte(i) = "eof" -> Error("UnterminatedString", i)
            [] byte(i) = "\"" -> Ok(i + 1)
            [] byte(i) = "\\" -> LET r == validate_escape(i) IN
                                 IF IsErr(r) THEN r ELSE loop[r.at]
            [] byte(i) = "ctl" -> Error("ControlCharacter", i)
            [] OTHER -> loop[i + 1]
    IN  loop[offset + 1]

\* Mutant: digits may follow a leading zero.
scan_integer_LeadingZero(i) ==
    CASE byte(i) \in Digits -> Ok(skip_digits(i))
      [] byte(i) = "eof" -> Error("UnexpectedEof", i)
      [] OTHER -> Error("InvalidNumber", i)

\* The digits before the point.
scan_integer(i) ==
    CASE byte(i) = "0" -> IF byte(i + 1) \in Digits THEN Error("InvalidNumber", i + 1)
                          ELSE Ok(i + 1)
      [] byte(i) \in Digits \ {"0"} -> Ok(skip_digits(i))
      [] byte(i) = "eof" -> Error("UnexpectedEof", i)
      [] OTHER -> Error("InvalidNumber", i)

\* At least one digit, after the point or in the exponent.
scan_digits(i) ==
    IF skip_digits(i) = i THEN Error("InvalidNumber", i) ELSE Ok(skip_digits(i))

scan_number ==
    LET integer == scan_integer(IF byte(offset) = "-" THEN offset + 1 ELSE offset)
        fraction == IF IsErr(integer) \/ byte(integer.at) # "." THEN integer
                    ELSE scan_digits(integer.at + 1)
        e == fraction.at + 1
    IN  IF IsErr(fraction) \/ byte(fraction.at) # "e" THEN fraction
        ELSE scan_digits(IF byte(e) \in {"+", "-"} THEN e + 1 ELSE e)

-----------------------------------------------------------------------------
(* The automaton.                                                          *)

fail(r) ==
    /\ failure' = r
    /\ UNCHANGED <<offset, state, stack, depth, tokens, finished>>

in_array(d) == d > 0 /\ stack[d - 1]

\* The state after a completed value inside of d containers.
after_value(d) ==
    CASE d = 0 -> "Done"
      [] in_array(d) -> "ArrayComma"
      [] OTHER -> "ObjectComma"

visit(token) == tokens' = Append(tokens, token)
escaped(from, to) == \E i \in from..to : byte(i) = "\\"
text(from, to) == SubSeq(input, from, to)

\* Mutant: the limit is off by one.
push_TooDeep(i, is_array) ==
    IF depth > MAX_DEPTH
    THEN fail(Error("DepthExceeded", i))
    ELSE /\ stack' = [d \in DOMAIN stack |-> IF d = depth THEN is_array ELSE stack[d]]
         /\ depth' = depth + 1
         /\ offset' = i + 1
         /\ state' = IF is_array THEN "ArrayFirstValue" ELSE "ObjectFirstKey"
         /\ visit(<<IF is_array THEN "array_start" ELSE "object_start">>)
         /\ UNCHANGED <<failure, finished>>

push(i, is_array) ==
    IF depth >= MAX_DEPTH
    THEN fail(Error("DepthExceeded", i))
    ELSE /\ stack' = [stack EXCEPT ![depth] = is_array]
         /\ depth' = depth + 1
         /\ offset' = i + 1
         /\ state' = IF is_array THEN "ArrayFirstValue" ELSE "ObjectFirstKey"
         /\ visit(<<IF is_array THEN "array_start" ELSE "object_start">>)
         /\ UNCHANGED <<failure, finished>>

\* Mutant: the state is chosen before the container is left.
close_container_Late(i, token) ==
    /\ offset' = i + 1
    /\ depth' = depth - 1
    /\ state' = IF depth = 1 THEN "Done" ELSE after_value(depth)
    /\ visit(<<token>>)
    /\ UNCHANGED <<stack, failure, finished>>

close_container(i, token) ==
    /\ offset' = i + 1
    /\ depth' = depth - 1
    /\ state' = after_value(depth - 1)
    /\ visit(<<token>>)
    /\ UNCHANGED <<stack, failure, finished>>

\* A scalar that ends before r.at.
scalar(r, token) ==
    IF IsErr(r) THEN fail(r)
    ELSE /\ offset' = r.at
         /\ state' = after_value(depth)
         /\ visit(token)
         /\ UNCHANGED <<stack, depth, failure, finished>>

\* The scanners start at offset, where skip_whitespace has left it.
scan_value ==
    LET b == byte(offset)
        string == scan_string
        number == scan_number
        body(r) == text(offset + 1, r.at - 2)
    IN  CASE b = "{" -> push(offset, FALSE)
          [] b = "[" -> push(offset, TRUE)
          [] b = "\"" -> scalar(string,
                <<IF escaped(offset + 1, string.at - 2) THEN "escape_string" ELSE "string",
                  body(string)>>)
          [] b = "t" -> scalar(scan_literal(<<"t", "r", "u", "e">>), <<"true">>)
          [] b = "f" -> scalar(scan_literal(<<"f", "a", "l", "s", "e">>), <<"false">>)
          [] b = "n" -> scalar(scan_literal(<<"n", "u", "l", "l">>), <<"null">>)
          [] b \in Digits \cup {"-"} ->
                scalar(number, <<"number", text(offset, number.at - 1)>>)
          [] OTHER -> fail(Error("UnexpectedByte", offset))

scan_key ==
    LET name == scan_string
        colon == skip_whitespace(name.at)
        kind == IF escaped(offset + 1, name.at - 2) THEN "escape_key" ELSE "key"
    IN  IF byte(offset) # "\"" THEN fail(Error("ExpectedKey", offset))
        ELSE IF IsErr(name) THEN fail(name)
        ELSE IF byte(colon) # ":" THEN fail(Error("ExpectedColon", colon))
        ELSE /\ offset' = colon + 1
             /\ state' = "ObjectValue"
             /\ visit(<<kind, text(offset + 1, name.at - 2)>>)
             /\ UNCHANGED <<stack, depth, failure, finished>>

\* After an element or a member: a comma, or the end of the container.
comma(next, close, token) ==
    CASE byte(offset) = "," ->
            /\ offset' = offset + 1
            /\ state' = next
            /\ UNCHANGED <<stack, depth, failure, tokens, finished>>
      [] byte(offset) = close -> close_container(offset, token)
      [] OTHER -> fail(Error("UnexpectedByte", offset))

Running == failure = NoFailure /\ ~finished

\* The cursor moves over whitespace at the start of a turn.
SkipWhitespace ==
    /\ Running /\ byte(offset) = " "
    /\ offset' = skip_whitespace(offset)
    /\ UNCHANGED <<alphabet, input, state, stack, depth, failure, tokens, finished>>

EndOfInput ==
    /\ Running /\ byte(offset) = "eof"
    /\ IF state = "Done"
       THEN finished' = TRUE /\ UNCHANGED <<offset, state, stack, depth, failure, tokens>>
       ELSE fail(Error("UnexpectedEof", offset))
    /\ UNCHANGED <<alphabet, input>>

\* Mutant: a comma may stand before the end of an array.
run_TrailingComma ==
    CASE state = "Done" -> fail(Error("TrailingData", offset))
      [] state \in {"Start", "ObjectValue"} -> scan_value
      [] state \in {"ArrayFirstValue", "ArrayNextValue"} ->
            IF byte(offset) = "]" THEN close_container(offset, "array_end") ELSE scan_value
      [] state = "ObjectFirstKey" ->
            IF byte(offset) = "}" THEN close_container(offset, "object_end") ELSE scan_key
      [] state = "ObjectNextKey" -> scan_key
      [] state = "ObjectComma" -> comma("ObjectNextKey", "}", "object_end")
      [] state = "ArrayComma" -> comma("ArrayNextValue", "]", "array_end")

run ==
    CASE state = "Done" -> fail(Error("TrailingData", offset))
      [] state \in {"Start", "ObjectValue", "ArrayNextValue"} -> scan_value
      [] state = "ArrayFirstValue" ->
            IF byte(offset) = "]" THEN close_container(offset, "array_end") ELSE scan_value
      [] state = "ObjectFirstKey" ->
            IF byte(offset) = "}" THEN close_container(offset, "object_end") ELSE scan_key
      [] state = "ObjectNextKey" -> scan_key
      [] state = "ObjectComma" -> comma("ObjectNextKey", "}", "object_end")
      [] state = "ArrayComma" -> comma("ArrayNextValue", "]", "array_end")

drive ==
    /\ Running /\ byte(offset) \notin {" ", "eof"}
    /\ run
    /\ UNCHANGED <<alphabet, input>>

New ==
    /\ offset = 1 /\ state = "Start" /\ depth = 0
    /\ stack = [d \in 0..(MAX_DEPTH - 1) |-> FALSE]
    /\ failure = NoFailure /\ tokens = <<>> /\ finished = FALSE

Init == alphabet \in Alphabets /\ input = <<>> /\ New

\* The text is one with which nothing is wrong for the tokenizer but that it ends too
\* early, perhaps inside of \u or of a literal, and b may come next there.
IncompleteToken ==
    \/ failure.kind = "UnexpectedEof"
    \/ failure.kind = "InvalidEscape" /\ byte(failure.at + 1) = "u"
       /\ \A i \in (failure.at + 2)..Len(input) : byte(i) \in HexDigits
Incomplete(b) ==
    /\ finished \/ failure.at > Len(input) \/ IncompleteToken
    /\ b \in IF failure.kind \in {"UnterminatedString", "InvalidEscape"}
            THEN alphabet.body \cup {"\""}
            ELSE alphabet.bytes

\* The next text, one byte longer: whatever the tokenizer makes of its beginnings, all
\* documents are scanned; and all texts the tokenizer has rejected no beginning of.
Extend(b) ==
    /\ ~Running /\ Len(input) < alphabet.max
    /\ Incomplete(b) \/ Append(input, b) \in Beginnings[alphabet]
    /\ input' = Append(input, b)
    /\ offset' = 1 /\ state' = "Start" /\ depth' = 0
    /\ stack' = [d \in 0..(MAX_DEPTH - 1) |-> FALSE]
    /\ failure' = NoFailure /\ tokens' = <<>> /\ finished' = FALSE
    /\ UNCHANGED alphabet

Next ==
    \/ SkipWhitespace
    \/ EndOfInput
    \/ drive
    \/ \E b \in alphabet.bytes \cup alphabet.body : Extend(b)

Spec == Init /\ [][Next]_vars

-----------------------------------------------------------------------------
TypeOK ==
    /\ state \in State
    /\ failure.kind \in ErrorKind \cup {"none"}
    /\ offset \in 1..(Len(input) + 1)
    /\ depth \in 0..MAX_DEPTH
    /\ finished \in BOOLEAN
=============================================================================
