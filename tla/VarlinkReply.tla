---------------------------- MODULE VarlinkReply ----------------------------
(* The decoder of a ResolveHostname reply (resolver/varlink_reply.rs).      *)
(* The tokenizer drives it with the tokens of well-formed JSON text; the    *)
(* decoder has a state, two counters and the address entry it collects, and *)
(* no stack.  `path` is the stack it does without: the open containers and  *)
(* the member whose value is due in each.                                   *)
EXTENDS Integers, Sequences, SequencesExt

CONSTANTS
    MAX_DEPTH,          \* deepest nesting that is read (5 in the code)
    MAX_ADDRESS_BYTES,  \* bytes of an address (16 in the code)
    Numbers,            \* kinds of number texts, see `integer`
    Skipped,            \* member names offered inside values that are discarded
    None

VARIABLES
    decoder,   \* the Decoder
    finished,  \* ResolveHostnameReply.finished
    driving,   \* inside a call of drive
    result,    \* what the last call of drive returned
    path,      \* input: open containers, outermost first, with their current member
    ended,     \* input: the top-level value is complete
    reported,  \* the item that the last token gave to the visitor
    entry,     \* history: members of the address object being read, the last of each name
    due,       \* history: the item the schema finds in the last token
    misfit,    \* history: the schema has no place for the last token
    answered,  \* history: the reply has an error or an array of addresses
    verdict    \* history: the result with which the decode ended

vars == <<decoder, finished, driving, result, path, ended, reported, entry, due, misfit,
          answered, verdict>>

EMPTY == [ifindex |-> None, family |-> None, octets |-> <<>>, has_octets |-> FALSE]

NewDecoder == [state |-> "Start", skip_depth |-> 0, skip_resume |-> "Reply", depth |-> 0,
               address |-> EMPTY, seen_error |-> FALSE, seen_addresses |-> FALSE]

\* The position of the decoder in the reply.
State == {"Start", "Reply", "ReplyError", "ReplyParameters", "Parameters",
          "ParametersAddresses", "ParametersName", "ParametersFlags", "Addresses", "Address",
          "AddressIfindex", "AddressFamily", "AddressOctetsStart", "AddressOctets", "Skip",
          "Complete"}

Rejections == {"Json", "UnexpectedType", "NumberOutOfRange", "AddressTooLong",
               "MissingMember", "DepthExceeded", "UnexpectedEscape"}

-----------------------------------------------------------------------------
(* Number texts.  "octet" is an integer that fits every field, "negative" and *)
(* "i32" one that is no u8, "u64" one that is no i32, "huge" one that fits no *)
(* field, and "float" has a point or an exponent.                             *)

integer(text) == IF text = "float" THEN "UnexpectedType"
                 ELSE IF text = "huge" THEN "NumberOutOfRange" ELSE None

Within(text, kinds) == IF integer(text) # None THEN integer(text)
                       ELSE IF text \in kinds THEN None ELSE "NumberOutOfRange"

integer_i32(text) == Within(text, {"octet", "negative", "i32"})
as_u8(text) == Within(text, {"octet"})
as_u64(text) == Within(text, {"octet", "i32", "u64"})

-----------------------------------------------------------------------------
(* What a handler of the decoder returns: the decoder after it, and what     *)
(* stops the tokenizer: a rejection, or an item for the visitor.             *)

Continue(d) == [decoder |-> d, rejection |-> None, item |-> None]
Reject(d, kind) == [decoder |-> d, rejection |-> kind, item |-> None]
Report(d, item) == [decoder |-> d, rejection |-> None, item |-> item]

Goto(d, s) == [d EXCEPT !.state = s]
opened(d) == [d EXCEPT !.depth = @ + 1]
close(d) == [d EXCEPT !.depth = IF @ = 0 THEN 0 ELSE @ - 1]

begin_skip(d, resume) == [d EXCEPT !.skip_resume = resume, !.skip_depth = 0, !.state = "Skip"]

end_skipped_value(d) == IF d.skip_depth = 0 THEN Goto(d, d.skip_resume) ELSE d

\* Mutant: a container of a discarded value ends the discard at once.
close_skipped_AtOnce(d) == Goto([d EXCEPT !.skip_depth = 0], d.skip_resume)

close_skipped(d) ==
    end_skipped_value([d EXCEPT !.skip_depth = IF @ = 0 THEN 0 ELSE @ - 1])

discard_scalar(d) == IF d.state = "Skip" THEN Continue(end_skipped_value(d))
                     ELSE Reject(d, "UnexpectedType")

\* Mutant: an address object keeps the members of the one before it.
object_start_KeepsAddress(d0) ==
    LET d == opened(d0) IN
    CASE d.depth > MAX_DEPTH -> Reject(d, "DepthExceeded")
      [] d.state = "Start" -> Continue(Goto(d, "Reply"))
      [] d.state = "ReplyParameters" -> Continue(Goto(d, "Parameters"))
      [] d.state = "Addresses" -> Continue(Goto(d, "Address"))
      [] d.state = "Skip" -> Continue([d EXCEPT !.skip_depth = @ + 1])
      [] OTHER -> Reject(d, "UnexpectedType")

object_start(d0) ==
    LET d == opened(d0) IN
    CASE d.depth > MAX_DEPTH -> Reject(d, "DepthExceeded")
      [] d.state = "Start" -> Continue(Goto(d, "Reply"))
      [] d.state = "ReplyParameters" -> Continue(Goto(d, "Parameters"))
      [] d.state = "Addresses" -> Continue(Goto([d EXCEPT !.address = EMPTY], "Address"))
      [] d.state = "Skip" -> Continue([d EXCEPT !.skip_depth = @ + 1])
      [] OTHER -> Reject(d, "UnexpectedType")

array_start(d0) ==
    LET d == opened(d0) IN
    CASE d.depth > MAX_DEPTH -> Reject(d, "DepthExceeded")
      [] d.state = "ParametersAddresses" ->
            Continue(Goto([d EXCEPT !.seen_addresses = TRUE], "Addresses"))
      [] d.state = "AddressOctetsStart" ->
            Continue(Goto([d EXCEPT !.address.octets = <<>>, !.address.has_octets = TRUE],
                          "AddressOctets"))
      [] d.state = "Skip" -> Continue([d EXCEPT !.skip_depth = @ + 1])
      [] OTHER -> Reject(d, "UnexpectedType")

array_end(d0) ==
    LET d == close(d0) IN
    CASE d.state = "Addresses" -> Continue(Goto(d, "Parameters"))
      [] d.state = "AddressOctets" -> Continue(Goto(d, "Address"))
      [] d.state = "Skip" -> Continue(close_skipped(d))
      [] OTHER -> Reject(d, "UnexpectedType")

take_address(a) == [ifindex |-> IF a.ifindex = None THEN "zero" ELSE a.ifindex,
                    family |-> a.family, octets |-> a.octets]

object_end(d0) ==
    LET d == close(d0) IN
    CASE d.state = "Reply" -> Continue(Goto(d, "Complete"))
      [] d.state = "Parameters" -> Continue(Goto(d, "Reply"))
      [] d.state = "Address" ->
            IF d.address.family # None /\ d.address.has_octets
            THEN Report(Goto(d, "Addresses"), <<"address", take_address(d.address)>>)
            ELSE Reject(Goto(d, "Addresses"), "MissingMember")
      [] d.state = "Skip" -> Continue(close_skipped(d))
      [] OTHER -> Reject(d, "UnexpectedType")

push_octet(d, text) ==
    IF Len(d.address.octets) >= MAX_ADDRESS_BYTES THEN Reject(d, "AddressTooLong")
    ELSE IF as_u8(text) # None THEN Reject(d, as_u8(text))
    ELSE Continue([d EXCEPT !.address.octets = Append(@, text)])

\* `number` of the bridge and of the decoder.
number(d, text) ==
    CASE d.state = "ParametersFlags" ->
            IF as_u64(text) = None THEN Report(Goto(d, "Parameters"), <<"flags", text>>)
            ELSE Reject(Goto(d, "Parameters"), as_u64(text))
      [] d.state \in {"AddressIfindex", "AddressFamily"} /\ integer_i32(text) # None ->
            Reject(d, integer_i32(text))
      [] d.state = "AddressIfindex" ->
            Continue(Goto([d EXCEPT !.address.ifindex = text], "Address"))
      [] d.state = "AddressFamily" ->
            Continue(Goto([d EXCEPT !.address.family = text], "Address"))
      [] d.state = "AddressOctets" -> push_octet(d, text)
      [] d.state = "Skip" -> Continue(end_skipped_value(d))
      [] OTHER -> Reject(d, "UnexpectedType")

\* The member names of the three objects of the schema, with the state of their values.
Members == [Reply |-> [error |-> "ReplyError", parameters |-> "ReplyParameters"],
            Parameters |-> [addresses |-> "ParametersAddresses", name |-> "ParametersName",
                            flags |-> "ParametersFlags"],
            Address |-> [ifindex |-> "AddressIfindex", family |-> "AddressFamily",
                         address |-> "AddressOctetsStart"]]

\* `member`, for a plain and for an escaped name.
member(d, name) ==
    CASE d.state = "Skip" -> Continue(d)
      [] d.state \notin DOMAIN Members \cup {"Skip"} -> Reject(d, "UnexpectedType")
      [] OTHER -> Continue(IF name \in DOMAIN Members[d.state]
                           THEN Goto(d, Members[d.state][name])
                           ELSE begin_skip(d, d.state))

string(d) ==
    CASE d.state = "ReplyError" ->
            Report(Goto([d EXCEPT !.seen_error = TRUE], "Reply"), <<"error", "plain">>)
      [] d.state = "ParametersName" -> Report(Goto(d, "Parameters"), <<"name", "plain">>)
      [] d.state = "Skip" -> Continue(end_skipped_value(d))
      [] OTHER -> Reject(d, "UnexpectedType")

escape_string(d) ==
    CASE d.state = "ReplyError" -> Reject(d, "UnexpectedEscape")
      [] d.state = "ParametersName" -> Report(Goto(d, "Parameters"), <<"name", "escaped">>)
      [] d.state = "Skip" -> Continue(end_skipped_value(d))
      [] OTHER -> Reject(d, "UnexpectedType")

-----------------------------------------------------------------------------
(* The schema, by position.  A position is the sequence of the members that  *)
(* lead to it; an element of an array is "*", and None stands for the place  *)
(* between two members of an object.                                         *)

Entry == <<"parameters", "addresses", "*">>

Schema == << <<<<None>>, "Reply">>, <<<<"error">>, "ReplyError">>,
             <<<<"parameters">>, "ReplyParameters">>,
             <<<<"parameters", None>>, "Parameters">>,
             <<<<"parameters", "addresses">>, "ParametersAddresses">>,
             <<<<"parameters", "name">>, "ParametersName">>,
             <<<<"parameters", "flags">>, "ParametersFlags">>,
             <<Entry, "Addresses">>, <<Entry \o <<None>>, "Address">>,
             <<Entry \o <<"ifindex">>, "AddressIfindex">>,
             <<Entry \o <<"family">>, "AddressFamily">>,
             <<Entry \o <<"address">>, "AddressOctetsStart">>,
             <<Entry \o <<"address", "*">>, "AddressOctets">> >>

Known == {Schema[i][1] : i \in DOMAIN Schema}
SchemaState == [p \in Known |-> Schema[CHOOSE i \in DOMAIN Schema : Schema[i][1] = p][2]]

\* The first position on the way to p that the schema does not name.
Unknown(p) == CHOOSE n \in 1..Len(p) :
                  /\ SubSeq(p, 1, n) \notin Known
                  /\ \A k \in 1..n - 1 : SubSeq(p, 1, k) \in Known

\* What the schema accepts as the value at p.
Accepts(p, tok) ==
    CASE p = <<>> \/ p = <<"parameters">> \/ p = Entry -> tok = <<"{">>
      [] p = Entry \o <<"address">> \/ p = <<"parameters", "addresses">> -> tok = <<"[">>
      [] p = <<"error">> -> tok = <<"string">>
      [] p = <<"parameters", "name">> -> tok \in {<<"string">>, <<"escape_string">>}
      [] p = <<"parameters", "flags">> -> tok[1] = "number" /\ as_u64(tok[2]) = None
      [] p = Entry \o <<"address", "*">> ->
            /\ tok[1] = "number" /\ as_u8(tok[2]) = None
            /\ Len(entry.octets) < MAX_ADDRESS_BYTES
      [] p \in {Entry \o <<"ifindex">>, Entry \o <<"family">>} ->
            tok[1] = "number" /\ integer_i32(tok[2]) = None
      [] OTHER -> TRUE

-----------------------------------------------------------------------------
(* The input: tokens of well-formed text, made up as they are needed.        *)

AtMember == path # <<>> /\ Last(path) = None
AtValue == ~ended /\ ~AtMember

Scalars == {<<"string">>, <<"escape_string">>, <<"boolean">>, <<"null">>}
               \cup {<<"number", n>> : n \in Numbers}

\* The path after a value that is complete: in an object a member name is due.
Valued(p) == IF p = <<>> \/ Last(p) = "*" THEN p ELSE [p EXCEPT ![Len(p)] = None]

Names == UNION {DOMAIN Members[s] : s \in DOMAIN Members} \cup {"other"}
NamesHere == IF path \in Known THEN Names ELSE Skipped

-----------------------------------------------------------------------------

Init == /\ decoder = NewDecoder /\ finished = FALSE /\ driving = FALSE /\ result = None
        /\ path = <<>> /\ ended = FALSE
        /\ reported = None /\ entry = EMPTY /\ due = None /\ misfit = FALSE
        /\ answered = FALSE /\ verdict = None

\* A call of drive starts or resumes the tokenizer, unless the decode has ended.
drive == /\ ~driving
         /\ IF finished THEN result' = "Done" /\ driving' = FALSE
            ELSE result' = None /\ driving' = TRUE
         /\ UNCHANGED <<decoder, finished, path, ended, reported, entry, due, misfit, answered, verdict>>

\* What drive does with the answer of a handler.  A visitor may stop at an item.
Outcome(h) ==
    /\ decoder' = h.decoder
    /\ reported' = h.item
    /\ finished' = (h.rejection # None)
    /\ verdict' = h.rejection
    /\ \/ h.rejection # None /\ driving' = FALSE /\ result' = h.rejection
       \/ h.rejection = None /\ driving' = TRUE /\ result' = None
       \/ h.item # None /\ driving' = FALSE /\ result' = "Item"

\* A token that opens a container at the current position.
Open(tok) ==
    /\ driving /\ AtValue
    /\ Outcome(IF tok = <<"{">> THEN object_start(decoder) ELSE array_start(decoder))
    /\ path' = Append(path, IF tok = <<"{">> THEN None ELSE "*")
    /\ entry' = IF path = Entry THEN EMPTY
                ELSE IF path = Entry \o <<"address">>
                     THEN [entry EXCEPT !.octets = <<>>, !.has_octets = TRUE] ELSE entry
    /\ due' = None
    /\ misfit' = (Len(path) = MAX_DEPTH \/ ~Accepts(path, tok))
    /\ answered' = (answered \/ (path = <<"parameters", "addresses">> /\ ~misfit'))
    /\ UNCHANGED ended

ObjectEnd ==
    /\ driving /\ AtMember
    /\ Outcome(object_end(decoder))
    /\ path' = Valued(Front(path)) /\ ended' = (Len(path) = 1)
    /\ misfit' = (path = Entry \o <<None>> /\ (entry.family = None \/ ~entry.has_octets))
    /\ due' = IF path = Entry \o <<None>> /\ ~misfit'
              THEN <<"address", take_address(entry)>> ELSE None
    /\ UNCHANGED <<entry, answered>>

ArrayEnd ==
    /\ driving /\ path # <<>> /\ Last(path) = "*"
    /\ Outcome(array_end(decoder))
    /\ path' = Valued(Front(path)) /\ ended' = (Len(path) = 1)
    /\ due' = None /\ misfit' = FALSE
    /\ UNCHANGED <<entry, answered>>

Key(name) ==
    /\ driving /\ AtMember /\ name \in NamesHere
    /\ Outcome(member(decoder, name))
    /\ path' = [path EXCEPT ![Len(path)] = name]
    /\ due' = None /\ misfit' = FALSE
    /\ UNCHANGED <<ended, entry, answered>>

Scalar(tok) ==
    /\ driving /\ AtValue
    /\ Outcome(CASE tok[1] = "string" -> string(decoder)
                 [] tok[1] = "escape_string" -> escape_string(decoder)
                 [] tok[1] = "number" -> number(decoder, tok[2])
                 [] OTHER -> discard_scalar(decoder))
    /\ path' = Valued(path) /\ ended' = (path = <<>>)
    /\ misfit' = ~Accepts(path, tok)
    /\ due' = CASE misfit' -> None
                [] path = <<"error">> -> <<"error", "plain">>
                [] path = <<"parameters", "name">> ->
                      <<"name", IF tok[1] = "string" THEN "plain" ELSE "escaped">>
                [] path = <<"parameters", "flags">> -> <<"flags", tok[2]>>
                [] OTHER -> None
    /\ entry' = CASE misfit' -> entry
                  [] path = Entry \o <<"ifindex">> -> [entry EXCEPT !.ifindex = tok[2]]
                  [] path = Entry \o <<"family">> -> [entry EXCEPT !.family = tok[2]]
                  [] path = Entry \o <<"address", "*">> ->
                        [entry EXCEPT !.octets = Append(@, tok[2])]
                  [] OTHER -> entry
    /\ answered' = (answered \/ (path = <<"error">> /\ ~misfit'))

\* The end of the text.
EndOfText ==
    /\ driving /\ ended
    /\ finished' = TRUE /\ driving' = FALSE
    /\ result' = IF decoder.seen_error \/ decoder.seen_addresses THEN "Done" ELSE "MissingMember"
    /\ verdict' = result'
    /\ UNCHANGED <<decoder, path, ended, reported, entry, due, misfit, answered>>

\* The tokenizer rejects the text.
Malformed ==
    /\ driving
    /\ finished' = TRUE /\ driving' = FALSE /\ result' = "Json"
    /\ verdict' = result'
    /\ UNCHANGED <<decoder, path, ended, reported, entry, due, misfit, answered>>

Next ==
    \/ drive \/ ObjectEnd \/ ArrayEnd \/ EndOfText \/ Malformed
    \/ \E tok \in {<<"{">>, <<"[">>} : Open(tok)
    \/ \E tok \in Scalars : Scalar(tok)
    \/ \E name \in Names : Key(name)

Spec == Init /\ [][Next]_vars

-----------------------------------------------------------------------------

\* The decoder's fields have their types, and no entry has more bytes than an
\* address can have.
TypeOK ==
    /\ decoder.state \in State /\ decoder.skip_resume \in State
    /\ decoder.depth \in 0..MAX_DEPTH + 1 /\ decoder.skip_depth \in 0..MAX_DEPTH
    /\ Len(decoder.address.octets) <= MAX_ADDRESS_BYTES
    /\ result \in Rejections \cup {None, "Done", "Item"}
    /\ finished \in BOOLEAN /\ driving \in BOOLEAN

\* One state and two counters do the work of a stack.  As long as nothing was
\* rejected, the decoder's state is the one the schema names for the position of
\* the input, whatever unknown values were discarded on the way, depth counts the
\* open containers, and in a discarded value skip_depth counts those inside it
\* and skip_resume is the object that holds it.
DecoderFollowsPath ==
    ~finished /\ path # <<>> =>
        /\ decoder.depth = Len(path)
        /\ IF path \in Known THEN decoder.state = SchemaState[path]
           ELSE LET n == Unknown(path) IN
                /\ decoder.state = "Skip"
                /\ decoder.skip_depth = Len(path) - n
                /\ decoder.skip_resume = SchemaState[SubSeq(path, 1, n - 1) \o <<None>>]

\* The visitor receives exactly the items that stand at the positions the schema
\* names, an address with the last of its repeated members; a reply is rejected at
\* the first token that does not fit the schema and at no other; and the reply is
\* accepted at the end of the text exactly if it has an error or an array of
\* addresses, which may be empty.
ReportsSchema ==
    /\ reported = due
    /\ misfit => verdict \in Rejections \ {"Json"}
    /\ verdict \in Rejections \ {"Json"} /\ ~misfit =>
           verdict = "MissingMember" /\ ended /\ ~answered
    /\ verdict = "Done" => ended /\ answered
=============================================================================
