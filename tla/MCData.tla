------------------------------- MODULE MCData -------------------------------
(***************************************************************************)
(* The sequential data structures and parsers on small instances: the      *)
(* handle table, the JSON tokenizer and its string decoder, the decoder of *)
(* resolver replies, the prefix buffers, the message pipes, and the borrow *)
(* of TaskState.  They share no state; an initial state chooses the one    *)
(* that is explored.                                                       *)
(***************************************************************************)
EXTENDS Integers, Sequences, TLC

CONSTANTS None, t1, t2, t3, t4, t5, b1, b2, b3, s1, s2, r1, r2

VARIABLES
    kind,  \* the component explored
    \* HandleTable
    table_data, free_list, table_requests, free, task_index, future, completed, fits,
    phase,
    \* JsonTokenizer
    alphabet, json_input, offset, state, json_stack, depth, failure, tokens,
    json_finished,
    \* EscapeString
    body, rest, decoded, written, escape_size, escape_result,
    \* VarlinkReply
    decoder, varlink_finished, driving, varlink_result, path, ended, reported, entry,
    due, misfit, answered, verdict,
    \* PrefixBuffer
    prefix_data, layers, contents, reach,
    \* MessagePipe
    id_pipe, box, pipe, sending, receiving, sender_open, receiver_open, excused,
    abandoned,
    \* TaskStateCell
    borrowed, cell_stack, active, tasks, ready, completed_tasks, handles, waits,
    cell_requests, keep_running, callback, dirty, outputs

\* Tokenizer inputs: bytes, those inside of strings, and the length up to which
\* all texts over them are scanned; one set for each group of scanners.
Alphabet(bytes, inside, max) == [bytes |-> bytes, body |-> inside, max |-> max]
MCAlphabets ==
    {Alphabet({"{", "}", "[", "]", ",", ":", "\"", "0"}, {}, 9),
     Alphabet({"[", "]", ",", "0", " "}, {}, 5),
     Alphabet({"-", "0", "1", ".", "e", "+"}, {}, 5),
     Alphabet({"\""}, {"\"", "\\", "u", "0", "n", "ctl"}, 8),
     Alphabet({"n", "u", "l", " ", "[", "]"}, {}, 6),
     Alphabet({"{", "}", ":", "0", " ", "\""}, {}, 7)}
Grammar == INSTANCE JsonGrammar

\* The documents of the grammar, with their tokens, their texts and the texts with
\* which these begin; the tokenizer accepts those that are not too deep.
Documents == [A \in MCAlphabets |-> Grammar!Documents(A.bytes \cup A.body, A.body, A.max)]
Texts == [A \in MCAlphabets |-> {x.t : x \in Documents[A]}]
MCBeginnings == [A \in MCAlphabets |->
    UNION {{SubSeq(t, 1, n) : n \in 0..Len(t)} : t \in Texts[A]}]
Accepted == [A \in MCAlphabets |-> {<<x.t, x.k>> : x \in {y \in Documents[A] : y.d <= 2}}]
Shallow == [A \in MCAlphabets |-> {x[1] : x \in Accepted[A]}]

Table == INSTANCE HandleTable WITH
    Tasks <- {t1, t2, t3, t4, t5}, IndexBits <- 2, MaxSlots <- 5, data <- table_data,
    requests <- table_requests

Json == INSTANCE JsonTokenizer WITH
    Alphabets <- MCAlphabets, Beginnings <- MCBeginnings, MAX_DEPTH <- 2, input <- json_input,
    stack <- json_stack, finished <- json_finished

Escape == INSTANCE EscapeString WITH
    Plain <- {65, 2047, 1114111}, Values <- {0, 127, 128, 2047, 2048, 55295, 55296,
    56319, 56320, 57343, 57344, 65535}, MaxUnits <- 3, Spare <- {-1, 0},
    size <- escape_size, result <- escape_result

Varlink == INSTANCE VarlinkReply WITH
    MAX_DEPTH <- 5, MAX_ADDRESS_BYTES <- 2, Numbers <- {"octet", "i32", "huge",
    "float"}, Skipped <- {"address", "other"}, finished <- varlink_finished,
    result <- varlink_result

Prefix == INSTANCE PrefixBuffer WITH
    SIZE <- 3, Bytes <- {1, 2}, MaxLayers <- 3, data <- prefix_data

Pipe == INSTANCE MessagePipe WITH
    Boxes <- {b1, b2, b3}, Senders <- {s1, s2}, Receivers <- {r1, r2}

Cell == INSTANCE TaskStateCell WITH
    Tasks <- {t1, t2, t3}, Main <- t1, WhenEmpty <- TRUE, StrayRefs <- FALSE,
    ForeignWakers <- FALSE, CallbackDrops <- FALSE, stack <- cell_stack, requests <- cell_requests

table_vars == <<table_data, free_list, table_requests, free, task_index, future,
    completed, fits, phase>>
json_vars == <<alphabet, json_input, offset, state, json_stack, depth, failure,
    tokens, json_finished>>
escape_vars == <<body, rest, decoded, written, escape_size, escape_result>>
varlink_vars == <<decoder, varlink_finished, driving, varlink_result, path, ended,
    reported, entry, due, misfit, answered, verdict>>
prefix_vars == <<prefix_data, layers, contents, reach>>
pipe_vars == <<id_pipe, box, pipe, sending, receiving, sender_open, receiver_open,
    excused, abandoned>>
cell_vars == <<borrowed, cell_stack, active, tasks, ready, completed_tasks, handles,
    waits, cell_requests, keep_running, callback, dirty, outputs>>

all_vars == <<table_vars, json_vars, escape_vars, varlink_vars, prefix_vars,
    pipe_vars, cell_vars>>
vars == <<kind, all_vars>>

Init ==
    /\ kind \in {"table", "json", "escape", "varlink", "prefix", "pipe", "cell"}
    /\ Table!Init /\ Varlink!Init /\ Prefix!Init /\ Cell!Init
    /\ Pipe!Init /\ (kind # "pipe" => id_pipe = FALSE)
    /\ Json!Init /\ (kind # "json" => alphabet.max = 9)
    /\ Escape!Init /\ (kind # "escape" => body = <<>> /\ escape_size = 0)

OnTable ==
    /\ kind = "table"
    /\ UNCHANGED <<kind, json_vars, escape_vars, varlink_vars, prefix_vars,
                   pipe_vars, cell_vars>>
OnJson ==
    /\ kind = "json"
    /\ UNCHANGED <<kind, table_vars, escape_vars, varlink_vars, prefix_vars,
                   pipe_vars, cell_vars>>
OnEscape ==
    /\ kind = "escape"
    /\ UNCHANGED <<kind, table_vars, json_vars, varlink_vars, prefix_vars, pipe_vars,
                   cell_vars>>
OnVarlink ==
    /\ kind = "varlink"
    /\ UNCHANGED <<kind, table_vars, json_vars, escape_vars, prefix_vars, pipe_vars,
                   cell_vars>>
OnPrefix ==
    /\ kind = "prefix"
    /\ UNCHANGED <<kind, table_vars, json_vars, escape_vars, varlink_vars, pipe_vars,
                   cell_vars>>
OnPipe ==
    /\ kind = "pipe"
    /\ UNCHANGED <<kind, table_vars, json_vars, escape_vars, varlink_vars,
                   prefix_vars, cell_vars>>
OnCell ==
    /\ kind = "cell"
    /\ UNCHANGED <<kind, table_vars, json_vars, escape_vars, varlink_vars,
                   prefix_vars, pipe_vars>>

Next ==
    \/ OnTable /\ Table!Next
    \/ OnJson /\ Json!Next
    \/ OnEscape /\ Escape!Next
    \/ OnVarlink /\ Varlink!Next
    \/ OnPrefix /\ Prefix!Next
    \/ OnPipe /\ Pipe!Next
    \/ OnCell /\ Cell!Next

Spec == Init /\ [][Next]_vars

\* Tasks other than the main task are interchangeable.
TaskSymmetry == Permutations({t2, t3})

-----------------------------------------------------------------------------
TypeOK ==
    CASE kind = "table" -> Table!TypeOK
      [] kind = "json" -> Json!TypeOK
      [] kind = "escape" -> Escape!TypeOK
      [] kind = "varlink" -> Varlink!TypeOK
      [] kind = "prefix" -> Prefix!TypeOK
      [] kind = "pipe" -> Pipe!TypeOK
      [] kind = "cell" -> Cell!TypeOK

\* Handle table: the free list is the list of the free slots, and, while indexes
\* fit, the table is that of the unfinished tasks, which the teardown reaches.
FreeListExact ==
    kind = "table" =>
       Table!FreeListExact /\ Table!TableIsTasks /\ Table!TeardownReachesAll

\* Tokenizer: it finishes on documents of the grammar only, with exactly their
\* tokens, and every text it rejects is none: "A call to drive that reaches the
\* end of the document without an error therefore read a well-formed document"
\* (tokenizer.rs:206), and the converse, since all documents of an alphabet are
\* scanned, also those that begin with a text the tokenizer rejects.
GrammarExact ==
    /\ json_finished => <<json_input, tokens>> \in Accepted[alphabet]
    /\ failure # Json!NoFailure =>
          json_input \notin (IF failure.kind = "DepthExceeded" THEN Shallow[alphabet]
                                                             ELSE Texts[alphabet])

\* String decoder: the characters are those UTF-16 says, bodies that are no UTF-16
\* are errors, and raw_len bytes always suffice.
DecodesUtf16 == kind = "escape" => Escape!DecodesUtf16 /\ Escape!RawLenSuffices

\* Reply decoder: one state and two counters follow the nesting of the reply, and
\* what is reported or rejected is what the schema says.
ReportsSchema == kind = "varlink" => Varlink!DecoderFollowsPath /\ Varlink!ReportsSchema

\* Prefix buffers: a buffer holds what was put into it, views included.
BufferHolds == kind = "prefix" => Prefix!BufferHolds

\* Message pipes: a box has one owner, apart from those an abandoned call leaks.
\* TaskState is not borrowed while code of the application runs, which may borrow it,
\* as long as tasks finish without stray references, wakers are the runtime's and the
\* idle callback owns nothing whose Drop uses the runtime (StrayRefs, ForeignWakers,
\* CallbackDrops); an output is handed out or dropped once, a future dropped before the
\* rings it uses.
OwnedOnce ==
    /\ kind = "pipe" => Pipe!OwnedOnce
    /\ kind = "cell" => Cell!SingleBorrow /\ Cell!OutputOnce /\ Cell!RingsOutliveFutures
=============================================================================
