---------------------------- MODULE JsonGrammar ----------------------------
(***************************************************************************)
(* The grammar of JSON documents (RFC 8259), as the set of all documents   *)
(* up to a length, each with the tokens it consists of: the reference for  *)
(* JsonTokenizer.  The set is built by length, from shorter parts, with no *)
(* scanning.  A part is a record of its text t, its tokens k and the depth *)
(* d to which its containers nest.                                         *)
(***************************************************************************)
EXTENDS Integers, Sequences, SequencesExt, FiniteSetsExt

Part(t, k, d) == [t |-> t, k |-> k, d |-> d]
Mark(b) == Part(<<b>>, <<>>, 0)
Join(X, Y) ==
    {Part(x.t \o y.t, x.k \o y.k, Max({x.d, y.d})) : x \in X, y \in Y}
Container(open, x, close, start, end) ==
    Part(<<open>> \o x.t \o <<close>>, <<<<start>>>> \o x.k \o <<<<end>>>>, x.d + 1)
Quoted(b, plain, escape) ==
    Part(<<"\"">> \o b \o <<"\"">>,
         <<<<IF \E i \in DOMAIN b : b[i] = "\\" THEN escape ELSE plain, b>>>>, 0)

\* The parts of length n, from those of smaller length in acc.
Level(A, body, acc, n) ==
    LET Empty == [bodies |-> {}, digits |-> {}, integers |-> {}, fractions |-> {},
                  numbers |-> {}, blanks |-> {}, keys |-> {}, values |-> {},
                  elements |-> {}, members |-> {}]
        at(k) == IF k + 1 \in DOMAIN acc THEN acc[k + 1] ELSE Empty
        plain == body \ {"\"", "\\", "ctl"}
        follow(X, Y) == {x \o y : x \in X, y \in Y}
        splits(X(_), Y(_), m) == UNION {follow(X(i), Y(m - i)) : i \in 0..m}
        hex == {<<"\\", "u">> \o h : h \in [1..4 -> body \cap {"0", "1", "e"}]}
        digit == {<<b>> : b \in A \cap {"0", "1"}}
        bodies == IF n = 0 THEN {<<>>} ELSE
            follow({<<b>> : b \in plain}, at(n - 1).bodies)
            \cup follow({<<"\\", b>> : b \in body \cap {"\"", "\\", "n", "t", "f"}},
                        at(n - 2).bodies)
            \cup (IF "u" \in body THEN follow(hex, at(n - 6).bodies) ELSE {})
        digits == IF n = 0 THEN {} ELSE
            (IF n = 1 THEN digit ELSE follow(digit, at(n - 1).digits))
        positive == (IF n = 1 THEN digit ELSE {}) \cup {d \in digits : d[1] # "0"}
        integers == positive \cup follow({<<"-">>} , {d \in at(n - 1).integers : d[1] # "-"})
        fractions == integers \cup splits(LAMBDA i : at(i).integers,
            LAMBDA i : follow({<<".">>}, at(i - 1).digits), n)
        numbers == fractions \cup splits(LAMBDA i : at(i).fractions,
            LAMBDA i : follow({<<"e">>}, at(i - 1).digits)
               \cup follow({<<"e", "+">>, <<"e", "-">>}, at(i - 2).digits), n)
        blanks == IF n = 0 THEN {Part(<<>>, <<>>, 0)} ELSE Join({Mark(" ")}, at(n - 1).blanks)
        pad(X, Y) == X \cup Join({Mark(" ")}, Y) \cup Join(Y, {Mark(" ")})
        keys == pad({Quoted(b, "key", "escape_key") : b \in at(n - 2).bodies}, at(n - 1).keys)
        words == {w \in {<<"n", "u", "l", "l">>, <<"t", "r", "u", "e">>} :
                     Len(w) = n /\ \A i \in DOMAIN w : w[i] \in A}
        word(w) == Part(w, <<<<IF w[1] = "n" THEN "null" ELSE "true">>>>, 0)
        values == pad(
            {Quoted(b, "string", "escape_string") : b \in at(n - 2).bodies}
            \cup {Part(s, <<<<"number", s>>>>, 0) : s \in numbers}
            \cup {word(w) : w \in words}
            \cup {Container("[", x, "]", "array_start", "array_end") :
                    x \in at(n - 2).elements \cup at(n - 2).blanks}
            \cup {Container("{", x, "}", "object_start", "object_end") :
                    x \in at(n - 2).members \cup at(n - 2).blanks},
            at(n - 1).values)
        elements == values \cup UNION {
            Join(at(i).values, Join({Mark(",")}, at(n - i - 1).elements)) : i \in 0..n}
        member(m) == UNION {
            Join(at(i).keys, Join({Mark(":")}, at(m - i - 1).values)) : i \in 0..m}
        members == member(n) \cup UNION {
            Join(member(i), Join({Mark(",")}, at(n - i - 1).members)) : i \in 0..n}
        own(x) == \A i \in DOMAIN x.t : x.t[i] \in A
    IN  [bodies |-> bodies, digits |-> digits, integers |-> integers,
         fractions |-> fractions, numbers |-> numbers,
         blanks |-> {x \in blanks : own(x)}, keys |-> {x \in keys : own(x)},
         values |-> {x \in values : own(x)}, elements |-> {x \in elements : own(x)},
         members |-> {x \in members : own(x)}]

\* All documents of at most max bytes of A whose strings have bytes of body.
Documents(A, body, max) ==
    LET levels == FoldLeft(LAMBDA acc, n : Append(acc, Level(A, body, acc, n)), <<>>,
                           [i \in 1..(max + 1) |-> i - 1])
    IN  UNION {levels[i].values : i \in DOMAIN levels}
=============================================================================
