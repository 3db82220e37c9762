------------------------------ MODULE MCStream ------------------------------
(***************************************************************************)
(* Stream on small instances.  "data: " is the two bytes "d" (word bytes)  *)
(* and "t" (the colon and space), "\n\n" is "n", "[DONE]" is "[" and "]".  *)
(* The forbidden patterns are the unanchored text ak and the text xk       *)
(* anchored with \b; s stands for a byte that is not a word byte.          *)
(***************************************************************************)
EXTENDS Stream

MCByte == {"a", "k", "x", "s", "d", "t", "n", "[", "]"}
MCFraming == << <<"d", "t">>, <<"n">>, <<"[", "]">> >>
MCWordBytes == {"a", "k", "x", "d"}
MCPatterns == {[text |-> <<"a", "k">>, bounded |-> FALSE],
               [text |-> <<"x", "k">>, bounded |-> TRUE]}

Frame(tok) == <<"d", "t">> \o tok \o <<"n">>

\* The response made of the given tokens, with its frame ends.
Response(toks) ==
    LET Text(n) == FlattenSeq([i \in 1..n |-> Frame(toks[i])])
    IN  [text |-> Text(Len(toks)),
         ends |-> {Len(Text(n)) : n \in 1..Len(toks)},
         code |-> 200]

Done == <<"[", "]">>

\* A provider that refuses: the body of a 500 is an ordinary text.
Refusal == [text |-> <<"x", "s">>, ends |-> {2}, code |-> 500]

\* Nothing; clean text; ak cut by framing, alone, before the terminator and
\* after clean text; a and k apart; xk at a word boundary, whole, cut, and
\* no longer once the next token arrives; xk inside a longer word, where only the tail of the buffer looks like a match.
MCUpstreams ==
    {Response(<< >>), Refusal}
        \cup {Response(toks) : toks \in {
                 << <<"x">>, <<"s", "x">>, Done >>,
                 << <<"a">>, <<"k">>, Done >>,
                 << <<"x">>, <<"a">>, <<"k">> >>,
                 << <<"a">>, <<"x">>, <<"k">> >>,
                 << <<"s", "x", "k">> >>,
                 << <<"s", "x">>, <<"k">> >>,
                 << <<"s", "x", "k">>, <<"x">> >>,
                 << <<"x">>, <<"x", "k">> >>}}
=============================================================================
