----------------------------- MODULE OutScanner -----------------------------
(***************************************************************************)
(* The output scanner of internal/streaming/window.go: stripSSE removes    *)
(* the SSE framing from a buffer of raw response bytes and containsUnsafe  *)
(* asks whether any forbidden pattern matches what is left.                *)
(*                                                                         *)
(* Bytes are abstract.  A framing token such as "data: " is a short        *)
(* sequence of bytes, so that a buffer can begin or end in the middle of   *)
(* one, and a regular expression is a literal text that may be anchored    *)
(* with \b on both sides.                                                  *)
(***************************************************************************)
EXTENDS Integers, Sequences, SequencesExt

CONSTANTS
    Byte,         \* the bytes of a response
    Framing,      \* the tokens stripSSE removes, in the order it removes them
    WordBytes,    \* the bytes \w matches
    Patterns      \* the compiled regular expressions: [text, bounded] records

\* No token overlaps itself ("data: ", "\n", "\r" and "[DONE]" do not), so the
\* occurrences bytes.ReplaceAll removes are all the occurrences there are.
ASSUME FramingAssumption ==
    \A f \in 1..Len(Framing) :
        /\ Framing[f] # << >>
        /\ \A k \in 1..(Len(Framing[f]) - 1) :
               SubSeq(Framing[f], 1, k)
                   # SubSeq(Framing[f], Len(Framing[f]) - k + 1, Len(Framing[f]))

OccursAt(tok, d, k) ==
    /\ k >= 1
    /\ k + Len(tok) - 1 <= Len(d)
    /\ SubSeq(d, k, k + Len(tok) - 1) = tok

\* bytes.ReplaceAll(d, tok, nil)
RemoveToken(d, tok) ==
    LET Kept(i) == \A k \in (i - Len(tok) + 1)..i : ~OccursAt(tok, d, k)
        kept    == SelectSeq([i \in 1..Len(d) |-> i], Kept)
    IN  [n \in 1..Len(kept) |-> d[kept[n]]]

stripSSE(data) == FoldLeft(RemoveToken, data, Framing)

\* \b holds between positions k and k + 1 of d.
Boundary(d, k) ==
    LET Word(n) == n \in 1..Len(d) /\ d[n] \in WordBytes
    IN  Word(k) # Word(k + 1)

\* re.Match(d) for one pattern.
Match(p, d) ==
    \E k \in 1..Len(d) :
        /\ OccursAt(p.text, d, k)
        /\ p.bounded => Boundary(d, k - 1) /\ Boundary(d, k + Len(p.text) - 1)

containsUnsafe(data) == \E p \in Patterns : Match(p, stripSSE(data))
=============================================================================
