----------------------------- MODULE PolicyText ------------------------------
(***************************************************************************)
(* From the bytes of a policy file to its syntax tree: Lex (dsl/lexer.go)  *)
(* and Parse (dsl/parser.go).  The file may hold only the beginning of     *)
(* what its author wrote: the watcher reads it while it is being saved.    *)
(*                                                                         *)
(* A text is a sequence of characters.  Lex runs to the end of the text    *)
(* before the parser starts, one action per branch of its switch.  The     *)
(* parser's functions call each other in a fixed nesting, so that the      *)
(* place in the grammar is all of its call stack; every function is the    *)
(* set of moves it makes from place to place, one token at a time.         *)
(***************************************************************************)
EXTENDS Integers, SequencesExt

CONSTANTS
    Texts,      \* what an author may write: [src, ends, spoilt, means], a text, the
                \* place of the brace that closes its policy, the places behind it
                \* where a cut leaves something that is no token, and that policy
    Malformed,  \* what a text means that Parse or Compile must turn down
    Letters, Digits, Keywords,  \* isIdentStart, isDigit, keywords
    Tenant,     \* the word "tenant"
    ValidNumber \* literals that strconv.ParseFloat accepts

\* peek's zero byte, behind the end of the text
NoChar == ""
Quote == "\""

ASSUME TextAssumption ==
    /\ Letters \cap Digits = {} /\ NoChar \notin Letters \cup Digits
    /\ \A t \in Texts : t.src \in Seq(STRING)
    /\ Range(Keywords) \subseteq {"POLICY", "RULE", "WHEN", "ACTION", "REASON", "AND", "OR", "NOT_IN"}

VARIABLES
    text,   \* what the author wrote
    src,    \* what load read
    pos,    \* l.pos, counted from 1
    toks,   \* the tokens so far
    at,     \* the place in the grammar; "lex" before parsing
    p,      \* p.pos, counted from 1
    node    \* the tree so far

lexVars == <<text, src, pos, toks>>
textVars == <<lexVars, at, p, node>>

NewPolicy == [tenant |-> << >>, rules |-> << >>]

TextInit ==
    /\ text \in Texts
    /\ \E n \in 0..Len(text.src) : src = SubSeq(text.src, 1, n)
    /\ pos = 1
    /\ toks = << >>
    /\ at = "lex"
    /\ p = 1
    /\ node = NewPolicy

-----------------------------------------------------------------------------
(* Lex                                                                     *)

\* The bytes that unicode.IsSpace accepts; 0x0B, 0x85 and 0xA0 go by their names.
Space == {" ", "\t", "\r", "\n", "\f", "VT", "NEL", "NBSP"}
IdentContinue == Letters \cup Digits \cup {".", "-"}
Symbols ==
    [c \in {">", "<", "{", "}", "[", "]", ",", ":"} |->
        CASE c = ">" -> "GT" [] c = "<" -> "LT" [] c = "{" -> "LBRACE" [] c = "}" -> "RBRACE"
          [] c = "[" -> "LBRACKET" [] c = "]" -> "RBRACKET" [] c = "," -> "COMMA" [] c = ":" -> "COLON"]

\* peek
Char(i) == IF i <= Len(src) THEN src[i] ELSE NoChar

\* The first position from i on whose character is not in S.
Past(i, S) == Min({j \in i..(Len(src) + 1) : Char(j) \notin S})

\* The first position from i on whose character is in S, or the end of the text.
UpTo(i, S) == Min({j \in i..(Len(src) + 1) : Char(j) \in S \cup {NoChar}})

Skip(next) ==
    /\ at = "lex"
    /\ pos' = next
    /\ UNCHANGED <<text, src, toks, at, p, node>>

SkipSpace == Char(pos) \in Space /\ Skip(Past(pos, Space))

CommentEnd == UpTo(pos, {"\n"})

SkipComment == Char(pos) = "#" /\ Skip(CommentEnd)

Token(type, lit, next) ==
    /\ at = "lex"
    /\ toks' = Append(toks, [type |-> type, lit |-> lit])
    /\ pos' = next
    /\ UNCHANGED <<text, src, at, p, node>>

LexSymbol ==
    /\ Char(pos) \in DOMAIN Symbols
    /\ Token(Symbols[Char(pos)], <<Char(pos)>>, pos + 1)

\* Mutant: the second character is not looked at.
LexEqualsUnpeeked ==
    /\ Char(pos) = "="
    /\ Token("EQ", <<"=", "=">>, pos + 2)

LexEquals ==
    /\ Char(pos) = "=" /\ Char(pos + 1) = "="
    /\ Token("EQ", <<"=", "=">>, pos + 2)

\* Where readString stops: at the closing quote, and not at a line's end or the
\* text's.
StringEnds(j) == Char(j) = Quote

QuoteAt == UpTo(pos + 1, {Quote, "\n"})

LexString ==
    /\ Char(pos) = Quote
    /\ StringEnds(QuoteAt)
    /\ Token("STRING", SubSeq(src, pos + 1, QuoteAt - 1), QuoteAt + 1)

NumberHere ==
    Char(pos) \in Digits \/ (Char(pos) = "-" /\ Char(pos + 1) \in Digits)

\* readNumber
LexNumber ==
    LET next == Past(pos + 1, Digits \cup {"."})
    IN  /\ NumberHere
        /\ Token("NUMBER", SubSeq(src, pos, next - 1), next)

\* readIdent and the lookup in keywords
LexIdent ==
    LET next == Past(pos, IdentContinue)
        word == SubSeq(src, pos, next - 1)
    IN  /\ Char(pos) \in Letters
        /\ Token(IF word \in DOMAIN Keywords THEN Keywords[word] ELSE "IDENT", word, next)

\* The end of the text: Lex returns the tokens and the parser starts.
LexEOF ==
    /\ at = "lex"
    /\ pos = Len(src) + 1
    /\ toks' = Append(toks, [type |-> "EOF", lit |-> << >>])
    /\ at' = "policy"
    /\ UNCHANGED <<text, src, pos, p, node>>

\* An unterminated string, or a character that starts no token.
LexError ==
    /\ at = "lex"
    /\ pos <= Len(src)
    /\ \/ Char(pos) = Quote /\ ~StringEnds(QuoteAt)
       \/ Char(pos) = "=" /\ Char(pos + 1) # "="
       \/ /\ Char(pos) \notin DOMAIN Symbols \cup Letters \cup Space \cup {Quote, "=", "#"}
          /\ ~NumberHere
    /\ at' = "error"
    /\ UNCHANGED <<lexVars, p, node>>

Lex ==
    \/ SkipSpace
    \/ SkipComment
    \/ LexSymbol
    \/ LexEquals
    \/ LexString
    \/ LexNumber
    \/ LexIdent
    \/ LexEOF
    \/ LexError

-----------------------------------------------------------------------------
(* Parse: the moves of each function, as <<place, token type, next place>>. *)

\* Mutant: the end of the text closes the policy.
RulesEndAnyhow == {<<"rules", "RBRACE", "parsed">>, <<"rules", "EOF", "parsed">>}

\* After the last rule.  The parser does not look at what follows the closing brace,
\* but Lex has read it to its end.
RulesEnd == {<<"rules", "RBRACE", "parsed">>}

parsePolicy ==
    {<<"policy", "POLICY", "tenant">>, <<"tenant", "IDENT", "colon">>, <<"colon", "COLON", "id">>,
     <<"id", "IDENT", "open">>, <<"open", "LBRACE", "rules">>, <<"rules", "RULE", "name">>}
    \cup RulesEnd

parseRule ==
    {<<"name", "IDENT", "body">>, <<"body", "LBRACE", "when">>, <<"when", "WHEN", "field">>,
     <<"action", "IDENT", "because">>, <<"because", "REASON", "reason">>,
     <<"reason", "STRING", "end">>, <<"end", "RBRACE", "rules">>}

\* After an atom: AND or OR and another atom, or parseRule goes on.
parseCondition ==
    {<<"more", "AND", "field">>, <<"more", "OR", "field">>, <<"more", "ACTION", "action">>}

\* A comma between the members of a list may be missing, or be the last.
parseAtom ==
    {<<"field", "IDENT", "op">>, <<"op", "NOT_IN", "list">>, <<"list", "LBRACKET", "member">>,
     <<"member", "STRING", "comma">>, <<"member", "RBRACKET", "more">>,
     <<"comma", "COMMA", "member">>, <<"comma", "STRING", "comma">>,
     <<"comma", "RBRACKET", "more">>} \cup {<<"op", o, "value">> : o \in {"GT", "LT", "EQ"}}

parseValue == {<<"value", "STRING", "more">>, <<"value", "NUMBER", "more">>}

Moves == parsePolicy \cup parseRule \cup parseCondition \cup parseAtom \cup parseValue
Places == {m[1] : m \in Moves}

cur == toks[p]

\* The literals a place is particular about.
LiteralOK ==
    /\ at = "tenant" => cur.lit = Tenant
    /\ cur.type = "NUMBER" => cur.lit \in ValidNumber

Rule == Len(node.rules)
Atom == Len(node.rules[Rule].cond)
NewRule == [name |-> << >>, cond |-> << >>, action |-> << >>, reason |-> << >>]
NewAtom(join) == [join |-> join, field |-> << >>, op |-> "none", vals |-> << >>]

\* The tree once the current token is taken.
Grown ==
    CASE at = "id"     -> [node EXCEPT !.tenant = cur.lit]
      [] at = "rules" /\ cur.type = "RULE" -> [node EXCEPT !.rules = Append(@, NewRule)]
      [] at = "name"   -> [node EXCEPT !.rules[Rule].name = cur.lit]
      [] at = "when"   -> [node EXCEPT !.rules[Rule].cond = <<NewAtom("AND")>>]
      [] at = "field"  -> [node EXCEPT !.rules[Rule].cond[Atom].field = cur.lit]
      [] at = "op"     -> [node EXCEPT !.rules[Rule].cond[Atom].op = cur.type]
      [] cur.type \in {"STRING", "NUMBER"} /\ at \in {"value", "member", "comma"} ->
             [node EXCEPT !.rules[Rule].cond[Atom].vals = Append(@, cur.lit)]
      [] cur.type \in {"AND", "OR"} ->
             [node EXCEPT !.rules[Rule].cond = Append(@, NewAtom(cur.type))]
      [] at = "action" -> [node EXCEPT !.rules[Rule].action = cur.lit]
      [] at = "reason" -> [node EXCEPT !.rules[Rule].reason = cur.lit]
      [] OTHER -> node

\* expect and consume
Take(m) ==
    /\ at = m[1] /\ cur.type = m[2]
    /\ LiteralOK
    /\ at' = m[3]
    /\ p' = p + 1
    /\ node' = Grown
    /\ UNCHANGED lexVars

\* No branch of the function takes the token: Parse returns an error.
ParseError ==
    /\ at \in Places
    /\ LiteralOK => <<at, cur.type>> \notin {<<m[1], m[2]>> : m \in Moves}
    /\ at' = "error"
    /\ UNCHANGED <<lexVars, p, node>>

ParseText == Lex \/ ParseError \/ \E m \in Moves : Take(m)

-----------------------------------------------------------------------------

TextTypeOK ==
    /\ text \in Texts
    /\ src = SubSeq(text.src, 1, Len(src))
    /\ pos \in 1..(Len(src) + 1)
    /\ at \in Places \cup {"lex", "parsed", "loaded", "error", "serving"}
    /\ at \in Places => p \in 1..Len(toks)

\* load read the text up to the brace that closes the policy.
Whole == Len(src) >= text.ends
=============================================================================
