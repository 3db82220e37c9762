-------------------------- MODULE GuardrailsProofs ---------------------------
(***************************************************************************)
(* What stands between a prompt and the provider, for every set of policy  *)
(* texts, prompts and tenants.  The scanner's lemmas (InputScanProofs) are *)
(* carried through the load of the policy and through the handler, and the *)
(* handler's answer is shown to follow from the verdict and from the       *)
(* loaded policy.                                                          *)
(***************************************************************************)
EXTENDS Guardrails, InputScanProofs, WellFoundedInduction

\* The actions as a flat choice.
LEMMA NextCases ==
    ASSUME [Next]_vars
    PROVE  \/ ParseStep \/ CompileStep \/ Serve \/ ScanStep
           \/ GuardrailBlocks \/ NoPolicy \/ (\E n \in Totals : ReadTotal(n)) \/ Judge
           \/ (\E t \in Tenants, q \in Prompts : Request(t, q)) \/ UNCHANGED vars
  BY DEF Next, Load, Handle

-----------------------------------------------------------------------------
(* The scanner inside the gateway.                                         *)

\* Only a request and the scanner's own steps touch the state of the scan.
LEMMA OthersKeepScan ==
    ASSUME [Next]_vars
    PROVE  \/ Scan
           \/ \E q \in Prompts : CallScan(q)
           \/ UNCHANGED scanVars
  BY NextCases DEF ParseStep, CompileStep, Serve, ScanStep, GuardrailBlocks, NoPolicy, ReadTotal,
        Judge, Request, Answer, vars

-----------------------------------------------------------------------------
(* The parser's places.                                                    *)

Outside == {"lex", "parsed", "loaded", "error", "serving"}

\* A move leads from one place of the grammar to another or to the end of the policy,
\* and none takes the end of the text.
LEMMA MovesInside ==
    ASSUME NEW m \in Moves
    PROVE  /\ m[1] \in Places /\ m[1] \notin Outside
           /\ m[2] # "EOF"
           /\ m[3] \in Places \cup {"parsed"}
<1>1. m[1] \in Places
  BY DEF Places
<1>2. m \in parsePolicy \/ m \in parseRule \/ m \in parseCondition \/ m \in parseAtom \/ m \in parseValue
  BY DEF Moves
<1>3. /\ "tenant" \in Places /\ "colon" \in Places /\ "id" \in Places /\ "open" \in Places
      /\ "rules" \in Places /\ "name" \in Places
  <2>1. /\ <<"tenant", "IDENT", "colon">> \in Moves /\ <<"colon", "COLON", "id">> \in Moves
        /\ <<"id", "IDENT", "open">> \in Moves /\ <<"open", "LBRACE", "rules">> \in Moves
        /\ <<"rules", "RULE", "name">> \in Moves /\ <<"name", "IDENT", "body">> \in Moves
    BY DEF Moves, parsePolicy, parseRule
  <2> QED
    BY <2>1 DEF Places
<1>4. /\ "body" \in Places /\ "when" \in Places /\ "because" \in Places
      /\ "reason" \in Places /\ "end" \in Places /\ "action" \in Places
  <2>1. /\ <<"body", "LBRACE", "when">> \in Moves /\ <<"when", "WHEN", "field">> \in Moves
        /\ <<"because", "REASON", "reason">> \in Moves /\ <<"reason", "STRING", "end">> \in Moves
        /\ <<"end", "RBRACE", "rules">> \in Moves /\ <<"action", "IDENT", "because">> \in Moves
    BY DEF Moves, parseRule
  <2> QED
    BY <2>1 DEF Places
<1>5. /\ "field" \in Places /\ "op" \in Places /\ "list" \in Places /\ "member" \in Places
      /\ "comma" \in Places /\ "more" \in Places /\ "value" \in Places
  <2>1. /\ <<"field", "IDENT", "op">> \in Moves /\ <<"op", "NOT_IN", "list">> \in Moves
        /\ <<"list", "LBRACKET", "member">> \in Moves /\ <<"member", "STRING", "comma">> \in Moves
        /\ <<"comma", "COMMA", "member">> \in Moves /\ <<"more", "AND", "field">> \in Moves
        /\ <<"value", "STRING", "more">> \in Moves
    BY DEF Moves, parseAtom, parseCondition, parseValue
  <2> QED
    BY <2>1 DEF Places
<1>6. CASE m \in parsePolicy
  BY <1>1, <1>3, <1>6 DEF parsePolicy, RulesEnd, Outside
<1>7. CASE m \in parseRule
  BY <1>1, <1>3, <1>4, <1>5, <1>7 DEF parseRule, Outside
<1>8. CASE m \in parseCondition
  BY <1>1, <1>4, <1>5, <1>8 DEF parseCondition, Outside
<1>9. CASE m \in parseAtom
  <2>1. CASE \E o \in {"GT", "LT", "EQ"} : m = <<"op", o, "value">>
    BY <1>1, <1>5, <2>1 DEF Outside
  <2>2. CASE m \in {<<"field", "IDENT", "op">>, <<"op", "NOT_IN", "list">>, <<"list", "LBRACKET", "member">>,
                    <<"member", "STRING", "comma">>, <<"member", "RBRACKET", "more">>,
                    <<"comma", "COMMA", "member">>, <<"comma", "STRING", "comma">>,
                    <<"comma", "RBRACKET", "more">>}
    BY <1>1, <1>5, <2>2 DEF Outside
  <2> QED
    BY <1>9, <2>1, <2>2 DEF parseAtom
<1>10. CASE m \in parseValue
  BY <1>1, <1>5, <1>10 DEF parseValue, Outside
<1> QED
  BY <1>2, <1>6, <1>7, <1>8, <1>9, <1>10

\* No place of the grammar is a state of the load before or after it.
LEMMA PlacesInside == Places \cap Outside = {}
  BY MovesInside DEF Places

-----------------------------------------------------------------------------
(* The lexer's positions.                                                  *)

\* A set of naturals has a smallest element.
LEMMA LeastIn ==
    ASSUME NEW T, T \subseteq Nat, T # {}
    PROVE  \E x \in T : \A y \in T : x =< y
<1> DEFINE R == OpToRel(<, Nat)
<1>1. PICK x \in T : \A y \in T : ~(<<y, x>> \in R)
  BY NatLessThanWellFounded, WFMin
<1>2. \A y \in T : <<y, x>> \in R <=> y < x
  BY DEF OpToRel
<1> HIDE DEF R
<1>3. \A y \in T : x =< y
  <2> SUFFICES ASSUME NEW y \in T PROVE x =< y
    OBVIOUS
  <2>1. ~(y < x)
    BY <1>1, <1>2
  <2>2. x \in Nat /\ y \in Nat
    OBVIOUS
  <2> QED
    BY <2>1, <2>2
<1> QED
  BY <1>3

LEMMA MinIn ==
    ASSUME NEW T, T \subseteq Nat, T # {}
    PROVE  Min(T) \in T /\ \A y \in T : Min(T) =< y
  BY LeastIn DEF Min

\* The position behind a run of characters.
LEMMA PastIn ==
    ASSUME src \in Seq(STRING), NEW i \in 1..(Len(src) + 1), NEW S, NoChar \notin S
    PROVE  Past(i, S) \in i..(Len(src) + 1)
<1> DEFINE T == {j \in i..(Len(src) + 1) : Char(j) \notin S}
<1>1. Len(src) \in Nat
  OBVIOUS
<1>2. Char(Len(src) + 1) = NoChar
  BY <1>1 DEF Char
<1>3. Len(src) + 1 \in T
  BY <1>1, <1>2
<1>4. T \subseteq Nat
  BY <1>1
<1> HIDE DEF T
<1>5. Min(T) \in T
  BY <1>3, <1>4, MinIn
<1> QED
  BY <1>5 DEF T, Past

\* The position of the next character of a kind, or the end of the text.
LEMMA UpToIn ==
    ASSUME src \in Seq(STRING), NEW i \in 1..(Len(src) + 1), NEW S
    PROVE  UpTo(i, S) \in i..(Len(src) + 1)
<1> DEFINE T == {j \in i..(Len(src) + 1) : Char(j) \in S \cup {NoChar}}
<1>1. Len(src) \in Nat
  OBVIOUS
<1>2. Char(Len(src) + 1) = NoChar
  BY <1>1 DEF Char
<1>3. Len(src) + 1 \in T
  BY <1>1, <1>2
<1>4. T \subseteq Nat
  BY <1>1
<1> HIDE DEF T
<1>5. Min(T) \in T
  BY <1>3, <1>4, MinIn
<1> QED
  BY <1>5 DEF T, UpTo

\* A character that is there has a position within the text.
LEMMA CharInside ==
    ASSUME src \in Seq(STRING), NEW i \in Nat, Char(i) # NoChar
    PROVE  i <= Len(src)
  BY DEF Char

-----------------------------------------------------------------------------
(* Loading the policy.                                                     *)

TokenTypes ==
    {"GT", "LT", "LBRACE", "RBRACE", "LBRACKET", "RBRACKET", "COMMA", "COLON", "EQ", "STRING",
     "NUMBER", "IDENT", "EOF", "POLICY", "RULE", "WHEN", "ACTION", "REASON", "AND", "OR", "NOT_IN"}

\* The provers do not know that "=" is a string.
Chars == STRING \cup {"="}
Tokens == [type : TokenTypes, lit : Seq(Chars)]

\* The lexer has read the text up to pos; the parser stands at a token, and the last
\* token, which no move takes, is the end of the text.
TextInv ==
    /\ text \in Texts
    /\ src \in Seq(STRING)
    /\ src = SubSeq(text.src, 1, Len(src))
    /\ pos \in 1..(Len(src) + 1)
    /\ toks \in Seq(Tokens)
    /\ at \in Places \cup Outside
    /\ at = "lex" => p = 1
    /\ at \in Places => p \in 1..Len(toks) /\ toks[Len(toks)].type = "EOF"

LEMMA TextTyped == TextInv => TextTypeOK
  BY DEF TextInv, TextTypeOK, Outside

\* What load read is the beginning of what the author wrote.
LEMMA TextStarts == TextInit => TextInv
<1> SUFFICES ASSUME TextInit PROVE TextInv
  OBVIOUS
<1>1. text \in Texts /\ pos = 1 /\ toks = << >> /\ at = "lex" /\ p = 1
  BY DEF TextInit
<1>2. text.src \in Seq(STRING)
  BY <1>1, TextAssumption
<1>3. PICK n \in 0..Len(text.src) : src = SubSeq(text.src, 1, n)
  BY DEF TextInit
<1>4. src \in Seq(STRING) /\ Len(src) = n
  BY <1>2, <1>3
<1>5. "lex" \notin Places /\ "lex" \in Outside
  BY PlacesInside DEF Outside
<1> QED
  BY <1>1, <1>3, <1>4, <1>5 DEF TextInv

\* A symbol's token.
LEMMA SymbolTypes ==
    /\ NoChar \notin DOMAIN Symbols
    /\ \A c \in DOMAIN Symbols : Symbols[c] \in TokenTypes
<1> DEFINE C == {">", "<", "{", "}", "[", "]", ",", ":"}
<1>1. DOMAIN Symbols = C
  BY DEF Symbols
<1>2. NoChar \notin C
  BY Zenon DEF NoChar
<1>3. \A c \in C : Symbols[c] \in TokenTypes
  BY DEF Symbols, TokenTypes
<1> QED
  BY <1>1, <1>2, <1>3

\* The lexer's characters are not the end of the text.
LEMMA Characters ==
    /\ NoChar \notin Space /\ NoChar \notin Letters /\ NoChar \notin Digits
    /\ NoChar \notin Digits \cup {"."} /\ NoChar \notin IdentContinue
    /\ NoChar # "=" /\ NoChar # "#" /\ NoChar # "-" /\ NoChar # Quote
<1>1. NoChar \notin Letters /\ NoChar \notin Digits
  BY TextAssumption
<1>2. NoChar \notin Space
  BY Zenon DEF NoChar, Space
<1>3. NoChar # "=" /\ NoChar # "#" /\ NoChar # "-" /\ NoChar # "."
  BY Zenon DEF NoChar
<1>4. NoChar # Quote
  BY Zenon DEF NoChar, Quote
<1> QED
  BY <1>1, <1>2, <1>3, <1>4 DEF IdentContinue

\* A word's token.
LEMMA WordTypes ==
    \A w : (IF w \in DOMAIN Keywords THEN Keywords[w] ELSE "IDENT") \in TokenTypes
<1>1. \A w \in DOMAIN Keywords : Keywords[w] \in Range(Keywords)
  BY DEF Range
<1>2. \A w \in DOMAIN Keywords :
          Keywords[w] \in {"POLICY", "RULE", "WHEN", "ACTION", "REASON", "AND", "OR", "NOT_IN"}
  BY <1>1, TextAssumption
<1> QED
  BY <1>2 DEF TokenTypes

\* What Lex does to the text and the tokens: it goes on within the text and adds one
\* token, or it ends.
LEMMA LexEffect ==
    ASSUME TextInv, Lex
    PROVE  /\ at = "lex" /\ text' = text /\ src' = src /\ p' = p /\ node' = node
           /\ pos' \in 1..(Len(src) + 1)
           /\ \/ at' = at /\ toks' = toks
              \/ at' = at /\ \E t \in Tokens : toks' = Append(toks, t)
              \/ at' = "policy" /\ toks' = Append(toks, [type |-> "EOF", lit |-> << >>])
              \/ at' = "error" /\ toks' = toks
<1>1. src \in Seq(STRING) /\ Len(src) \in Nat /\ pos \in 1..(Len(src) + 1) /\ pos \in Nat
  BY DEF TextInv
<1>2. ASSUME NEW next, Skip(next), next \in 1..(Len(src) + 1)
      PROVE  /\ at = "lex" /\ text' = text /\ src' = src /\ p' = p /\ node' = node
             /\ pos' \in 1..(Len(src) + 1) /\ at' = at /\ toks' = toks
  BY <1>2 DEF Skip
<1>3. ASSUME NEW type \in TokenTypes, NEW lit \in Seq(Chars), NEW next, Token(type, lit, next),
             next \in 1..(Len(src) + 1)
      PROVE  /\ at = "lex" /\ text' = text /\ src' = src /\ p' = p /\ node' = node
             /\ pos' \in 1..(Len(src) + 1) /\ at' = at /\ \E t \in Tokens : toks' = Append(toks, t)
  <2>1. [type |-> type, lit |-> lit] \in Tokens
    BY DEF Tokens
  <2> QED
    BY <1>3, <2>1 DEF Token
<1>4. \A i, j \in Int : i >= 1 /\ j <= Len(src) => SubSeq(src, i, j) \in Seq(Chars)
  <2>1. \A i, j \in Int : i >= 1 /\ j <= Len(src) => SubSeq(src, i, j) \in Seq(STRING)
    BY <1>1
  <2>2. \A s \in Seq(STRING) : s \in Seq(Chars)
    BY DEF Chars
  <2> QED
    BY <2>1, <2>2
<1>5. Char(pos) # NoChar => pos \in 1..Len(src)
  BY <1>1, CharInside
<1>6. Char(pos + 1) # NoChar => pos + 1 \in 1..Len(src)
  BY <1>1, CharInside
<1>7. CASE SkipSpace
  <2>1. Past(pos, Space) \in 1..(Len(src) + 1)
    BY <1>1, PastIn, Characters
  <2> QED
    BY <1>2, <1>7, <2>1 DEF SkipSpace
<1>8. CASE SkipComment
  <2>1. CommentEnd \in 1..(Len(src) + 1)
    BY <1>1, UpToIn DEF CommentEnd
  <2> QED
    BY <1>2, <1>8, <2>1 DEF SkipComment
<1>9. CASE LexSymbol
  <2>1. pos \in 1..Len(src) /\ Symbols[Char(pos)] \in TokenTypes
    BY <1>5, <1>9, SymbolTypes DEF LexSymbol
  <2>2. Char(pos) \in Chars
    BY <1>1, <2>1 DEF Char, Chars
  <2>3. <<Char(pos)>> \in Seq(Chars) /\ pos + 1 \in 1..(Len(src) + 1)
    BY <1>1, <2>1, <2>2
  <2> QED
    BY <1>3, <1>9, <2>1, <2>3 DEF LexSymbol
<1>10. CASE LexEquals
  <2>1. Char(pos + 1) = "="
    BY <1>10 DEF LexEquals
  <2>2. pos + 2 \in 1..(Len(src) + 1)
    BY <1>1, <1>6, <2>1, Characters
  <2>3. "EQ" \in TokenTypes /\ "=" \in Chars
    BY DEF TokenTypes, Chars
  <2>4. \A c, d \in Chars : <<c, d>> \in Seq(Chars)
    OBVIOUS
  <2>5. <<"=", "=">> \in Seq(Chars)
    BY <2>3, <2>4
  <2> QED
    BY <1>3, <1>10, <2>2, <2>3, <2>5 DEF LexEquals
<1>11. CASE LexString
  <2>1. Char(pos) = Quote /\ Char(QuoteAt) = Quote
        /\ Token("STRING", SubSeq(src, pos + 1, QuoteAt - 1), QuoteAt + 1)
    BY <1>11 DEF LexString, StringEnds
  <2>2. pos + 1 \in 1..(Len(src) + 1)
    BY <1>1, <1>5, <2>1, Characters
  <2>3. QuoteAt \in (pos + 1)..(Len(src) + 1)
    BY <1>1, <2>2, UpToIn DEF QuoteAt
  <2>4. QuoteAt <= Len(src)
    <3>1. QuoteAt \in Nat /\ Char(QuoteAt) # NoChar
      BY <1>1, <2>1, <2>3, Characters
    <3> HIDE DEF QuoteAt
    <3> QED
      BY <1>1, <3>1, CharInside
  <2>5. QuoteAt + 1 \in 1..(Len(src) + 1)
    BY <1>1, <2>3, <2>4
  <2>6. SubSeq(src, pos + 1, QuoteAt - 1) \in Seq(Chars)
    BY <1>1, <1>4, <2>3, <2>4
  <2>7. "STRING" \in TokenTypes
    BY DEF TokenTypes
  <2> QED
    BY <1>3, <2>1, <2>5, <2>6, <2>7
<1>12. CASE LexNumber
  <2> DEFINE next == Past(pos + 1, Digits \cup {"."})
  <2>1. NumberHere /\ Token("NUMBER", SubSeq(src, pos, next - 1), next)
    BY <1>12 DEF LexNumber
  <2>2. Char(pos) # NoChar
    BY <2>1, Characters DEF NumberHere
  <2>3. pos + 1 \in 1..(Len(src) + 1)
    BY <1>1, <1>5, <2>2
  <2>4. next \in (pos + 1)..(Len(src) + 1)
    BY <1>1, <2>3, PastIn, Characters
  <2> HIDE DEF next
  <2>5. SubSeq(src, pos, next - 1) \in Seq(Chars) /\ next \in 1..(Len(src) + 1)
    BY <1>1, <1>4, <2>4
  <2>6. "NUMBER" \in TokenTypes
    BY DEF TokenTypes
  <2> QED
    BY <1>3, <2>1, <2>5, <2>6
<1>13. CASE LexIdent
  <2> DEFINE next == Past(pos, IdentContinue)
             word == SubSeq(src, pos, next - 1)
             type == IF word \in DOMAIN Keywords THEN Keywords[word] ELSE "IDENT"
  <2>1. Token(type, word, next)
    BY <1>13 DEF LexIdent
  <2>2. type \in TokenTypes
    BY WordTypes
  <2>3. next \in pos..(Len(src) + 1)
    BY <1>1, PastIn, Characters
  <2> HIDE DEF next, type
  <2>4. word \in Seq(Chars) /\ next \in 1..(Len(src) + 1)
    BY <1>1, <1>4, <2>3
  <2> QED
    BY <1>3, <2>1, <2>2, <2>4
<1>14. CASE LexEOF
  BY <1>1, <1>14 DEF LexEOF
<1>15. CASE LexError
  BY <1>1, <1>15 DEF LexError, lexVars
<1> QED
  BY <1>7, <1>8, <1>9, <1>10, <1>11, <1>12, <1>13, <1>14, <1>15 DEF Lex

\* Every step of the parser keeps the invariant.
LEMMA ParseKeeps == TextInv /\ ParseText => TextInv'
<1> SUFFICES ASSUME TextInv, ParseText PROVE TextInv'
  OBVIOUS
<1>1. /\ text \in Texts /\ src \in Seq(STRING) /\ src = SubSeq(text.src, 1, Len(src))
      /\ pos \in 1..(Len(src) + 1) /\ toks \in Seq(Tokens) /\ at \in Places \cup Outside
      /\ at = "lex" => p = 1
      /\ at \in Places => p \in 1..Len(toks) /\ toks[Len(toks)].type = "EOF"
  BY DEF TextInv
<1>2. "lex" \notin Places /\ "error" \notin Places /\ "parsed" \notin Places
  BY PlacesInside DEF Outside
<1>3. "lex" \in Outside /\ "error" \in Outside /\ "parsed" \in Outside /\ "policy" \in Places
  <2>1. <<"policy", "POLICY", "tenant">> \in Moves
    BY DEF Moves, parsePolicy
  <2> QED
    BY <2>1 DEF Outside, Places
<1>4. CASE Lex
  <2>1. /\ at = "lex" /\ text' = text /\ src' = src /\ p' = p /\ pos' \in 1..(Len(src) + 1)
        /\ \/ at' = at /\ toks' = toks
           \/ at' = at /\ \E t \in Tokens : toks' = Append(toks, t)
           \/ at' = "policy" /\ toks' = Append(toks, [type |-> "EOF", lit |-> << >>])
           \/ at' = "error" /\ toks' = toks
    BY <1>4, LexEffect
  <2>2. text' \in Texts /\ src' \in Seq(STRING) /\ src' = SubSeq(text'.src, 1, Len(src'))
        /\ pos' \in 1..(Len(src') + 1) /\ p' = 1
    BY <1>1, <2>1
  <2>3. CASE at' = at /\ toks' = toks
    BY <1>1, <1>2, <2>1, <2>2, <2>3 DEF TextInv
  <2>4. CASE at' = at /\ \E t \in Tokens : toks' = Append(toks, t)
    <3>1. toks' \in Seq(Tokens)
      BY <1>1, <2>4
    <3> QED
      BY <1>1, <1>2, <2>1, <2>2, <2>4, <3>1 DEF TextInv
  <2>5. CASE at' = "policy" /\ toks' = Append(toks, [type |-> "EOF", lit |-> << >>])
    <3> DEFINE eof == [type |-> "EOF", lit |-> << >>]
    <3>1. eof \in Tokens /\ eof.type = "EOF"
      BY DEF Tokens, TokenTypes
    <3> HIDE DEF eof
    <3>2. toks' = Append(toks, eof)
      BY <2>5 DEF eof
    <3>3. toks' \in Seq(Tokens) /\ Len(toks') = Len(toks) + 1 /\ toks'[Len(toks')] = eof
          /\ Len(toks) \in Nat
      BY <1>1, <3>1, <3>2
    <3>4. p' \in 1..Len(toks') /\ toks'[Len(toks')].type = "EOF"
      BY <2>2, <3>1, <3>3
    <3> QED
      BY <1>2, <1>3, <2>2, <2>5, <3>3, <3>4 DEF TextInv
  <2>6. CASE at' = "error" /\ toks' = toks
    BY <1>1, <1>2, <1>3, <2>2, <2>6 DEF TextInv
  <2> QED
    BY <2>1, <2>3, <2>4, <2>5, <2>6
<1>5. CASE ParseError
  <2>1. at' = "error" /\ text' = text /\ src' = src /\ pos' = pos /\ toks' = toks
    BY <1>5 DEF ParseError, lexVars
  <2> QED
    BY <1>1, <1>2, <1>3, <2>1 DEF TextInv
<1>6. ASSUME NEW m \in Moves, Take(m) PROVE TextInv'
  <2>1. /\ at = m[1] /\ toks[p].type = m[2] /\ at' = m[3] /\ p' = p + 1
        /\ text' = text /\ src' = src /\ pos' = pos /\ toks' = toks
    BY <1>6 DEF Take, cur, lexVars
  <2>2. at \in Places /\ m[2] # "EOF" /\ m[3] \in Places \cup {"parsed"}
    BY <2>1, MovesInside
  <2>3. p # Len(toks)
    BY <1>1, <2>1, <2>2
  <2>4. p' \in 1..Len(toks') /\ toks'[Len(toks')].type = "EOF"
    BY <1>1, <2>1, <2>2, <2>3
  <2>5. at' \in Places \cup Outside /\ at' # "lex"
    BY <1>2, <1>3, <2>1, <2>2
  <2> QED
    BY <1>1, <2>1, <2>4, <2>5 DEF TextInv
<1> QED
  BY <1>4, <1>5, <1>6 DEF ParseText

-----------------------------------------------------------------------------
(* The handler.                                                            *)

\* The answer to a request that the scanner lets pass follows from the loaded policy
\* alone: it is stopped exactly when there is one, it is its tenant's, and its first
\* rule that applies to the score Scan returned and the total just read says BLOCK.
AnswerByPolicy ==
    reply \in {"policy_block", "forward"} =>
        (reply = "policy_block" <=>
            /\ bundle # None
            /\ OwnBundle
            /\ Evaluate(bundle.rules, evalCtx) = "BLOCK")

\* A request is turned away by the guardrail exactly when Scan says block; neither the
\* policy nor the handler can let it pass then, or turn another away in its name.
AnswerByVerdict == reply = "guardrail_block" <=> reply # "none" /\ verdict = "block"

\* The answer waits for the verdict, and the quota is read only for the policy.
HandlerInv ==
    /\ bundle # None => at \in {"loaded", "serving"}
    /\ prompt # NoPrompt => at = "serving"
    /\ tenant \in Tenants \cup {None}
    /\ dailyTokens \in Totals \cup {-1}
    /\ dailyTokens # -1 => bundle # None /\ verdict \in {"pass", "tag"}
    /\ reply \in {"none", "guardrail_block", "policy_block", "forward"}
    /\ reply # "none" => verdict # "none"
    /\ AnswerByVerdict
    /\ reply \in {"policy_block", "forward"} => (bundle = None \/ dailyTokens # -1)
    /\ AnswerByPolicy

IndInv == ScanInv /\ TextInv /\ HandlerInv

\* There is a verdict once Scan has returned, and not before.
LEMMA VerdictWithScore ==
    ASSUME ScanInv
    PROVE  /\ score = -1 <=> verdict = "none"
           /\ verdict # "none" => prompt # NoPrompt
  BY DEF ScanInv, Returned, Verdict

LEMMA InitInv == Init => IndInv
<1> SUFFICES ASSUME Init PROVE IndInv
  OBVIOUS
<1>1. ScanInv /\ TextInv
  BY ScanStarts, TextStarts DEF Init
<1>2. prompt = NoPrompt /\ bundle = None /\ tenant = None /\ dailyTokens = -1 /\ reply = "none"
  BY DEF Init, ScanInit
<1> QED
  BY <1>1, <1>2 DEF IndInv, HandlerInv, AnswerByPolicy, AnswerByVerdict

\* What the handler knows of a request does not change behind its back.
LEMMA HandlerUnmoved ==
    ASSUME HandlerInv, bundle' = bundle, prompt' = prompt, verdict' = verdict, score' = score,
           tenant' = tenant, dailyTokens' = dailyTokens, reply' = reply,
           at' = at \/ (bundle = None /\ prompt = NoPrompt) \/ at' = "serving"
    PROVE  HandlerInv'
<1>1. OwnBundle' = OwnBundle /\ evalCtx' = evalCtx
  BY DEF OwnBundle, evalCtx
<1>2. AnswerByPolicy'
  BY <1>1 DEF AnswerByPolicy, HandlerInv
<1> QED
  BY <1>2 DEF HandlerInv, AnswerByVerdict

\* Every step keeps what the handler relies on.
LEMMA HandlerKeeps == IndInv /\ [Next]_vars => HandlerInv'
<1> SUFFICES ASSUME IndInv, [Next]_vars PROVE HandlerInv'
  OBVIOUS
<1>1. ScanInv /\ TextInv /\ HandlerInv
  BY DEF IndInv
<1>2. /\ score = -1 <=> verdict = "none"
      /\ verdict # "none" => prompt # NoPrompt
  BY <1>1, VerdictWithScore
<1>3. CASE ParseStep
  <2>1. /\ bundle' = bundle /\ prompt' = prompt /\ verdict' = verdict /\ score' = score
        /\ tenant' = tenant /\ dailyTokens' = dailyTokens /\ reply' = reply
    BY <1>3 DEF ParseStep, scanVars, requestVars
  <2>2. at = "lex" \/ at \in Places
    BY <1>1, <1>3, LexEffect, MovesInside DEF ParseStep, ParseText, ParseError, Take
  <2>3. "loaded" \notin Places /\ "serving" \notin Places
    BY PlacesInside DEF Outside
  <2>4. bundle = None /\ prompt = NoPrompt
    BY <1>1, <2>2, <2>3 DEF HandlerInv
  <2> QED
    BY <1>1, <2>1, <2>4, HandlerUnmoved
<1>4. CASE CompileStep
  <2>1. /\ at = "parsed" /\ prompt' = prompt /\ verdict' = verdict /\ score' = score
        /\ tenant' = tenant /\ dailyTokens' = dailyTokens /\ reply' = reply
        /\ at' = "loaded" \/ (at' = "error" /\ bundle' = bundle)
    BY <1>4 DEF CompileStep, scanVars, requestVars
  <2>2. bundle = None /\ prompt = NoPrompt
    BY <1>1, <2>1 DEF HandlerInv
  <2>3. verdict = "none" /\ reply = "none" /\ dailyTokens = -1
    BY <1>1, <1>2, <2>2 DEF HandlerInv
  <2> QED
    BY <1>1, <2>1, <2>2, <2>3 DEF HandlerInv, AnswerByPolicy, AnswerByVerdict
<1>5. CASE Serve
  <2>1. /\ bundle' = bundle /\ prompt' = prompt /\ verdict' = verdict /\ score' = score
        /\ tenant' = tenant /\ dailyTokens' = dailyTokens /\ reply' = reply /\ at' = "serving"
    BY <1>5 DEF Serve, scanVars, requestVars
  <2> QED
    BY <1>1, <2>1, HandlerUnmoved
<1>6. CASE ScanStep
  <2>1. /\ bundle' = bundle /\ tenant' = tenant /\ dailyTokens' = dailyTokens /\ reply' = reply
        /\ at' = at /\ Scan
    BY <1>6 DEF ScanStep, textVars, requestVars
  <2>2. prompt' = prompt
    BY <2>1 DEF Scan, Join, StartDetector, Detect
  <2>3. CASE score' = score /\ verdict' = verdict
    BY <1>1, <2>1, <2>2, <2>3, HandlerUnmoved
  <2>4. CASE Join
    <3>1. verdict = "none"
      BY <1>2, <2>4 DEF Join
    <3>2. reply = "none" /\ dailyTokens = -1
      BY <1>1, <3>1 DEF HandlerInv
    <3> QED
      BY <1>1, <2>1, <2>2, <3>2 DEF HandlerInv, AnswerByPolicy, AnswerByVerdict
  <2> QED
    BY <2>1, <2>3, <2>4 DEF Scan, StartDetector, Detect
<1>7. CASE GuardrailBlocks
  <2>1. /\ verdict = "block" /\ reply = "none" /\ reply' = "guardrail_block" /\ at' = at
        /\ bundle' = bundle /\ prompt' = prompt /\ verdict' = verdict
        /\ tenant' = tenant /\ dailyTokens' = dailyTokens
    BY <1>7 DEF GuardrailBlocks, Answer, textVars, scanVars
  <2> QED
    BY <1>1, <2>1 DEF HandlerInv, AnswerByPolicy, AnswerByVerdict
<1>8. CASE NoPolicy
  <2>1. /\ verdict \in {"pass", "tag"} /\ reply = "none" /\ reply' = "forward" /\ at' = at
        /\ bundle = None /\ bundle' = bundle /\ prompt' = prompt /\ verdict' = verdict
        /\ tenant' = tenant /\ dailyTokens' = dailyTokens
    BY <1>8 DEF NoPolicy, Answer, textVars, scanVars
  <2> QED
    BY <1>1, <2>1 DEF HandlerInv, AnswerByPolicy, AnswerByVerdict
<1>9. ASSUME NEW n \in Totals, ReadTotal(n) PROVE HandlerInv'
  <2>1. /\ verdict \in {"pass", "tag"} /\ bundle # None /\ dailyTokens = -1 /\ dailyTokens' = n
        /\ at' = at /\ bundle' = bundle /\ prompt' = prompt /\ verdict' = verdict
        /\ tenant' = tenant /\ reply' = reply
    BY <1>9 DEF ReadTotal, textVars, scanVars
  <2>2. reply \notin {"policy_block", "forward"}
    BY <1>1, <2>1 DEF HandlerInv
  <2> QED
    BY <1>1, <2>1, <2>2 DEF HandlerInv, AnswerByPolicy, AnswerByVerdict
<1>10. CASE Judge
  <2>1. /\ dailyTokens >= 0 /\ reply = "none" /\ at' = at
        /\ reply' = (IF OwnBundle /\ Evaluate(bundle.rules, evalCtx) = "BLOCK"
                     THEN "policy_block" ELSE "forward")
        /\ bundle' = bundle /\ prompt' = prompt /\ verdict' = verdict /\ score' = score
        /\ tenant' = tenant /\ dailyTokens' = dailyTokens
    BY <1>10 DEF Judge, Answer, textVars, scanVars
  <2>2. dailyTokens # -1
    BY <2>1
  <2>3. bundle # None /\ verdict \in {"pass", "tag"}
    BY <1>1, <2>2 DEF HandlerInv
  <2>4. OwnBundle' = OwnBundle /\ evalCtx' = evalCtx
    BY <2>1 DEF OwnBundle, evalCtx
  <2>5. AnswerByPolicy'
    BY <2>1, <2>3, <2>4 DEF AnswerByPolicy
  <2> QED
    BY <1>1, <2>1, <2>2, <2>3, <2>5 DEF HandlerInv, AnswerByVerdict
<1>11. ASSUME NEW t \in Tenants, NEW q \in Prompts, Request(t, q) PROVE HandlerInv'
  <2>1. /\ at = "serving" /\ prompt = NoPrompt /\ tenant' = t /\ at' = at /\ bundle' = bundle
        /\ verdict' = verdict /\ dailyTokens' = dailyTokens /\ reply' = reply
    BY <1>11 DEF Request, CallScan, textVars
  <2>2. reply = "none"
    BY <1>1, <1>2, <2>1 DEF HandlerInv
  <2> QED
    BY <1>1, <2>1, <2>2 DEF HandlerInv, AnswerByPolicy, AnswerByVerdict
<1>12. CASE UNCHANGED vars
  BY <1>1, <1>12, HandlerUnmoved DEF vars, textVars, scanVars, requestVars
<1> QED
  BY <1>3, <1>4, <1>5, <1>6, <1>7, <1>8, <1>9, <1>10, <1>11, <1>12, NextCases

\* Every step keeps what the load relies on: once the parser is through, nothing but
\* New's return touches its state.
LEMMA TextKeeps == TextInv /\ [Next]_vars => TextInv'
<1> SUFFICES ASSUME TextInv, [Next]_vars PROVE TextInv'
  OBVIOUS
<1>1. {"loaded", "error", "serving"} \cap Places = {} /\ {"loaded", "error", "serving"} \subseteq Outside
  BY PlacesInside DEF Outside
<1>2. CASE ParseStep
  BY <1>2, ParseKeeps DEF ParseStep
<1>3. CASE CompileStep
  <2>1. at' \in {"loaded", "error"} /\ text' = text /\ src' = src /\ pos' = pos /\ toks' = toks
    BY <1>3 DEF CompileStep, lexVars
  <2> QED
    BY <1>1, <2>1 DEF TextInv
<1>4. CASE Serve
  <2>1. at' = "serving" /\ text' = text /\ src' = << >> /\ toks' = << >> /\ pos' = 1
    BY <1>4 DEF Serve
  <2>2. text' \in Texts /\ text'.src \in Seq(STRING)
    BY <2>1, TextAssumption DEF TextInv
  <2>3. src' \in Seq(STRING) /\ Len(src') = 0 /\ src' = SubSeq(text'.src, 1, 0)
    BY <2>1, <2>2
  <2>4. pos' \in 1..(Len(src') + 1) /\ toks' \in Seq(Tokens)
    BY <2>1, <2>3
  <2>5. at' \in Places \cup Outside /\ at' # "lex" /\ at' \notin Places
    BY <1>1, <2>1
  <2> QED
    BY <2>2, <2>3, <2>4, <2>5 DEF TextInv
<1>5. CASE UNCHANGED textVars
  <2>1. /\ text' = text /\ src' = src /\ pos' = pos /\ toks' = toks /\ at' = at /\ p' = p
    BY <1>5 DEF textVars, lexVars
  <2> QED
    BY <2>1 DEF TextInv
<1>6. ParseStep \/ CompileStep \/ Serve \/ UNCHANGED textVars
  BY NextCases DEF ScanStep, GuardrailBlocks, NoPolicy, ReadTotal, Judge, Request, Answer, vars
<1> QED
  BY <1>2, <1>3, <1>4, <1>5, <1>6

-----------------------------------------------------------------------------
(* The theorems.                                                           *)

\* The load, the scan and the handler together.
THEOREM GuardrailsInvariant == Spec => []IndInv
<1>1. IndInv /\ [Next]_vars => IndInv'
  <2> SUFFICES ASSUME IndInv, [Next]_vars PROVE IndInv'
    OBVIOUS
  <2>1. ScanInv'
    BY OthersKeepScan, ScanKeeps, CallScanKeeps, ScanUnchanged DEF IndInv
  <2>2. TextInv'
    BY TextKeeps DEF IndInv
  <2>3. HandlerInv'
    BY HandlerKeeps
  <2> QED
    BY <2>1, <2>2, <2>3 DEF IndInv
<1> QED
  BY <1>1, InitInv, PTL DEF Spec

\* Whatever the file holds, the lexer stays within the text and the parser within the
\* tokens (p.cur never reads behind the last one), and a bundle exists only once its
\* file is loaded.
THEOREM GuardrailsTypeCorrect == Spec => []TypeOK
<1>1. IndInv => TypeOK
  BY TextTyped, ScanTyped DEF IndInv, TypeOK, HandlerInv
<1> QED
  BY <1>1, GuardrailsInvariant, PTL

\* The handler's answer is the one the verdict and the loaded policy call for: a
\* blocking verdict is answered by the guardrail, and any other exactly by what Evaluate
\* says of the tenant's own bundle, the score and the total read for this request.
THEOREM GuardrailsAnswer == Spec => [](AnswerByVerdict /\ AnswerByPolicy)
<1>1. IndInv => AnswerByVerdict /\ AnswerByPolicy
  BY DEF IndInv, HandlerInv
<1> QED
  BY <1>1, GuardrailsInvariant, PTL

\* Scan returns only when every detector has written its own slot, and its composite
\* is their weighted mean to the nearest hundredth, whatever the order they ran in.
THEOREM GuardrailsScoreCountsAll == Spec => []ScoreCountsAll
  BY GuardrailsInvariant, ScanCounts, PTL DEF IndInv

\* No detector alone blocks a prompt, and neither does any number of them without one
\* that matches patterns.
THEOREM GuardrailsOneSignalNeverBlocks == Spec => []OneSignalNeverBlocks
  BY GuardrailsInvariant, ScanBlocks, PTL DEF IndInv
=============================================================================
