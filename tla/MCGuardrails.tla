---------------------------- MODULE MCGuardrails -----------------------------
(***************************************************************************)
(* Guardrails with keywords of one or two letters.  Every text is read     *)
(* whole and cut after each of its characters.  The good ones have rules   *)
(* that mask each other, mixed AND and OR, quoted braces and hashes,       *)
(* comments, missing and trailing commas and, behind the policy, a second  *)
(* one or tokens that some cuts leave unfinished; the bad ones have one    *)
(* defect each.                                                            *)
(***************************************************************************)
EXTENDS Guardrails

CONSTANTS nan, malformed, noPrompt, none

Q == "\""
Lexemes(ls) == FlattenSeq([k \in DOMAIN ls |-> Append(ls[k], " ")])
Quoted(w) == <<Q>> \o w \o <<Q>>

MCLetters == {"p", "o", "r", "w", "a", "e", "A", "O", "N", "t", "u", "s", "d", "m", "M", "B", "b", "g", "x"}
MCDigits == {"0", "2", "3", "5", "9"}
MCKeywords == (<<"p", "o">> :> "POLICY") @@ (<<"r">> :> "RULE") @@ (<<"w">> :> "WHEN")
    @@ (<<"a">> :> "ACTION") @@ (<<"r", "e">> :> "REASON") @@ (<<"A">> :> "AND")
    @@ (<<"O">> :> "OR") @@ (<<"N">> :> "NOT_IN")
MCTenant == <<"t">>
MCFloats == (<<"0", ".", "2">> :> 20) @@ (<<"0", ".", "3", "5">> :> 35) @@ (<<"5">> :> 500)
    @@ (<<"-", "5">> :> -500) @@ (<<"N", "a", "N">> :> nan)
MCLower == [c \in MCLetters \cup MCDigits \cup {"-", "."} |->
               CASE c = "M" -> "m" [] c = "B" -> "b" [] OTHER -> c]
MCFields == (<<"s">> :> "InputRiskScore") @@ (<<"d">> :> "TenantDailyTokens")
    @@ (<<"m">> :> "RequestModel")
MCActions == (<<"b">> :> "BLOCK") @@ (<<"g">> :> "TAG")

-----------------------------------------------------------------------------

A(join, f, op, vals) == [join |-> join, field |-> <<f>>, op |-> op, vals |-> vals]
R(name, cond, action, reason) ==
    [name |-> <<name>>, cond |-> cond, action |-> <<action>>, reason |-> reason]

Header == Lexemes(<< <<"p", "o">>, <<"t", ":", "u">>, <<"{">> >>)
RuleText(name, cond, action, reason) ==
    Lexemes(<< <<"r">>, <<name>>, <<"{">>, <<"w">>, cond, <<"a">>, <<action>>, <<"r", "e">>, Quoted(reason), <<"}">> >>)
\* spoilt: the lengths of the tail at which it does not end between two tokens.
Text(body, tail, spoilt, rules) ==
    LET ends == Len(Header \o body) + 1
    IN  [src |-> Header \o body \o <<"}">> \o tail, ends |-> ends,
         spoilt |-> {ends + n : n \in spoilt}, means |-> [tenant |-> <<"u">>, rules |-> rules]]
Bad(chars) == [src |-> chars, ends |-> Len(chars), spoilt |-> {}, means |-> malformed]

\* A TAG rule before a BLOCK rule, a brace in the reason, and a second policy.
Masked ==
    Text(RuleText("x", <<"d", ">", "5">>, "g", <<"}">>)
             \o RuleText("o", <<"s", ">", "0", ".", "2">>, "B", << >>),
         <<"#", "\n">> \o Header \o <<"}">>, {},
         << R("x", <<A("AND", "d", "GT", << <<"5">> >>)>>, "g", <<"}">>),
            R("o", <<A("AND", "s", "GT", << <<"0", ".", "2">> >>)>>, "B", << >>) >>)

\* Three atoms, a list without and with commas, an action in lower case, and a
\* comment with a closing brace.
Mixed ==
    Text(<<"#", "}", " ", "}", "\n">> \o RuleText("x",
             <<"s", "<", "0", ".", "3", "5", " ", "O", " ", "d", "=", "=", "5", " ", "A", " ",
               "m", " ", "N", "[", Q, "M", Q, Q, "x", Q, ",", "]">>, "b", <<"#">>), << >>, {},
         << R("x", <<A("AND", "s", "LT", << <<"0", ".", "3", "5">> >>), A("OR", "d", "EQ", << <<"5">> >>),
                     A("AND", "m", "NOT_IN", << <<"M">>, <<"x">> >>)>>, "b", <<"#">>) >>)

\* A threshold that is not a number, an empty list, and an equality of strings.
Odd ==
    Text(RuleText("x", <<"s", ">", Q, "N", "a", "N", Q>>, "b", << >>)
             \o RuleText("o", <<"d", ">", "-", "5", " ", "A", " ", "m", "=", "=", Q, "M", Q, "\t", "A", " ",
                                "m", "NBSP", "N", "VT", "[", "]">>, "b", << >>), << >>, {},
         << R("x", <<A("AND", "s", "GT", << <<"N", "a", "N">> >>)>>, "b", << >>),
            R("o", <<A("AND", "d", "GT", << <<"-", "5">> >>), A("AND", "m", "EQ", << <<"M">> >>),
                     A("AND", "m", "NOT_IN", << >>)>>, "b", << >>) >>)

\* No rules, and behind the policy a string, an operator and a number, each of them cut,
\* and then a character that starts no token.
Empty ==
    Text(<< >>, <<Q, "x", Q, "=", "=", "-", "5", "\f", "!", "NEL">>, {1, 2, 4, 6, 9, 10}, << >>)

\* One rule with a defect in its condition, its action or its reason.
OneRule(cond, action, reason) == Bad(Header \o RuleText("x", cond, action, reason) \o <<"}">>)

Defects ==
    { OneRule(c, "B", << >>) : c \in
        { <<"u", ">", "5">>,                        \* unknown field
          <<"m", ">", "5">>,                        \* order of strings
          <<"d", " ", "N", "[", "]">>,              \* list for a number
          <<"s", ">", Q, "x", Q>>,                  \* not a number
          <<"s", ">", "0", ".", "2", ".", "3">>,    \* not a number either
          <<"s", "=", "5">>, <<"s", "-", "5">>,     \* no operator
          <<"s", ">", "x">>,                        \* no value
          <<"m", " ", "N", "[", "x", "]">>,         \* no string in the list
          <<"s", ">", "5", " ", "s">>, <<"s", ">", "-">> } }
    \cup { OneRule(<<"s", ">", "5">>, "x", << >>),          \* unknown action
           OneRule(<<"s", ">", "5">>, "B", <<"\n">>),       \* string over two lines
           Bad(Lexemes(<< <<"p", "o">>, <<"u", ":", "u">>, <<"{", "}">> >>)) }

MCTexts == {Masked, Mixed, Odd, Empty} \cup Defects
MCValidNumber == {w \in DOMAIN MCFloats : w[1] # "N"}

-----------------------------------------------------------------------------

P(k, s, v, n, b, e) ==
    [keyword |-> k, structural |-> s, verbs |-> v, words |-> n, boundary |-> b, entropy |-> e, short |-> FALSE]

\* No words; nothing found; one signal each; the composite next to a threshold
\* (18: tag, 60: block), on it, and half way between two hundredths.
MCPrompts ==
    { P(0, 0, 0, 0, 0, 0), P(2, 0, 0, 9, 0, 0), P(0, 2, 0, 9, 0, 0), P(0, 0, 5, 9, 0, 0),
      P(0, 0, 0, 9, 2, 0), P(0, 0, 0, 9, 0, 70), P(1, 0, 0, 40, 0, 0), P(0, 0, 1, 30, 0, 60),
      P(2, 2, 0, 9, 0, 0), P(2, 1, 1, 41, 0, 0), P(1, 1, 1, 20, 1, 50), P(0, 1, 0, 9, 0, 70),
      P(1, 0, 3, 70, 1, 52), P(2, 2, 9, 9, 2, 99), [P(0, 0, 0, 1, 0, 90) EXCEPT !.short = TRUE] }

MCTenants == {<<"u">>, <<"x">>}
MCRequestModel == <<"m">>
=============================================================================
