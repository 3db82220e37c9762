----------------------------- MODULE PolicyRules -----------------------------
(***************************************************************************)
(* What a parsed policy means: Compile and Evaluate of                     *)
(* policy/dsl/compiler.go.  A condition is the sequence of its atoms, each *)
(* with the word that joins it to what stands before it: parseCondition    *)
(* nests to the left, so the sequence determines the tree.                 *)
(*                                                                         *)
(* A word is a sequence of characters.  A float64 is an integer number of  *)
(* hundredths: a score is rounded to hundredths, and a literal with two    *)
(* decimals denotes the same float64 as the quotient by 100.               *)
(***************************************************************************)
EXTENDS Integers, SequencesExt

CONSTANTS
    Lower,      \* strings.ToLower, on characters
    Floats,     \* strconv.ParseFloat: the words it accepts and their values
    NaN,        \* the value that compares with nothing
    Fields,     \* field paths: the entries of EvalContext they name
    Actions     \* action words in lower case: the actions they name

ASSUME RulesAssumption ==
    /\ \A w \in DOMAIN Floats : Floats[w] \in Int \cup {NaN}
    /\ Range(Fields) \subseteq {"InputRiskScore", "TenantDailyTokens", "RequestModel"}
    /\ "BLOCK" \in Range(Actions) /\ Range(Actions) \subseteq {"BLOCK", "TAG", "LOG", "REDACT"}
    /\ \A v, w \in DOMAIN Actions : Actions[v] = Actions[w] => v = w

\* strings.ToLower
Fold(w) == [k \in DOMAIN w |-> Lower[w[k]]]

-----------------------------------------------------------------------------
(* Compile                                                                 *)

\* fieldGetter and stringFieldGetter
IsFloat(f) == f \in DOMAIN Fields /\ Fields[f] # "RequestModel"
IsString(f) == f \in DOMAIN Fields /\ Fields[f] = "RequestModel"

\* compileCompare
CompareCompiles(a) ==
    \/ IsFloat(a.field) /\ a.vals[1] \in DOMAIN Floats
    \/ IsString(a.field) /\ a.op = "EQ"

\* compileNotIn
NotInCompiles(a) == IsString(a.field)

\* compileNode
AtomCompiles(a) == IF a.op = "NOT_IN" THEN NotInCompiles(a) ELSE CompareCompiles(a)

\* The name parseAction looks up.
ActionName(w) == Fold(w)

\* Compile, or the error of the first rule that has one.
RuleCompiles(r) ==
    /\ \A k \in DOMAIN r.cond : AtomCompiles(r.cond[k])
    /\ ActionName(r.action) \in DOMAIN Actions

Compiles(node) == \A k \in DOMAIN node.rules : RuleCompiles(node.rules[k])

CompiledRule(r) == [r EXCEPT !.action = Actions[ActionName(@)]]

Compiled(node) == [node EXCEPT !.rules = [k \in DOMAIN @ |-> CompiledRule(@[k])]]

-----------------------------------------------------------------------------
(* Evaluate                                                                *)

\* The closures compileCompare returns.
CompareHolds(a, v) ==
    IF IsString(a.field) THEN Fold(v) = Fold(a.vals[1])
    ELSE LET n == Floats[a.vals[1]]
         IN  /\ n # NaN
             /\ CASE a.op = "GT" -> v > n [] a.op = "LT" -> v < n [] a.op = "EQ" -> v = n

\* The closure compileNotIn returns.
NotInHolds(a, v) == Fold(v) \notin {Fold(w) : w \in Range(a.vals)}

AtomHolds(a, ctx) ==
    LET v == ctx[Fields[a.field]]
    IN  IF a.op = "NOT_IN" THEN NotInHolds(a, v) ELSE CompareHolds(a, v)

\* Mutant: the tree nests to the right.
ConditionNestedRight(cond, ctx) ==
    FoldRight(LAMBDA a, rest : IF rest.join = "OR"
                               THEN [join |-> a.join, v |-> AtomHolds(a, ctx) \/ rest.v]
                               ELSE [join |-> a.join, v |-> AtomHolds(a, ctx) /\ rest.v],
              cond, [join |-> "AND", v |-> TRUE]).v

\* The closures of compileNode, one around the other.
ConditionHolds(cond, ctx) ==
    LET left[k \in 0..Len(cond)] ==
            IF k = 0 THEN TRUE
            ELSE IF cond[k].join = "OR" THEN left[k - 1] \/ AtomHolds(cond[k], ctx)
                                        ELSE left[k - 1] /\ AtomHolds(cond[k], ctx)
    IN  left[Len(cond)]

\* The action of the first rule that matches.
Evaluate(rules, ctx) ==
    LET hits == {k \in DOMAIN rules : ConditionHolds(rules[k].cond, ctx)}
    IN  IF hits = {} THEN "none" ELSE rules[Min(hits)].action
=============================================================================
