--------------------------- MODULE DecisionProofs ----------------------------
(***************************************************************************)
(* From the text of a policy to the decision about a request.  However     *)
(* much of the file was read, a policy is made of whole tokens of the      *)
(* author's text; the tree the parser builds of them is whole; the         *)
(* closures that Compile nests compute what a reader takes the condition   *)
(* for, and Evaluate's first match is the rule the author would expect.    *)
(* This holds for texts, conditions and policies of any length.            *)
(***************************************************************************)
EXTENDS GuardrailsProofs

-----------------------------------------------------------------------------
(* Conditions.                                                             *)

\* How a reader takes the first m of the atoms whose values are A, where O has those
\* that an OR joins to what stands before.
Reads(A, O, m) ==
    m = 0 \/ \E k \in 1..m : (k = 1 \/ O[k]) /\ \A j \in k..m : (j = k \/ ~O[j]) => A[j]

\* One more atom: an OR offers another start, an AND one more thing that must hold.
LEMMA ReadsStep ==
    ASSUME NEW n \in Nat, NEW A \in [1..n -> BOOLEAN], NEW O \in [1..n -> BOOLEAN],
           NEW m \in 1..n, ~O[1]
    PROVE  Reads(A, O, m) <=> IF O[m] THEN Reads(A, O, m - 1) \/ A[m]
                                      ELSE Reads(A, O, m - 1) /\ A[m]
<1> DEFINE W(k, l) == (k = 1 \/ O[k]) /\ \A j \in k..l : (j = k \/ ~O[j]) => A[j]
<1>1. CASE m = 1
  <2>1. Reads(A, O, 0)
    BY DEF Reads
  <2>2. Reads(A, O, 1) <=> A[1]
    BY DEF Reads
  <2> QED
    BY <1>1, <2>1, <2>2
<1>2. CASE m # 1
  <2>1. m - 1 \in 1..n /\ m \in Nat /\ m # 0 /\ m - 1 # 0
    BY <1>2
  <2>2. Reads(A, O, m) <=> \E k \in 1..m : W(k, m)
    BY <2>1 DEF Reads
  <2>3. Reads(A, O, m - 1) <=> \E k \in 1..(m - 1) : W(k, m - 1)
    BY <2>1 DEF Reads
  <2>4. ASSUME NEW k \in 1..(m - 1) PROVE W(k, m) <=> W(k, m - 1) /\ (O[m] \/ A[m])
    <3>1. k..m = (k..(m - 1)) \cup {m} /\ m # k
      BY <2>1
    <3> QED
      BY <3>1
  <2>5. W(m, m) <=> O[m] /\ A[m]
    BY <1>2
  <2>6. (\E k \in 1..m : W(k, m)) <=> W(m, m) \/ \E k \in 1..(m - 1) : W(k, m)
    <3>1. 1..m = (1..(m - 1)) \cup {m}
      BY <2>1
    <3> QED
      BY <3>1
  <2> HIDE DEF W
  <2> QED
    BY <2>2, <2>3, <2>4, <2>5, <2>6
<1> QED
  BY <1>1, <1>2

\* The two sides as truth values.
LEMMA ReadsValue ==
    ASSUME NEW n \in Nat, NEW A \in [1..n -> BOOLEAN], NEW O \in [1..n -> BOOLEAN],
           NEW m \in 1..n, ~O[1]
    PROVE  Reads(A, O, m) = IF O[m] THEN Reads(A, O, m - 1) \/ A[m]
                                    ELSE Reads(A, O, m - 1) /\ A[m]
<1>1. \A x, y, o, a \in BOOLEAN :
          (x <=> IF o THEN y \/ a ELSE y /\ a) => x = IF o THEN y \/ a ELSE y /\ a
  OBVIOUS
<1>2. Reads(A, O, m) \in BOOLEAN /\ Reads(A, O, m - 1) \in BOOLEAN
  BY DEF Reads
<1>3. A[m] \in BOOLEAN /\ O[m] \in BOOLEAN
  OBVIOUS
<1> QED
  BY <1>1, <1>2, <1>3, ReadsStep

\* What the closures nested one around the other satisfy: f[k] is the condition up to
\* the atom k.
Solves(f, n, A, O) ==
    f = [k \in 0..n |-> IF k = 0 THEN TRUE
                        ELSE IF O[k] THEN f[k - 1] \/ A[k] ELSE f[k - 1] /\ A[k]]

\* There is such a function.
LEMMA NestedSolvable ==
    ASSUME NEW n \in Nat, NEW A \in [1..n -> BOOLEAN], NEW O \in [1..n -> BOOLEAN], ~O[1]
    PROVE  \E f : Solves(f, n, A, O)
<1> DEFINE h == [k \in 0..n |-> Reads(A, O, k)]
<1>1. Reads(A, O, 0) = TRUE
  BY DEF Reads
<1>2. ASSUME NEW k \in 0..n
      PROVE  h[k] = IF k = 0 THEN TRUE
                    ELSE IF O[k] THEN h[k - 1] \/ A[k] ELSE h[k - 1] /\ A[k]
  <2>1. CASE k = 0
    BY <1>1, <2>1
  <2>2. CASE k # 0
    <3>1. k \in 1..n /\ k - 1 \in 0..n
      BY <2>2
    <3>2. h[k] = Reads(A, O, k) /\ h[k - 1] = Reads(A, O, k - 1)
      BY <3>1
    <3>3. Reads(A, O, k) = IF O[k] THEN Reads(A, O, k - 1) \/ A[k] ELSE Reads(A, O, k - 1) /\ A[k]
      BY <3>1, ReadsValue
    <3> QED
      BY <2>2, <3>2, <3>3
  <2> QED
    BY <2>1, <2>2
<1>3. Solves(h, n, A, O)
  BY <1>2 DEF Solves
<1> QED
  BY <1>3

\* And it is the reading from left to right.
LEMMA NestedUnique ==
    ASSUME NEW n \in Nat, NEW A \in [1..n -> BOOLEAN], NEW O \in [1..n -> BOOLEAN], ~O[1],
           NEW f, Solves(f, n, A, O)
    PROVE  f[n] = Reads(A, O, n)
<1>1. f[0] = TRUE
  <2>1. 0 \in 0..n
    OBVIOUS
  <2> QED
    BY <2>1, Zenon DEF Solves
<1>2. ASSUME NEW k \in 1..n PROVE f[k] = IF O[k] THEN f[k - 1] \/ A[k] ELSE f[k - 1] /\ A[k]
  <2>1. k \in 0..n /\ k # 0
    OBVIOUS
  <2> QED
    BY <2>1, Zenon DEF Solves
<1> DEFINE Bad == {k \in 0..n : f[k] # Reads(A, O, k)}
<1>3. ASSUME Bad # {} PROVE FALSE
  <2>1. Bad \subseteq Nat
    OBVIOUS
  <2>2. PICK k \in Bad : \A j \in Bad : k =< j
    <3> HIDE DEF Bad
    <3> QED
      BY <1>3, <2>1, LeastIn
  <2>3. k \in 0..n /\ f[k] # Reads(A, O, k)
    OBVIOUS
  <2>4. Reads(A, O, 0) = TRUE
    BY DEF Reads
  <2>5. k # 0
    BY <1>1, <2>3, <2>4, Zenon
  <2>6. k \in 1..n /\ k - 1 \in 0..n /\ ~(k =< k - 1)
    BY <2>3, <2>5
  <2>7. f[k - 1] = Reads(A, O, k - 1)
    BY <2>2, <2>6
  <2>8. f[k] = IF O[k] THEN f[k - 1] \/ A[k] ELSE f[k - 1] /\ A[k]
    BY <1>2, <2>6, Zenon
  <2>9. Reads(A, O, k) = IF O[k] THEN Reads(A, O, k - 1) \/ A[k] ELSE Reads(A, O, k - 1) /\ A[k]
    BY <2>6, ReadsValue
  <2> QED
    BY <2>3, <2>7, <2>8, <2>9, Zenon
<1> QED
  BY <1>3

\* An atom holds or does not.
LEMMA AtomDecides == \A a, ctx : AtomHolds(a, ctx) \in BOOLEAN
  BY DEF AtomHolds, NotInHolds, CompareHolds

Values(cond, ctx) == [j \in 1..Len(cond) |-> AtomHolds(cond[j], ctx)]
Ors(cond) == [j \in 1..Len(cond) |-> cond[j].join = "OR"]

\* The body of ConditionHolds.
Closures(f, cond, ctx) ==
    f = [k \in 0..Len(cond) |->
            IF k = 0 THEN TRUE
            ELSE IF cond[k].join = "OR" THEN f[k - 1] \/ AtomHolds(cond[k], ctx)
                                        ELSE f[k - 1] /\ AtomHolds(cond[k], ctx)]

\* It is the recursion above, for the values and joins of the condition.
LEMMA ClosuresSolve ==
    ASSUME NEW cond, Len(cond) \in Nat, NEW ctx, NEW f
    PROVE  Closures(f, cond, ctx) <=> Solves(f, Len(cond), Values(cond, ctx), Ors(cond))
<1> DEFINE n == Len(cond)
           A == Values(cond, ctx)
           O == Ors(cond)
<1>1. ASSUME NEW k \in 0..n
      PROVE  (IF k = 0 THEN TRUE
              ELSE IF cond[k].join = "OR" THEN f[k - 1] \/ AtomHolds(cond[k], ctx)
                                          ELSE f[k - 1] /\ AtomHolds(cond[k], ctx))
             = IF k = 0 THEN TRUE ELSE IF O[k] THEN f[k - 1] \/ A[k] ELSE f[k - 1] /\ A[k]
  <2>1. CASE k = 0
    BY <2>1
  <2>2. CASE k # 0
    <3>1. k \in 1..n
      BY <2>2
    <3>2. A[k] = AtomHolds(cond[k], ctx) /\ O[k] = (cond[k].join = "OR")
      BY <3>1, Zenon DEF Values, Ors
    <3> QED
      BY <3>2, Zenon
  <2> QED
    BY <2>1, <2>2
<1> DEFINE F == [k \in 0..n |-> IF k = 0 THEN TRUE
                     ELSE IF cond[k].join = "OR" THEN f[k - 1] \/ AtomHolds(cond[k], ctx)
                                                 ELSE f[k - 1] /\ AtomHolds(cond[k], ctx)]
           G == [k \in 0..n |-> IF k = 0 THEN TRUE
                     ELSE IF O[k] THEN f[k - 1] \/ A[k] ELSE f[k - 1] /\ A[k]]
<1>2. F = G
  <2> HIDE DEF n, A, O
  <2> QED
    BY <1>1
<1>3. Closures(f, cond, ctx) <=> f = F
  BY DEF Closures
<1>4. Solves(f, n, A, O) <=> f = G
  BY DEF Solves
<1> HIDE DEF F, G
<1> QED
  BY <1>2, <1>3, <1>4

\* What compileNode's closures compute is what a reader takes the condition for, for
\* any number of atoms.
THEOREM ConditionIsRead ==
    ASSUME NEW cond, Len(cond) \in Nat, Len(cond) > 0, cond[1].join = "AND",
           \A k \in 1..Len(cond) : cond[k].join \in {"AND", "OR"},
           DOMAIN cond = 1..Len(cond), NEW ctx
    PROVE  ConditionHolds(cond, ctx) <=> Satisfied(cond, ctx)
<1> DEFINE n == Len(cond)
           A == Values(cond, ctx)
           O == Ors(cond)
           f == CHOOSE g : Closures(g, cond, ctx)
<1>1. A \in [1..n -> BOOLEAN]
  BY AtomDecides, Zenon DEF Values
<1>2. O \in [1..n -> BOOLEAN]
  BY Zenon DEF Ors
<1>3. 1 \in 1..n /\ ~O[1]
  <2>1. 1 \in 1..Len(cond)
    <3> HIDE DEF f
    <3> QED
      OBVIOUS
  <2>2. O[1] = (cond[1].join = "OR")
    BY <2>1, Zenon DEF Ors
  <2> QED
    BY <2>1, <2>2, Zenon
<1>4. ConditionHolds(cond, ctx) = f[n]
  BY Zenon DEF ConditionHolds, Closures
<1>5. \A j \in 1..n : A[j] = AtomHolds(cond[j], ctx) /\ (O[j] <=> cond[j].join = "OR")
                      /\ (~O[j] <=> cond[j].join = "AND")
  BY DEF Values, Ors
<1> HIDE DEF n, A, O
<1>6. \E g : Closures(g, cond, ctx)
  <2>1. PICK g : Solves(g, n, A, O)
    BY <1>1, <1>2, <1>3, NestedSolvable DEF n
  <2> QED
    BY <2>1, ClosuresSolve DEF n, A, O
<1>7. Closures(f, cond, ctx)
  BY <1>6, Zenon
<1> HIDE DEF f
<1>8. Solves(f, n, A, O)
  BY <1>7, ClosuresSolve DEF n, A, O
<1>9. f[n] = Reads(A, O, n)
  BY <1>1, <1>2, <1>3, <1>8, NestedUnique DEF n
<1>10. Reads(A, O, n) <=> Satisfied(cond, ctx)
  <2>1. n \in Nat /\ n # 0
    BY DEF n
  <2>2. Reads(A, O, n) <=>
            \E k \in 1..n : (k = 1 \/ O[k]) /\ \A j \in k..n : (j = k \/ ~O[j]) => A[j]
    BY <2>1, Zenon DEF Reads
  <2>3. Satisfied(cond, ctx) <=>
            \E k \in 1..n : /\ k = 1 \/ cond[k].join = "OR"
                            /\ \A j \in k..n : j = k \/ cond[j].join = "AND" => AtomHolds(cond[j], ctx)
    BY Zenon DEF Satisfied, n
  <2>4. ASSUME NEW k \in 1..n, NEW j \in k..n PROVE j \in 1..n
    BY <2>1
  <2> QED
    BY <1>5, <2>2, <2>3, <2>4, Zenon
<1> QED
  BY <1>4, <1>9, <1>10, Zenon

-----------------------------------------------------------------------------
(* Rules.                                                                  *)

Lits == Seq(Chars)
AtomNodes == [join : {"AND", "OR"}, field : Lits, op : TokenTypes \cup {"none"}, vals : Seq(Lits)]
RuleNodes == [name : Lits, cond : Seq(AtomNodes), action : Lits, reason : Lits]
PolicyNodes == [tenant : Lits, rules : Seq(RuleNodes)]

\* A comparison has one value, a membership any number.
AtomWhole(a) == a.op = "NOT_IN" \/ (a.op \in {"GT", "LT", "EQ"} /\ Len(a.vals) = 1)

\* A rule has a condition, which begins with its first atom, and all atoms are whole.
RuleWhole(r) ==
    /\ Len(r.cond) > 0 /\ r.cond[1].join = "AND"
    /\ \A k \in 1..Len(r.cond) : AtomWhole(r.cond[k])

\* A rule of a whole policy applies when its author would say so.
LEMMA RuleIsRead ==
    ASSUME NEW r \in RuleNodes, RuleWhole(r), NEW ctx
    PROVE  ConditionHolds(r.cond, ctx) <=> Satisfied(r.cond, ctx)
<1>1. r.cond \in Seq(AtomNodes)
  BY DEF RuleNodes
<1> DEFINE c == r.cond
<1>2. c \in Seq(AtomNodes) /\ Len(c) > 0 /\ c[1].join = "AND"
  BY <1>1 DEF RuleWhole
<1> HIDE DEF c
<1>3. Len(c) \in Nat /\ DOMAIN c = 1..Len(c) /\ \A k \in 1..Len(c) : c[k] \in AtomNodes
  BY <1>2
<1>4. \A k \in 1..Len(c) : c[k].join \in {"AND", "OR"}
  BY <1>3 DEF AtomNodes
<1>5. ConditionHolds(c, ctx) <=> Satisfied(c, ctx)
  BY <1>2, <1>3, <1>4, ConditionIsRead
<1> QED
  BY <1>5 DEF c

\* The one word for BLOCK.
LEMMA BlockIsAction ==
    ASSUME NEW r, ActionName(r.action) \in DOMAIN Actions
    PROVE  BlockRule(r) <=> Actions[ActionName(r.action)] = "BLOCK"
<1> DEFINE w == CHOOSE v \in DOMAIN Actions : Actions[v] = "BLOCK"
<1>1. \E v \in DOMAIN Actions : Actions[v] = "BLOCK"
  BY RulesAssumption DEF Range
<1>2. w \in DOMAIN Actions /\ Actions[w] = "BLOCK"
  BY <1>1
<1>3. BlockRule(r) <=> ActionName(r.action) = w
  BY DEF BlockRule, ActionName
<1> HIDE DEF w
<1> QED
  BY <1>2, <1>3, RulesAssumption

\* Compile keeps the tenant and the conditions, and looks the actions up.
LEMMA CompiledRules ==
    ASSUME NEW tree \in PolicyNodes, Compiles(tree)
    PROVE  /\ Compiled(tree).tenant = tree.tenant
           /\ DOMAIN Compiled(tree).rules = DOMAIN tree.rules
           /\ \A k \in DOMAIN tree.rules :
                 /\ Compiled(tree).rules[k].cond = tree.rules[k].cond
                 /\ ActionName(tree.rules[k].action) \in DOMAIN Actions
                 /\ Compiled(tree).rules[k].action = Actions[ActionName(tree.rules[k].action)]
<1> DEFINE rs == tree.rules
<1>1. tree.tenant \in Lits /\ rs \in Seq(RuleNodes)
  BY DEF PolicyNodes
<1>2. \A k \in DOMAIN rs : rs[k] \in RuleNodes
  BY <1>1
<1>3. /\ Compiled(tree).tenant = tree.tenant
      /\ Compiled(tree).rules = [k \in DOMAIN rs |-> CompiledRule(rs[k])]
  <2>1. ASSUME NEW new
        PROVE  [tree EXCEPT !.rules = new].tenant = tree.tenant /\ [tree EXCEPT !.rules = new].rules = new
    BY DEF PolicyNodes
  <2>2. Compiled(tree) = [tree EXCEPT !.rules = [k \in DOMAIN rs |-> CompiledRule(rs[k])]]
    BY Zenon DEF Compiled
  <2> QED
    BY <2>1, <2>2, Zenon
<1>4. ASSUME NEW r \in RuleNodes
      PROVE  CompiledRule(r).cond = r.cond /\ CompiledRule(r).action = Actions[ActionName(r.action)]
  BY DEF RuleNodes, CompiledRule
<1>5. \A k \in DOMAIN rs : ActionName(rs[k].action) \in DOMAIN Actions
  BY DEF Compiles, RuleCompiles
<1> QED
  BY <1>2, <1>3, <1>4, <1>5

\* Evaluate blocks exactly when a BLOCK rule applies and every rule before it that
\* applies is one too.
LEMMA FirstMatchIsRead ==
    ASSUME NEW tree \in PolicyNodes, Compiles(tree), NEW ctx,
           \A k \in DOMAIN tree.rules : RuleWhole(tree.rules[k])
    PROVE  Evaluate(Compiled(tree).rules, ctx) = "BLOCK" <=>
               \E k \in DOMAIN tree.rules :
                  /\ Satisfied(tree.rules[k].cond, ctx) /\ BlockRule(tree.rules[k])
                  /\ \A j \in 1..(k - 1) : Satisfied(tree.rules[j].cond, ctx) => BlockRule(tree.rules[j])
<1> DEFINE rs == tree.rules
           n == Len(rs)
           cs == Compiled(tree).rules
           Hit(k) == Satisfied(rs[k].cond, ctx)
           Block(k) == BlockRule(rs[k])
           hits == {k \in DOMAIN cs : ConditionHolds(cs[k].cond, ctx)}
<1>1. rs \in Seq(RuleNodes)
  BY DEF PolicyNodes
<1>2. n \in Nat /\ DOMAIN rs = 1..n /\ \A k \in 1..n : rs[k] \in RuleNodes
  BY <1>1
<1>3. DOMAIN cs = 1..n
  BY <1>2, CompiledRules
<1>4. ASSUME NEW k \in 1..n
      PROVE  /\ ConditionHolds(cs[k].cond, ctx) <=> Hit(k)
             /\ cs[k].action = "BLOCK" <=> Block(k)
  <2>1. /\ cs[k].cond = rs[k].cond /\ ActionName(rs[k].action) \in DOMAIN Actions
        /\ cs[k].action = Actions[ActionName(rs[k].action)]
    BY <1>2, CompiledRules
  <2>2. rs[k] \in RuleNodes /\ RuleWhole(rs[k])
    BY <1>2
  <2> HIDE DEF cs, rs
  <2>3. ConditionHolds(rs[k].cond, ctx) <=> Satisfied(rs[k].cond, ctx)
    BY <2>2, RuleIsRead
  <2>4. BlockRule(rs[k]) <=> Actions[ActionName(rs[k].action)] = "BLOCK"
    BY <2>1, BlockIsAction
  <2> QED
    BY <2>1, <2>3, <2>4
<1>5. Evaluate(cs, ctx) = IF hits = {} THEN "none" ELSE cs[Min(hits)].action
  BY DEF Evaluate
<1> HIDE DEF rs, n, cs
<1>6. hits = {k \in 1..n : Hit(k)}
  BY <1>3, <1>4
<1> HIDE DEF hits, Hit, Block
<1>7. hits # {} => Min(hits) \in hits /\ \A k \in hits : Min(hits) =< k
  <2>1. hits \subseteq Nat
    BY <1>2, <1>6
  <2> QED
    BY <2>1, MinIn
<1>8. Evaluate(cs, ctx) = "BLOCK" <=> hits # {} /\ Block(Min(hits))
  BY <1>4, <1>5, <1>6, <1>7
<1>9. (hits # {} /\ Block(Min(hits))) <=>
          \E k \in 1..n : Hit(k) /\ Block(k) /\ \A j \in 1..(k - 1) : Hit(j) => Block(j)
  <2>1. ASSUME hits # {}, Block(Min(hits))
        PROVE  \E k \in 1..n : Hit(k) /\ Block(k) /\ \A j \in 1..(k - 1) : Hit(j) => Block(j)
    <3>1. Min(hits) \in 1..n /\ Hit(Min(hits)) /\ \A k \in hits : Min(hits) =< k
      BY <1>6, <1>7, <2>1
    <3>2. ASSUME NEW j \in 1..(Min(hits) - 1) PROVE ~Hit(j)
      <4>1. j \in 1..n /\ ~(Min(hits) =< j)
        BY <1>2, <3>1
      <4> QED
        BY <1>6, <3>1, <4>1
    <3> QED
      BY <2>1, <3>1, <3>2
  <2>2. ASSUME NEW k \in 1..n, Hit(k), Block(k), \A j \in 1..(k - 1) : Hit(j) => Block(j)
        PROVE  hits # {} /\ Block(Min(hits))
    <3>1. k \in hits
      BY <1>6, <2>2
    <3>2. Min(hits) \in 1..n /\ Hit(Min(hits)) /\ Min(hits) =< k
      BY <1>6, <1>7, <3>1
    <3>3. Min(hits) = k \/ Min(hits) \in 1..(k - 1)
      BY <1>2, <3>2
    <3> QED
      BY <2>2, <3>1, <3>2, <3>3
  <2> QED
    BY <2>1, <2>2
<1> QED
  BY <1>2, <1>8, <1>9 DEF cs, rs, Hit, Block

-----------------------------------------------------------------------------
(* The tree the parser builds.                                             *)

BeforeCondition == {"name", "body", "when"}
AfterAtom == {"more", "action", "because", "reason", "end"}
InAtom == {"field", "op", "value", "list", "member", "comma"}
InCondition == InAtom \cup AfterAtom
InRule == BeforeCondition \cup InCondition

\* What parseAtom knows of its atom at a place.
AtomSoFar(place, a) ==
    /\ place \in {"field", "op"} => a.op = "none" /\ a.vals = << >>
    /\ place = "value" => a.op \in {"GT", "LT", "EQ"} /\ a.vals = << >>
    /\ place \in {"list", "member", "comma"} => a.op = "NOT_IN"
    /\ place \in AfterAtom => AtomWhole(a)

\* What parseCondition knows of its atoms.
CondSoFar(place, c) ==
    /\ Len(c) > 0 /\ c[1].join = "AND"
    /\ \A k \in 1..(Len(c) - 1) : AtomWhole(c[k])
    /\ AtomSoFar(place, c[Len(c)])

\* What parseRule knows of its rule.
RuleSoFar(place, r) ==
    /\ place \in BeforeCondition => r.cond = << >>
    /\ place \in InCondition => CondSoFar(place, r.cond)

\* The rules the parser is through with are whole; the one it is in is so far.
TreeInv ==
    /\ node \in PolicyNodes
    /\ at \in InRule => Rule > 0 /\ RuleSoFar(at, node.rules[Rule])
    /\ \A k \in 1..Rule : k # Rule \/ at \notin InRule \cup {"error"} => RuleWhole(node.rules[k])

\* Another last element of a sequence.
LEMMA ElementReplaced ==
    ASSUME NEW S, NEW s \in Seq(S), Len(s) > 0, NEW e \in S
    PROVE  LET t == [s EXCEPT ![Len(s)] = e]
           IN  /\ t \in Seq(S) /\ Len(t) = Len(s) /\ t[Len(t)] = e
               /\ \A k \in 1..(Len(s) - 1) : t[k] = s[k]
  OBVIOUS

\* One more element of a sequence.
LEMMA ElementAdded ==
    ASSUME NEW S, NEW s \in Seq(S), NEW e \in S
    PROVE  LET t == Append(s, e)
           IN  /\ t \in Seq(S) /\ Len(t) = Len(s) + 1 /\ t[Len(t)] = e
               /\ \A k \in 1..Len(s) : t[k] = s[k]
  OBVIOUS

\* The parser's node with another last rule, and a rule with another last atom.
WithRule(r) == [node EXCEPT !.rules[Rule] = r]
WithAtom(r, a) == [r EXCEPT !.cond[Len(r.cond)] = a]

\* The tree after a token, by the place it is taken at.
LEMMA GrownAt ==
    ASSUME cur.type \in {"AND", "OR"} => at = "more"
    PROVE
    LET r == node.rules[Rule]
        a == r.cond[Len(r.cond)]
    IN  /\ at = "id" => Grown = [node EXCEPT !.tenant = cur.lit]
        /\ at = "rules" /\ cur.type = "RULE" => Grown = [node EXCEPT !.rules = Append(@, NewRule)]
        /\ at = "name" => Grown = WithRule([r EXCEPT !.name = cur.lit])
        /\ at = "when" => Grown = WithRule([r EXCEPT !.cond = <<NewAtom("AND")>>])
        /\ at = "field" => Grown = WithRule(WithAtom(r, [a EXCEPT !.field = cur.lit]))
        /\ at = "op" => Grown = WithRule(WithAtom(r, [a EXCEPT !.op = cur.type]))
        /\ cur.type \in {"STRING", "NUMBER"} /\ at \in {"value", "member", "comma"}
              => Grown = WithRule(WithAtom(r, [a EXCEPT !.vals = Append(@, cur.lit)]))
        /\ cur.type \in {"AND", "OR"} /\ at = "more"
              => Grown = WithRule([r EXCEPT !.cond = Append(@, NewAtom(cur.type))])
        /\ at = "action" => Grown = WithRule([r EXCEPT !.action = cur.lit])
        /\ at = "reason" => Grown = WithRule([r EXCEPT !.reason = cur.lit])
        /\ at \in {"policy", "tenant", "colon", "open", "body", "list", "because", "end"} => Grown = node
        /\ at \in {"rules", "member", "comma", "more"}
           /\ cur.type \notin {"RULE", "STRING", "NUMBER", "AND", "OR"} => Grown = node
<1> DEFINE r == node.rules[Rule]
           a == r.cond[Len(r.cond)]
<1> USE DEF WithRule, WithAtom, Rule, Atom
<1>1. at = "id" => Grown = [node EXCEPT !.tenant = cur.lit]
  BY DEF Grown
<1>2. at = "rules" /\ cur.type = "RULE" => Grown = [node EXCEPT !.rules = Append(@, NewRule)]
  BY DEF Grown
<1>3. at = "name" => Grown = WithRule([r EXCEPT !.name = cur.lit])
  BY DEF Grown
<1>4. at = "when" => Grown = WithRule([r EXCEPT !.cond = <<NewAtom("AND")>>])
  BY DEF Grown
<1>5. at = "field" => Grown = WithRule(WithAtom(r, [a EXCEPT !.field = cur.lit]))
  BY DEF Grown
<1>6. at = "op" => Grown = WithRule(WithAtom(r, [a EXCEPT !.op = cur.type]))
  BY DEF Grown
<1>7. cur.type \in {"STRING", "NUMBER"} /\ at \in {"value", "member", "comma"}
         => Grown = WithRule(WithAtom(r, [a EXCEPT !.vals = Append(@, cur.lit)]))
  BY DEF Grown
<1>8. cur.type \in {"AND", "OR"} /\ at = "more"
         => Grown = WithRule([r EXCEPT !.cond = Append(@, NewAtom(cur.type))])
  BY DEF Grown
<1>9. at = "action" => Grown = WithRule([r EXCEPT !.action = cur.lit])
  BY DEF Grown
<1>10. at = "reason" => Grown = WithRule([r EXCEPT !.reason = cur.lit])
  BY DEF Grown
<1>11. at \in {"policy", "tenant", "colon", "open", "body", "list", "because", "end"} => Grown = node
  BY DEF Grown
<1>12. at \in {"rules", "member", "comma", "more"}
       /\ cur.type \notin {"RULE", "STRING", "NUMBER", "AND", "OR"} => Grown = node
  BY DEF Grown
<1> QED
  BY <1>1, <1>2, <1>3, <1>4, <1>5, <1>6, <1>7, <1>8, <1>9, <1>10, <1>11, <1>12, Zenon

\* Only the last rule is another.
LEMMA WithRuleIs ==
    ASSUME node \in PolicyNodes, Rule > 0, NEW r \in RuleNodes
    PROVE  /\ WithRule(r) \in PolicyNodes
           /\ Len(WithRule(r).rules) = Rule /\ WithRule(r).rules[Rule] = r
           /\ \A k \in 1..(Rule - 1) : WithRule(r).rules[k] = node.rules[k]
<1>1. node.tenant \in Lits /\ node.rules \in Seq(RuleNodes) /\ Len(node.rules) > 0
  BY DEF PolicyNodes, Rule
<1> DEFINE rs == [node.rules EXCEPT ![Len(node.rules)] = r]
<1>2. /\ rs \in Seq(RuleNodes) /\ Len(rs) = Len(node.rules) /\ rs[Len(rs)] = r
      /\ \A k \in 1..(Len(node.rules) - 1) : rs[k] = node.rules[k]
  BY <1>1, ElementReplaced
<1>3. WithRule(r) = [node EXCEPT !.rules = rs]
  BY DEF WithRule, Rule
<1> HIDE DEF rs
<1>4. WithRule(r) \in PolicyNodes /\ WithRule(r).rules = rs
  BY <1>2, <1>3 DEF PolicyNodes
<1> QED
  BY <1>2, <1>4 DEF Rule

\* Only the last atom of the rule is another.
LEMMA WithAtomIs ==
    ASSUME NEW r \in RuleNodes, Len(r.cond) > 0, NEW a \in AtomNodes
    PROVE  LET c == WithAtom(r, a).cond
           IN  /\ WithAtom(r, a) \in RuleNodes
               /\ Len(c) = Len(r.cond) /\ c[Len(r.cond)] = a
               /\ \A k \in 1..(Len(r.cond) - 1) : c[k] = r.cond[k]
<1>1. r.cond \in Seq(AtomNodes)
  BY DEF RuleNodes
<1> DEFINE c == [r.cond EXCEPT ![Len(r.cond)] = a]
<1>2. /\ c \in Seq(AtomNodes) /\ Len(c) = Len(r.cond) /\ c[Len(c)] = a
      /\ \A k \in 1..(Len(r.cond) - 1) : c[k] = r.cond[k]
  BY <1>1, ElementReplaced
<1>3. WithAtom(r, a) = [r EXCEPT !.cond = c]
  BY DEF WithAtom
<1> HIDE DEF c
<1>4. WithAtom(r, a) \in RuleNodes /\ WithAtom(r, a).cond = c
  BY <1>2, <1>3 DEF RuleNodes
<1> QED
  BY <1>2, <1>4

\* A step of parseAtom: the last atom changes, its join stays.
LEMMA AtomStep ==
    ASSUME NEW r \in RuleNodes, NEW from, CondSoFar(from, r.cond),
           NEW a \in AtomNodes, a.join = r.cond[Len(r.cond)].join,
           NEW to \in InCondition, AtomSoFar(to, a)
    PROVE  WithAtom(r, a) \in RuleNodes /\ RuleSoFar(to, WithAtom(r, a))
<1> DEFINE c == WithAtom(r, a).cond
           n == Len(r.cond)
<1>1. n \in Nat /\ n > 0
  BY DEF CondSoFar, RuleNodes
<1>2. /\ WithAtom(r, a) \in RuleNodes /\ Len(c) = n /\ c[n] = a
      /\ \A k \in 1..(n - 1) : c[k] = r.cond[k]
  BY <1>1, WithAtomIs
<1> HIDE DEF c
<1>3. \A k \in 1..(n - 1) : AtomWhole(c[k])
  BY <1>2 DEF CondSoFar
<1>4. c[1].join = "AND"
  <2>1. CASE n = 1
    BY <1>2, <2>1 DEF CondSoFar
  <2>2. CASE 1 \in 1..(n - 1)
    BY <1>2, <2>2 DEF CondSoFar
  <2>3. n = 1 \/ 1 \in 1..(n - 1)
    <3> HIDE DEF n
    <3> QED
      BY <1>1
  <2> QED
    BY <2>1, <2>2, <2>3
<1>5. CondSoFar(to, c)
  BY <1>1, <1>2, <1>3, <1>4 DEF CondSoFar
<1>6. to \notin BeforeCondition
  BY DEF BeforeCondition, InCondition, InAtom, AfterAtom
<1> QED
  BY <1>2, <1>5, <1>6 DEF RuleSoFar, c

\* A condition all of whose atoms are read.
LEMMA CondRead ==
    ASSUME NEW r \in RuleNodes, NEW place \in AfterAtom, RuleSoFar(place, r)
    PROVE  RuleWhole(r)
<1> DEFINE n == Len(r.cond)
<1>1. n \in Nat /\ CondSoFar(place, r.cond)
  BY DEF RuleSoFar, InCondition, RuleNodes
<1>2. AtomWhole(r.cond[n]) /\ \A k \in 1..(n - 1) : AtomWhole(r.cond[k])
  BY <1>1 DEF CondSoFar, AtomSoFar
<1>3. \A k \in 1..n : AtomWhole(r.cond[k])
  BY <1>1, <1>2
<1> QED
  BY <1>1, <1>3 DEF CondSoFar, RuleWhole

\* And what is whole is so far at every place behind an atom.
LEMMA WholeSoFar ==
    ASSUME NEW r \in RuleNodes, RuleWhole(r), NEW place \in AfterAtom
    PROVE  RuleSoFar(place, r)
<1>1. place \notin BeforeCondition /\ place \in InCondition
      /\ place \notin {"field", "op"} /\ place # "value" /\ place \notin {"list", "member", "comma"}
  BY DEF BeforeCondition, InCondition, InAtom, AfterAtom
<1>2. Len(r.cond) \in Nat /\ Len(r.cond) > 0
  BY DEF RuleWhole, RuleNodes
<1>3. CondSoFar(place, r.cond)
  BY <1>1, <1>2 DEF CondSoFar, AtomSoFar, RuleWhole
<1> QED
  BY <1>1, <1>3 DEF RuleSoFar

\* A step of parseRule or below: only the rule the parser is in changes.
LEMMA RuleStep ==
    ASSUME TreeInv, at \in InRule, NEW r \in RuleNodes,
           node' = WithRule(r) \/ (node' = node /\ r = node.rules[Rule]),
           \/ at' \in InRule /\ RuleSoFar(at', r)
           \/ at' = "rules" /\ RuleWhole(r)
    PROVE  TreeInv'
<1>1. node \in PolicyNodes /\ Rule > 0 /\ Rule \in Nat
  BY DEF TreeInv, PolicyNodes, Rule
<1>2. \A k \in 1..(Rule - 1) : RuleWhole(node.rules[k])
  BY <1>1 DEF TreeInv
<1>3. /\ node' \in PolicyNodes /\ Rule' = Rule /\ node'.rules[Rule] = r
      /\ \A k \in 1..(Rule - 1) : node'.rules[k] = node.rules[k]
  BY <1>1, WithRuleIs DEF Rule
<1>4. "rules" \notin InRule
  BY DEF InRule, BeforeCondition, InCondition, InAtom, AfterAtom
<1>5. \A k \in 1..Rule : k # Rule => RuleWhole(node'.rules[k])
  BY <1>1, <1>2, <1>3
<1>6. at' \notin InRule \cup {"error"} => RuleWhole(node'.rules[Rule])
  BY <1>3
<1> QED
  BY <1>1, <1>3, <1>4, <1>5, <1>6 DEF TreeInv

\* A step outside the rules.
LEMMA OutsideStep ==
    ASSUME TreeInv, at \notin InRule \cup {"error"}, at' \notin InRule,
           node' \in PolicyNodes, node'.rules = node.rules
    PROVE  TreeInv'
  BY DEF TreeInv, Rule

\* parseRule starts.
LEMMA RuleStarts ==
    ASSUME TreeInv, at \notin InRule \cup {"error"}, at' = "name",
           node' = [node EXCEPT !.rules = Append(@, NewRule)]
    PROVE  TreeInv'
<1>1. node \in PolicyNodes /\ node.rules \in Seq(RuleNodes)
  BY DEF TreeInv, PolicyNodes
<1>2. NewRule \in RuleNodes /\ NewRule.cond = << >>
  BY DEF NewRule, RuleNodes, Lits
<1> DEFINE rs == Append(node.rules, NewRule)
<1>3. /\ rs \in Seq(RuleNodes) /\ Len(rs) = Len(node.rules) + 1 /\ rs[Len(rs)] = NewRule
      /\ \A k \in 1..Len(node.rules) : rs[k] = node.rules[k]
  BY <1>1, <1>2, ElementAdded
<1> HIDE DEF rs
<1>4. node' = [node EXCEPT !.rules = rs]
  BY DEF rs
<1>5. node' \in PolicyNodes /\ node'.rules = rs
  BY <1>1, <1>3, <1>4 DEF PolicyNodes
<1>6. at' \in InRule /\ at' \in BeforeCondition /\ at' \notin InCondition
  BY DEF InRule, BeforeCondition, InCondition, InAtom, AfterAtom
<1>7. Len(node.rules) \in Nat /\ \A k \in 1..Len(node.rules) : RuleWhole(node.rules[k])
  BY <1>1 DEF TreeInv, Rule
<1>8. \A k \in 1..Len(rs) : k # Len(rs) => RuleWhole(rs[k])
  BY <1>3, <1>7
<1>9. Len(rs) > 0 /\ RuleSoFar(at', rs[Len(rs)])
  BY <1>2, <1>3, <1>6, <1>7 DEF RuleSoFar
<1> QED
  BY <1>5, <1>6, <1>8, <1>9 DEF TreeInv, Rule

\* The parser's current token.
LEMMA CurTyped ==
    ASSUME TextInv, at \in Places
    PROVE  cur.type \in TokenTypes /\ cur.lit \in Lits
<1>1. toks \in Seq(Tokens) /\ p \in 1..Len(toks)
  BY DEF TextInv
<1>2. toks[p] \in Tokens
  BY <1>1
<1> QED
  BY <1>2 DEF Tokens, Lits, cur

\* AND and OR are taken at one place.
LEMMA JoinsOnlyHere ==
    ASSUME NEW m \in Moves
    PROVE  m[2] \in {"AND", "OR"} => m[1] = "more"
<1>1. CASE m \in parsePolicy
  BY <1>1 DEF parsePolicy, RulesEnd
<1>2. CASE m \in parseRule
  BY <1>2 DEF parseRule
<1>3. CASE m \in parseCondition
  BY <1>3 DEF parseCondition
<1>4. CASE m \in parseAtom
  BY <1>4 DEF parseAtom
<1>5. CASE m \in parseValue
  BY <1>5 DEF parseValue
<1> QED
  BY <1>1, <1>2, <1>3, <1>4, <1>5 DEF Moves

\* Every token the parser takes keeps the tree in order.
LEMMA TakeKeeps ==
    ASSUME TextInv, TreeInv, NEW m \in Moves, Take(m)
    PROVE  TreeInv'
<1> DEFINE r == node.rules[Rule]
           a == r.cond[Len(r.cond)]
           type == cur.type
           lit == cur.lit
<1>1. at = m[1] /\ type = m[2] /\ at' = m[3] /\ node' = Grown
  BY DEF Take
<1>2. at \in Places
  BY <1>1, MovesInside
<1>3. type \in TokenTypes /\ lit \in Lits
  BY <1>2, CurTyped
<1>4. type \in {"AND", "OR"} => at = "more"
  BY <1>1, JoinsOnlyHere
<1>5. node \in PolicyNodes
  BY DEF TreeInv
<1>6. at \in InRule => r \in RuleNodes /\ RuleSoFar(at, r)
  BY <1>5 DEF TreeInv, PolicyNodes, Rule
<1>7. at \in InCondition => /\ r \in RuleNodes /\ CondSoFar(at, r.cond)
                            /\ a \in AtomNodes /\ AtomSoFar(at, a)
  <2> SUFFICES ASSUME at \in InCondition
               PROVE  /\ r \in RuleNodes /\ CondSoFar(at, r.cond)
                      /\ a \in AtomNodes /\ AtomSoFar(at, a)
    OBVIOUS
  <2>1. r \in RuleNodes /\ CondSoFar(at, r.cond)
    BY <1>6 DEF RuleSoFar, InRule
  <2> HIDE DEF r
  <2>2. r.cond \in Seq(AtomNodes) /\ Len(r.cond) > 0
    BY <2>1 DEF RuleNodes, CondSoFar
  <2>3. a \in AtomNodes
    BY <2>2
  <2> QED
    BY <2>1, <2>3 DEF CondSoFar
<1>8. CASE m \in parsePolicy
  <2>1. CASE m \in {<<"policy", "POLICY", "tenant">>, <<"tenant", "IDENT", "colon">>,
                    <<"colon", "COLON", "id">>, <<"open", "LBRACE", "rules">>,
                    <<"rules", "RBRACE", "parsed">>}
    <3>1. node' = node
      BY <1>1, <1>4, <2>1, GrownAt
    <3>2. at \notin InRule \cup {"error"} /\ at' \notin InRule
      BY <1>1, <2>1 DEF InRule, BeforeCondition, InCondition, InAtom, AfterAtom
    <3> QED
      BY <1>5, <3>1, <3>2, OutsideStep
  <2>2. CASE m = <<"id", "IDENT", "open">>
    <3>1. node' = [node EXCEPT !.tenant = lit]
      BY <1>1, <1>4, <2>2, GrownAt
    <3>2. at \notin InRule \cup {"error"} /\ at' \notin InRule
      BY <1>1, <2>2 DEF InRule, BeforeCondition, InCondition, InAtom, AfterAtom
    <3> HIDE DEF lit
    <3>3. node' \in PolicyNodes /\ node'.rules = node.rules
      BY <1>3, <1>5, <3>1 DEF PolicyNodes
    <3> QED
      BY <3>2, <3>3, OutsideStep
  <2>3. CASE m = <<"rules", "RULE", "name">>
    <3>1. node' = [node EXCEPT !.rules = Append(@, NewRule)]
      BY <1>1, <1>4, <2>3, GrownAt
    <3>2. at \notin InRule \cup {"error"} /\ at' = "name"
      BY <1>1, <2>3 DEF InRule, BeforeCondition, InCondition, InAtom, AfterAtom
    <3> QED
      BY <3>1, <3>2, RuleStarts
  <2> QED
    BY <1>8, <2>1, <2>2, <2>3 DEF parsePolicy, RulesEnd
<1>9. CASE m \in parseRule
  <2> HIDE DEF r, lit
  <2>1. CASE m = <<"name", "IDENT", "body">>
    <3> DEFINE new == [r EXCEPT !.name = lit]
    <3>1. node' = WithRule(new)
      BY <1>1, <1>4, <2>1, GrownAt DEF r, lit
    <3>2. at \in InRule /\ at \in BeforeCondition /\ at' \in InRule /\ at' \notin InCondition
      BY <1>1, <2>1 DEF InRule, BeforeCondition, InCondition, InAtom, AfterAtom
    <3>3. new \in RuleNodes /\ new.cond = << >>
      BY <1>3, <1>6, <3>2 DEF RuleNodes, RuleSoFar
    <3> HIDE DEF new
    <3>4. RuleSoFar(at', new)
      BY <3>2, <3>3 DEF RuleSoFar
    <3> QED
      BY <3>1, <3>2, <3>3, <3>4, RuleStep
  <2>2. CASE m = <<"body", "LBRACE", "when">>
    <3>1. node' = node
      BY <1>1, <1>4, <2>2, GrownAt
    <3>2. at \in InRule /\ at \in BeforeCondition /\ at' \in InRule /\ at' \notin InCondition
      BY <1>1, <2>2 DEF InRule, BeforeCondition, InCondition, InAtom, AfterAtom
    <3>3. RuleSoFar(at', r)
      BY <1>6, <3>2 DEF RuleSoFar
    <3> QED
      BY <1>6, <3>1, <3>2, <3>3, RuleStep DEF r
  <2>3. CASE m = <<"when", "WHEN", "field">>
    <3> DEFINE first == NewAtom("AND")
               c == <<first>>
               new == [r EXCEPT !.cond = c]
    <3>1. node' = WithRule(new)
      BY <1>1, <1>4, <2>3, GrownAt DEF r
    <3>2. at \in InRule /\ at' \in InRule /\ at' \notin BeforeCondition /\ at' = "field"
      BY <1>1, <2>3 DEF InRule, BeforeCondition, InCondition, InAtom, AfterAtom
    <3>3. first \in AtomNodes /\ first.join = "AND" /\ first.op = "none" /\ first.vals = << >>
      BY DEF NewAtom, AtomNodes, Lits
    <3> HIDE DEF first
    <3>4. c \in Seq(AtomNodes)
      BY <3>3
    <3>5. CondSoFar("field", c)
      BY <3>3 DEF CondSoFar, AtomSoFar, AfterAtom
    <3> HIDE DEF c
    <3>6. new \in RuleNodes /\ new.cond = c
      BY <1>6, <3>2, <3>4 DEF RuleNodes
    <3> HIDE DEF new
    <3>7. RuleSoFar(at', new)
      BY <3>2, <3>5, <3>6 DEF RuleSoFar
    <3> QED
      BY <3>1, <3>2, <3>6, <3>7, RuleStep
  <2>4. CASE m = <<"action", "IDENT", "because">>
    <3> DEFINE new == [r EXCEPT !.action = lit]
    <3>1. node' = WithRule(new)
      BY <1>1, <1>4, <2>4, GrownAt DEF r, lit
    <3>2. at \in InRule /\ at \in AfterAtom /\ at' \in InRule /\ at' \in AfterAtom
      BY <1>1, <2>4 DEF InRule, InCondition, AfterAtom
    <3>3. new \in RuleNodes /\ new.cond = r.cond
      BY <1>3, <1>6, <3>2 DEF RuleNodes
    <3> HIDE DEF new
    <3>4. RuleWhole(new)
      BY <1>6, <3>2, <3>3, CondRead DEF RuleWhole
    <3> QED
      BY <3>1, <3>2, <3>3, <3>4, WholeSoFar, RuleStep
  <2>5. CASE m = <<"because", "REASON", "reason">>
    <3>1. node' = node
      BY <1>1, <1>4, <2>5, GrownAt
    <3>2. at \in InRule /\ at \in AfterAtom /\ at' \in InRule /\ at' \in AfterAtom
      BY <1>1, <2>5 DEF InRule, InCondition, AfterAtom
    <3>3. RuleSoFar(at', r)
      BY <1>6, <3>2, CondRead, WholeSoFar
    <3> QED
      BY <1>6, <3>1, <3>2, <3>3, RuleStep DEF r
  <2>6. CASE m = <<"reason", "STRING", "end">>
    <3> DEFINE new == [r EXCEPT !.reason = lit]
    <3>1. node' = WithRule(new)
      BY <1>1, <1>4, <2>6, GrownAt DEF r, lit
    <3>2. at \in InRule /\ at \in AfterAtom /\ at' \in InRule /\ at' \in AfterAtom
      BY <1>1, <2>6 DEF InRule, InCondition, AfterAtom
    <3>3. new \in RuleNodes /\ new.cond = r.cond
      BY <1>3, <1>6, <3>2 DEF RuleNodes
    <3> HIDE DEF new
    <3>4. RuleWhole(new)
      BY <1>6, <3>2, <3>3, CondRead DEF RuleWhole
    <3> QED
      BY <3>1, <3>2, <3>3, <3>4, WholeSoFar, RuleStep
  <2>7. CASE m = <<"end", "RBRACE", "rules">>
    <3>1. node' = node
      BY <1>1, <1>4, <2>7, GrownAt
    <3>2. at \in InRule /\ at \in AfterAtom /\ at' = "rules"
      BY <1>1, <2>7 DEF InRule, InCondition, AfterAtom
    <3>3. RuleWhole(r)
      BY <1>6, <3>2, CondRead
    <3> QED
      BY <1>6, <3>1, <3>2, <3>3, RuleStep DEF r
  <2> QED
    BY <1>9, <2>1, <2>2, <2>3, <2>4, <2>5, <2>6, <2>7 DEF parseRule
<1>10. CASE m \in parseCondition
  <2> HIDE DEF r, type
  <2>1. at = "more" /\ at \in InRule /\ at \in AfterAtom
    BY <1>1, <1>10 DEF parseCondition, InRule, InCondition, AfterAtom
  <2>2. r \in RuleNodes /\ RuleWhole(r)
    BY <1>6, <2>1, CondRead
  <2>3. CASE type \in {"AND", "OR"} /\ at' = "field"
    <3> DEFINE next == NewAtom(type)
               c == Append(r.cond, next)
               new == [r EXCEPT !.cond = c]
    <3>1. node' = WithRule(new)
      BY <1>1, <1>4, <2>1, <2>3, GrownAt DEF r, type
    <3>2. at' \in InRule /\ at' \notin BeforeCondition
      BY <2>3 DEF InRule, BeforeCondition, InCondition, InAtom
    <3>3. next \in AtomNodes /\ next.op = "none" /\ next.vals = << >>
      BY <2>3 DEF NewAtom, AtomNodes, Lits
    <3> HIDE DEF next
    <3>4. r.cond \in Seq(AtomNodes) /\ Len(r.cond) > 0 /\ Len(r.cond) \in Nat
      BY <2>2 DEF RuleNodes, RuleWhole
    <3>5. /\ c \in Seq(AtomNodes) /\ Len(c) = Len(r.cond) + 1 /\ c[Len(c)] = next
          /\ \A k \in 1..Len(r.cond) : c[k] = r.cond[k]
      BY <3>3, <3>4, ElementAdded
    <3> HIDE DEF c
    <3>6. new \in RuleNodes /\ new.cond = c
      BY <2>2, <3>5 DEF RuleNodes
    <3> HIDE DEF new
    <3>7. AtomSoFar("field", next)
      BY <3>3 DEF AtomSoFar, AfterAtom
    <3>8. c[1].join = "AND" /\ \A k \in 1..(Len(c) - 1) : AtomWhole(c[k])
      BY <2>2, <3>4, <3>5 DEF RuleWhole
    <3>9. CondSoFar("field", c)
      BY <3>4, <3>5, <3>7, <3>8 DEF CondSoFar
    <3>10. RuleSoFar(at', new)
      BY <2>3, <3>2, <3>6, <3>9 DEF RuleSoFar
    <3> QED
      BY <2>1, <3>1, <3>2, <3>6, <3>10, RuleStep
  <2>4. CASE type = "ACTION" /\ at' = "action"
    <3>1. node' = node
      BY <1>1, <1>4, <2>1, <2>4, GrownAt DEF type
    <3>2. at' \in InRule /\ at' \in AfterAtom
      BY <2>4 DEF InRule, InCondition, AfterAtom
    <3>3. RuleSoFar(at', r)
      BY <2>2, <3>2, WholeSoFar
    <3> QED
      BY <2>1, <2>2, <3>1, <3>2, <3>3, RuleStep DEF r
  <2> QED
    BY <1>1, <1>10, <2>3, <2>4 DEF parseCondition
<1>11. CASE m \in parseAtom \cup parseValue
  <2>1. at \in InAtom /\ at \in InRule /\ at \in InCondition
    BY <1>1, <1>11 DEF parseAtom, parseValue, InRule, InCondition, InAtom
  <2>2. at' \in InCondition /\ at' \in InRule
    BY <1>1, <1>11 DEF parseAtom, parseValue, InRule, InCondition, InAtom, AfterAtom
  <2>3. r \in RuleNodes /\ CondSoFar(at, r.cond) /\ a \in AtomNodes /\ AtomSoFar(at, a)
    BY <1>7, <2>1
  <2>4. ASSUME NEW new \in AtomNodes, new.join = a.join, node' = WithRule(WithAtom(r, new)),
               AtomSoFar(at', new)
        PROVE  TreeInv'
    <3> HIDE DEF r
    <3>1. WithAtom(r, new) \in RuleNodes /\ RuleSoFar(at', WithAtom(r, new))
      BY <2>2, <2>3, <2>4, AtomStep
    <3> QED
      BY <2>1, <2>2, <2>4, <3>1, RuleStep
  <2>5. ASSUME node' = node, AtomSoFar(at', a)
        PROVE  TreeInv'
    <3>1. CondSoFar(at', r.cond)
      BY <2>3, <2>5 DEF CondSoFar
    <3>2. at' \notin BeforeCondition
      BY <2>2 DEF InCondition, InAtom, AfterAtom, BeforeCondition
    <3>3. RuleSoFar(at', r)
      BY <3>1, <3>2 DEF RuleSoFar
    <3> QED
      BY <2>1, <2>2, <2>3, <2>5, <3>3, RuleStep
  <2>6. CASE m = <<"field", "IDENT", "op">>
    <3> DEFINE new == [a EXCEPT !.field = lit]
    <3>1. node' = WithRule(WithAtom(r, new))
      BY <1>1, <1>4, <2>6, GrownAt
    <3> HIDE DEF a, lit
    <3>2. new \in AtomNodes /\ new.join = a.join /\ new.op = a.op /\ new.vals = a.vals
      BY <1>3, <2>3 DEF AtomNodes
    <3> HIDE DEF new
    <3>3. AtomSoFar(at', new)
      BY <1>1, <2>3, <2>6, <3>2 DEF AtomSoFar, AfterAtom
    <3> QED
      BY <2>4, <3>1, <3>2, <3>3
  <2>7. CASE at = "op" /\ (\/ type = "NOT_IN" /\ at' = "list"
                           \/ type \in {"GT", "LT", "EQ"} /\ at' = "value")
    <3> DEFINE new == [a EXCEPT !.op = type]
    <3>1. node' = WithRule(WithAtom(r, new))
      BY <1>1, <1>4, <2>7, GrownAt
    <3> HIDE DEF a, type
    <3>2. new \in AtomNodes /\ new.join = a.join /\ new.op = type /\ new.vals = a.vals
      BY <1>3, <2>3 DEF AtomNodes
    <3> HIDE DEF new
    <3>3. AtomSoFar(at', new)
      BY <2>3, <2>7, <3>2 DEF AtomSoFar, AfterAtom
    <3> QED
      BY <2>4, <3>1, <3>2, <3>3
  <2>8. CASE type \in {"STRING", "NUMBER"} /\ (\/ at = "value" /\ at' = "more"
                                               \/ at \in {"member", "comma"} /\ at' = "comma")
    <3> DEFINE new == [a EXCEPT !.vals = Append(@, lit)]
    <3>1. node' = WithRule(WithAtom(r, new))
      BY <1>1, <1>4, <2>8, GrownAt
    <3> HIDE DEF a, lit
    <3>2. a.vals \in Seq(Lits) /\ Append(a.vals, lit) \in Seq(Lits)
          /\ (a.vals = << >> => Len(Append(a.vals, lit)) = 1)
      BY <1>3, <2>3 DEF AtomNodes
    <3>3. new \in AtomNodes /\ new.join = a.join /\ new.op = a.op /\ new.vals = Append(a.vals, lit)
      BY <2>3, <3>2 DEF AtomNodes
    <3> HIDE DEF new
    <3>4. AtomSoFar(at', new)
      BY <2>3, <2>8, <3>2, <3>3 DEF AtomSoFar, AfterAtom, AtomWhole
    <3> QED
      BY <2>4, <3>1, <3>3, <3>4
  <2>9. CASE m \in {<<"list", "LBRACKET", "member">>, <<"member", "RBRACKET", "more">>,
                    <<"comma", "COMMA", "member">>, <<"comma", "RBRACKET", "more">>}
    <3>1. node' = node
      BY <1>1, <1>4, <2>9, GrownAt
    <3> HIDE DEF a
    <3>2. a.op = "NOT_IN"
      BY <1>1, <2>3, <2>9 DEF AtomSoFar
    <3>3. AtomSoFar(at', a)
      BY <1>1, <2>9, <3>2 DEF AtomSoFar, AfterAtom, AtomWhole
    <3> QED
      BY <2>5, <3>1, <3>3
  <2>10. CASE m \in {<<"op", o, "value">> : o \in {"GT", "LT", "EQ"}} \cup {<<"op", "NOT_IN", "list">>}
    <3> HIDE DEF type
    <3> QED
      BY <1>1, <2>7, <2>10
  <2>11. CASE m \in {<<"member", "STRING", "comma">>, <<"comma", "STRING", "comma">>,
                     <<"value", "STRING", "more">>, <<"value", "NUMBER", "more">>}
    <3> HIDE DEF type
    <3> QED
      BY <1>1, <2>8, <2>11
  <2> QED
    BY <1>11, <2>6, <2>9, <2>10, <2>11 DEF parseAtom, parseValue
<1> QED
  BY <1>8, <1>9, <1>10, <1>11 DEF Moves

\* The load starts with an empty tree.
LEMMA TreeStarts == Init => TreeInv
<1> SUFFICES ASSUME Init PROVE TreeInv
  OBVIOUS
<1>1. at = "lex" /\ node = NewPolicy
  BY DEF Init, TextInit
<1>2. node \in PolicyNodes /\ Len(node.rules) = 0
  BY <1>1 DEF NewPolicy, PolicyNodes, Lits
<1>3. at \notin InRule
  BY <1>1 DEF InRule, BeforeCondition, InCondition, InAtom, AfterAtom
<1> QED
  BY <1>2, <1>3 DEF TreeInv, Rule

\* Lex, Compile and New's return keep the tree in order as well.
LEMMA TreeKeeps == TextInv /\ TreeInv /\ [Next]_vars => TreeInv'
<1> SUFFICES ASSUME TextInv, TreeInv, [Next]_vars PROVE TreeInv'
  OBVIOUS
<1>1. ASSUME NEW place \in {"lex", "policy", "parsed", "loaded", "error", "serving"}
      PROVE  place \notin InRule
  BY DEF InRule, BeforeCondition, InCondition, InAtom, AfterAtom
<1>2. ASSUME node' = node, at' = "error" PROVE TreeInv'
  BY <1>1, <1>2 DEF TreeInv, Rule
<1>3. CASE ParseStep
  <2>1. CASE Lex
    <3>1. at = "lex" /\ node' = node /\ at' \in {"lex", "policy", "error"}
      BY <2>1, LexEffect
    <3> QED
      BY <1>1, <3>1 DEF TreeInv, Rule
  <2>2. CASE ParseError
    BY <1>2, <2>2 DEF ParseError
  <2>3. ASSUME NEW m \in Moves, Take(m) PROVE TreeInv'
    BY <2>3, TakeKeeps
  <2> QED
    BY <1>3, <2>1, <2>2, <2>3 DEF ParseStep, ParseText
<1>4. CASE CompileStep
  <2>1. at = "parsed" /\ node' = node /\ at' \in {"loaded", "error"}
    BY <1>4 DEF CompileStep
  <2> QED
    BY <1>1, <2>1 DEF TreeInv, Rule
<1>5. CASE Serve
  <2>1. at' = "serving" /\ node' = NewPolicy
    BY <1>5 DEF Serve
  <2>2. node' \in PolicyNodes /\ Len(node'.rules) = 0
    BY <2>1 DEF NewPolicy, PolicyNodes, Lits
  <2> QED
    BY <1>1, <2>1, <2>2 DEF TreeInv, Rule
<1>6. CASE UNCHANGED textVars
  BY <1>6 DEF textVars, TreeInv, Rule
<1>7. ParseStep \/ CompileStep \/ Serve \/ UNCHANGED textVars
  BY NextCases DEF ScanStep, GuardrailBlocks, NoPolicy, ReadTotal, Judge, Request, Answer, vars
<1> QED
  BY <1>3, <1>4, <1>5, <1>6, <1>7

-----------------------------------------------------------------------------
(* What was cut off.  load may read only the beginning of the author's     *)
(* text, so the last token of what it read may be the beginning of a word. *)

\* The characters of a text w.
Written(w, i) == IF i <= Len(w) THEN w[i] ELSE NoChar

\* The token t stands in the text w from i to before j, and does not go on at j.
SymbolAt(w, t, i, j) ==
    /\ Written(w, i) \in DOMAIN Symbols /\ j = i + 1
    /\ t = [type |-> Symbols[Written(w, i)], lit |-> <<Written(w, i)>>]

EqualsAt(w, t, i, j) ==
    /\ Written(w, i) = "=" /\ Written(w, i + 1) = "=" /\ j = i + 2
    /\ t = [type |-> "EQ", lit |-> <<"=", "=">>]

StringAt(w, t, i, j) ==
    /\ Written(w, i) = Quote /\ j > i + 1 /\ Written(w, j - 1) = Quote
    /\ \A x \in (i + 1)..(j - 2) : Written(w, x) \notin {Quote, "\n"}
    /\ t = [type |-> "STRING", lit |-> SubSeq(w, i + 1, j - 2)]

NumberAt(w, t, i, j) ==
    /\ Written(w, i) \in Digits \/ (Written(w, i) = "-" /\ Written(w, i + 1) \in Digits)
    /\ \A x \in (i + 1)..(j - 1) : Written(w, x) \in Digits \cup {"."}
    /\ Written(w, j) \notin Digits \cup {"."}
    /\ t = [type |-> "NUMBER", lit |-> SubSeq(w, i, j - 1)]

WordAt(w, t, i, j) ==
    LET word == SubSeq(w, i, j - 1)
    IN  /\ Written(w, i) \in Letters
        /\ \A x \in i..(j - 1) : Written(w, x) \in IdentContinue
        /\ Written(w, j) \notin IdentContinue
        /\ t = [type |-> IF word \in DOMAIN Keywords THEN Keywords[word] ELSE "IDENT", lit |-> word]

TokenAt(w, t, i, j) ==
    \/ SymbolAt(w, t, i, j)
    \/ EqualsAt(w, t, i, j)
    \/ StringAt(w, t, i, j)
    \/ NumberAt(w, t, i, j)
    \/ WordAt(w, t, i, j)

\* Nothing but space and comments from i to before j.
Gap(w, i, j) ==
    /\ i <= j
    /\ \A x \in i..(j - 1) :
          \/ Written(w, x) \in Space
          \/ \E y \in i..x : Written(w, y) = "#" /\ \A z \in y..x : Written(w, z) # "\n"

\* Where the n-th token ends.
Behind(ends, n) == IF n = 0 THEN 1 ELSE ends[n]

\* Places for n tokens, one after the other, within the first m characters.
InOrder(w, m, n, starts, ends) ==
    /\ starts \in [1..n -> Nat] /\ ends \in [1..n -> Nat]
    /\ \A k \in 1..n : /\ 1 <= starts[k] /\ starts[k] < ends[k] /\ ends[k] <= m + 1
                       /\ Gap(w, Behind(ends, k - 1), starts[k])

\* The tokens of ts at these places: those of the text, except that the last may
\* be cut, which a brace cannot be.
Read(w, m, ts, n, starts, ends) ==
    /\ InOrder(w, m, n, starts, ends)
    /\ \A k \in 1..n :
          /\ ts[k].type # "EOF"
          /\ \/ TokenAt(w, ts[k], starts[k], ends[k])
             \/ k = n /\ ends[k] = m + 1 /\ ts[k].type # "RBRACE"

\* The tokens read, and the brace that ended the policy.
CutInv ==
    /\ Len(src) <= Len(text.src)
    /\ at = "lex" => \E starts, ends : /\ Read(text.src, Len(src), toks, Len(toks), starts, ends)
                                       /\ Gap(text.src, Behind(ends, Len(toks)), pos)
    /\ at \in Places \cup {"parsed", "loaded"} =>
          Len(toks) > 0 /\ \E starts, ends : Read(text.src, Len(src), toks, Len(toks) - 1, starts, ends)
    /\ at \in {"parsed", "loaded"} => p - 1 \in 1..(Len(toks) - 1) /\ toks[p - 1].type = "RBRACE"

\* What load read is there in the author's text.
LEMMA ReadIsWritten ==
    ASSUME TextInv, Len(src) <= Len(text.src)
    PROVE  /\ \A i \in 1..Len(src) : Written(text.src, i) = Char(i)
           /\ \A i, j \in Int : i >= 1 /\ j <= Len(src) => SubSeq(src, i, j) = SubSeq(text.src, i, j)
<1>1. text.src \in Seq(STRING) /\ src \in Seq(STRING) /\ Len(src) \in Nat /\ Len(text.src) \in Nat
  BY TextAssumption DEF TextInv
<1>2. \A i \in 1..Len(src) : src[i] = text.src[i]
  <2>1. src = SubSeq(text.src, 1, Len(src))
    BY DEF TextInv
  <2> DEFINE n == Len(src)
  <2>2. n \in Nat /\ n <= Len(text.src)
    BY <1>1
  <2> HIDE DEF n
  <2>3. \A i \in 1..n : SubSeq(text.src, 1, n)[i] = text.src[i]
    BY <1>1, <2>2
  <2> QED
    BY <2>1, <2>3 DEF n
<1>3. \A i \in 1..Len(src) : Written(text.src, i) = Char(i)
  BY <1>1, <1>2 DEF Written, Char
<1>4. ASSUME NEW i \in Int, NEW j \in Int, i >= 1, j <= Len(src)
      PROVE  SubSeq(src, i, j) = SubSeq(text.src, i, j)
  BY <1>1, <1>2, <1>4
<1> QED
  BY <1>3, <1>4

\* The run Past leaves behind, and where it stops.
LEMMA PastRun ==
    ASSUME src \in Seq(STRING), NEW i \in 1..(Len(src) + 1), NEW S, NoChar \notin S
    PROVE  /\ \A x \in i..(Past(i, S) - 1) : Char(x) \in S
           /\ Char(Past(i, S)) \notin S
<1> DEFINE T == {j \in i..(Len(src) + 1) : Char(j) \notin S}
<1>1. Len(src) \in Nat
  OBVIOUS
<1>2. Len(src) + 1 \in T
  BY <1>1 DEF Char
<1>3. T \subseteq Nat
  BY <1>1
<1>4. Past(i, S) = Min(T)
  BY DEF Past
<1>5. Min(T) \in T /\ \A y \in T : Min(T) =< y
  <2> HIDE DEF T
  <2> QED
    BY <1>2, <1>3, MinIn
<1>6. Min(T) \in i..(Len(src) + 1) /\ Char(Min(T)) \notin S
  BY <1>5
<1>7. ASSUME NEW x \in i..(Min(T) - 1) PROVE Char(x) \in S
  <2>1. x \in i..(Len(src) + 1) /\ ~(Min(T) =< x)
    <3> HIDE DEF T
    <3> QED
      BY <1>1, <1>6
  <2> QED
    BY <1>5, <2>1
<1> QED
  BY <1>4, <1>6, <1>7

\* The run UpTo leaves behind.
LEMMA UpToRun ==
    ASSUME src \in Seq(STRING), NEW i \in 1..(Len(src) + 1), NEW S
    PROVE  \A x \in i..(UpTo(i, S) - 1) : Char(x) \notin S
<1> DEFINE T == {j \in i..(Len(src) + 1) : Char(j) \in S \cup {NoChar}}
<1>1. Len(src) \in Nat
  OBVIOUS
<1>2. Len(src) + 1 \in T
  BY <1>1 DEF Char
<1>3. T \subseteq Nat
  BY <1>1
<1>4. UpTo(i, S) = Min(T)
  BY DEF UpTo
<1>5. Min(T) \in T /\ \A y \in T : Min(T) =< y
  <2> HIDE DEF T
  <2> QED
    BY <1>2, <1>3, MinIn
<1>6. Min(T) \in i..(Len(src) + 1)
  BY <1>5
<1>7. ASSUME NEW x \in i..(Min(T) - 1) PROVE Char(x) \notin S
  <2>1. x \in i..(Len(src) + 1) /\ ~(Min(T) =< x)
    <3> HIDE DEF T
    <3> QED
      BY <1>1, <1>6
  <2> QED
    BY <1>5, <2>1
<1> QED
  BY <1>4, <1>7

\* No symbol is the end of the text, and no word that or a brace.
LEMMA TypesApart ==
    /\ \A c \in DOMAIN Symbols : Symbols[c] # "EOF"
    /\ \A w : (IF w \in DOMAIN Keywords THEN Keywords[w] ELSE "IDENT") \notin {"EOF", "RBRACE"}
<1>1. \A c \in DOMAIN Symbols : Symbols[c] # "EOF"
  BY DEF Symbols
<1>2. \A w \in DOMAIN Keywords : Keywords[w] \in Range(Keywords)
  BY DEF Range
<1>3. \A w \in DOMAIN Keywords : Keywords[w] \notin {"EOF", "RBRACE"}
  BY <1>2, TextAssumption
<1> QED
  BY <1>1, <1>3

\* What Lex steps over, and what it adds.
LEMMA LexReads ==
    ASSUME TextInv, Len(src) <= Len(text.src), Lex
    PROVE  \/ toks' = toks /\ at' = "lex" /\ Gap(text.src, pos, pos')
           \/ /\ at' = "lex" /\ pos <= Len(src) /\ pos < pos' /\ pos' \in Nat /\ pos' <= Len(src) + 1
              /\ \E t : /\ toks' = Append(toks, t) /\ t \in Tokens /\ t.type # "EOF"
                        /\ \/ TokenAt(text.src, t, pos, pos')
                           \/ pos' = Len(src) + 1 /\ t.type # "RBRACE"
           \/ at' = "policy"
           \/ at' = "error"
<1>1. src \in Seq(STRING) /\ Len(src) \in Nat /\ pos \in 1..(Len(src) + 1) /\ pos \in Nat
  BY DEF TextInv
<1>2. /\ \A i \in 1..Len(src) : Written(text.src, i) = Char(i)
      /\ \A i, j \in Int : i >= 1 /\ j <= Len(src) => SubSeq(src, i, j) = SubSeq(text.src, i, j)
  BY ReadIsWritten
<1>3. pos' \in 1..(Len(src) + 1) /\ at = "lex"
  BY LexEffect
<1>4. ASSUME NEW i \in Nat, Char(i) # NoChar PROVE i <= Len(src)
  BY <1>1, <1>4, CharInside
<1>5. CASE SkipSpace
  <2> DEFINE next == Past(pos, Space)
  <2>1. toks' = toks /\ at' = "lex" /\ pos' = next
    BY <1>3, <1>5 DEF SkipSpace, Skip
  <2>2. next \in pos..(Len(src) + 1) /\ \A x \in pos..(next - 1) : Char(x) \in Space
    BY <1>1, PastIn, PastRun, Characters
  <2> HIDE DEF next
  <2>3. ASSUME NEW x \in pos..(next - 1) PROVE Written(text.src, x) \in Space
    <3>1. x \in 1..Len(src)
      BY <1>1, <2>2
    <3> QED
      BY <1>2, <2>2, <3>1
  <2>4. pos <= next
    BY <1>1, <2>2
  <2>5. Gap(text.src, pos, next)
    BY <2>3, <2>4, Zenon DEF Gap
  <2> QED
    BY <2>1, <2>5
<1>6. CASE SkipComment
  <2> DEFINE S == {"\n"}
             next == UpTo(pos, S)
  <2>1. toks' = toks /\ at' = "lex" /\ pos' = next /\ Char(pos) = "#"
    BY <1>3, <1>6 DEF SkipComment, Skip, CommentEnd
  <2>2. next \in pos..(Len(src) + 1) /\ \A x \in pos..(next - 1) : Char(x) \notin S
    BY <1>1, UpToIn, UpToRun
  <2> HIDE DEF next, S
  <2>3. pos <= Len(src)
    BY <1>1, <1>4, <2>1, Characters
  <2>4. Written(text.src, pos) = "#"
    BY <1>1, <1>2, <2>1, <2>3
  <2>5. ASSUME NEW x \in pos..(next - 1) PROVE Written(text.src, x) # "\n"
    <3>1. x \in 1..Len(src)
      BY <1>1, <2>2
    <3>2. Written(text.src, x) \notin S
      BY <1>2, <2>2, <3>1
    <3> QED
      BY <3>2, Zenon DEF S
  <2>6. ASSUME NEW x \in pos..(next - 1)
        PROVE  \E y \in pos..x : Written(text.src, y) = "#" /\ \A z \in y..x : Written(text.src, z) # "\n"
    <3>1. pos \in pos..x /\ \A z \in pos..x : z \in pos..(next - 1)
      BY <1>1, <2>2
    <3> QED
      BY <2>4, <2>5, <3>1, Zenon
  <2>7. pos <= next
    BY <1>1, <2>2
  <2>8. Gap(text.src, pos, next)
    BY <2>6, <2>7, Zenon DEF Gap
  <2> QED
    BY <2>1, <2>8
<1>7. ASSUME NEW type \in TokenTypes, NEW lit \in Seq(Chars), NEW next, Token(type, lit, next),
             type # "EOF", pos <= Len(src), pos < next,
             \/ TokenAt(text.src, [type |-> type, lit |-> lit], pos, next)
             \/ next = Len(src) + 1 /\ type # "RBRACE"
      PROVE  /\ at' = "lex" /\ pos <= Len(src) /\ pos < pos' /\ pos' \in Nat /\ pos' <= Len(src) + 1
             /\ \E t : /\ toks' = Append(toks, t) /\ t \in Tokens /\ t.type # "EOF"
                       /\ \/ TokenAt(text.src, t, pos, pos')
                          \/ pos' = Len(src) + 1 /\ t.type # "RBRACE"
  <2> DEFINE t == [type |-> type, lit |-> lit]
  <2>1. t \in Tokens /\ t.type = type
    BY DEF Tokens
  <2>2. toks' = Append(toks, t) /\ pos' = next /\ at' = "lex"
    BY <1>3, <1>7 DEF Token
  <2>3. pos' \in Nat /\ pos' <= Len(src) + 1
    BY <1>1, <1>3
  <2>4. TokenAt(text.src, t, pos, next) \/ (next = Len(src) + 1 /\ type # "RBRACE")
    BY <1>7
  <2> HIDE DEF t
  <2> QED
    BY <1>7, <2>1, <2>2, <2>3, <2>4
<1>8. CASE LexSymbol
  <2>1. Char(pos) \in DOMAIN Symbols /\ Token(Symbols[Char(pos)], <<Char(pos)>>, pos + 1)
    BY <1>8 DEF LexSymbol
  <2>2. pos <= Len(src)
    BY <1>1, <1>4, <2>1, SymbolTypes
  <2>3. Written(text.src, pos) = Char(pos) /\ Char(pos) \in Chars
    BY <1>1, <1>2, <2>2 DEF Char, Chars
  <2>4. Symbols[Char(pos)] \in TokenTypes /\ Symbols[Char(pos)] # "EOF" /\ <<Char(pos)>> \in Seq(Chars)
    BY <2>1, <2>3, SymbolTypes, TypesApart
  <2>5. TokenAt(text.src, [type |-> Symbols[Char(pos)], lit |-> <<Char(pos)>>], pos, pos + 1)
    BY <2>1, <2>3, Zenon DEF TokenAt, SymbolAt
  <2>6. pos < pos + 1
    BY <1>1
  <2> QED
    BY <1>7, <2>1, <2>2, <2>4, <2>5, <2>6
<1>9. CASE LexEquals
  <2>1. Char(pos) = "=" /\ Char(pos + 1) = "=" /\ Token("EQ", <<"=", "=">>, pos + 2)
    BY <1>9 DEF LexEquals
  <2>2. pos \in 1..Len(src) /\ pos + 1 \in 1..Len(src)
    BY <1>1, <1>4, <2>1, Characters
  <2>3. Written(text.src, pos) = "=" /\ Written(text.src, pos + 1) = "="
    BY <1>2, <2>1, <2>2
  <2>4. TokenAt(text.src, [type |-> "EQ", lit |-> <<"=", "=">>], pos, pos + 2)
    BY <2>3, Zenon DEF TokenAt, EqualsAt
  <2>5. "EQ" \in TokenTypes /\ "EQ" # "EOF" /\ "=" \in Chars
    BY DEF TokenTypes, Chars
  <2>6. \A c, d \in Chars : <<c, d>> \in Seq(Chars)
    OBVIOUS
  <2>7. <<"=", "=">> \in Seq(Chars) /\ pos <= Len(src) /\ pos < pos + 2
    BY <1>1, <2>2, <2>5, <2>6
  <2> QED
    BY <1>7, <2>1, <2>4, <2>5, <2>7
<1>10. CASE LexString
  <2> DEFINE q == QuoteAt
             lit == SubSeq(src, pos + 1, q - 1)
             S == {Quote, "\n"}
  <2>1. Char(pos) = Quote /\ Char(q) = Quote /\ Token("STRING", lit, q + 1)
    BY <1>10 DEF LexString, StringEnds
  <2>2. pos <= Len(src)
    BY <1>1, <1>4, <2>1, Characters
  <2>3. q = UpTo(pos + 1, S)
    BY DEF QuoteAt
  <2>4. q \in (pos + 1)..(Len(src) + 1) /\ \A x \in (pos + 1)..(q - 1) : Char(x) \notin S
    BY <1>1, <2>2, <2>3, UpToIn, UpToRun
  <2> HIDE DEF q, S
  <2>5. q \in 1..Len(src)
    BY <1>1, <1>4, <2>1, <2>4, Characters
  <2>6. lit = SubSeq(text.src, pos + 1, q - 1) /\ lit \in Seq(Chars)
    <3>1. lit = SubSeq(text.src, pos + 1, q - 1) /\ lit \in Seq(STRING)
      BY <1>1, <1>2, <2>4, <2>5
    <3>2. \A w \in Seq(STRING) : w \in Seq(Chars)
      BY DEF Chars
    <3> HIDE DEF lit
    <3> QED
      BY <3>1, <3>2
  <2> HIDE DEF lit
  <2>7. Written(text.src, pos) = Quote /\ Written(text.src, q) = Quote
    BY <1>1, <1>2, <2>1, <2>2, <2>5
  <2>8. ASSUME NEW x \in (pos + 1)..(q - 1) PROVE Written(text.src, x) \notin S
    <3>1. x \in 1..Len(src)
      BY <1>1, <2>5
    <3> QED
      BY <1>2, <2>4, <3>1
  <2>9. (q + 1) - 1 = q /\ (q + 1) - 2 = q - 1 /\ q + 1 > pos + 1 /\ pos < q + 1
    BY <1>1, <2>4, <2>5
  <2>10. TokenAt(text.src, [type |-> "STRING", lit |-> lit], pos, q + 1)
    BY <2>6, <2>7, <2>8, <2>9, Zenon DEF TokenAt, StringAt, S
  <2>11. "STRING" \in TokenTypes /\ "STRING" # "EOF"
    BY DEF TokenTypes
  <2> QED
    BY <1>7, <2>1, <2>2, <2>6, <2>9, <2>10, <2>11
<1>11. CASE LexNumber
  <2> DEFINE S == Digits \cup {"."}
             next == Past(pos + 1, S)
             lit == SubSeq(src, pos, next - 1)
  <2>1. NumberHere /\ Token("NUMBER", lit, next)
    BY <1>11 DEF LexNumber
  <2>2. pos <= Len(src)
    BY <1>1, <1>4, <2>1, Characters DEF NumberHere
  <2>3. /\ next \in (pos + 1)..(Len(src) + 1) /\ Char(next) \notin S
        /\ \A x \in (pos + 1)..(next - 1) : Char(x) \in S
    <3>1. pos + 1 \in 1..(Len(src) + 1) /\ NoChar \notin S
      BY <1>1, <2>2, Characters
    <3> HIDE DEF S
    <3> QED
      BY <1>1, <3>1, PastIn, PastRun
  <2> HIDE DEF next, S
  <2>4. lit = SubSeq(text.src, pos, next - 1) /\ lit \in Seq(Chars)
    <3>1. lit = SubSeq(text.src, pos, next - 1) /\ lit \in Seq(STRING)
      BY <1>1, <1>2, <2>3
    <3>2. \A w \in Seq(STRING) : w \in Seq(Chars)
      BY DEF Chars
    <3> HIDE DEF lit
    <3> QED
      BY <3>1, <3>2
  <2> HIDE DEF lit
  <2>5. "NUMBER" \in TokenTypes /\ "NUMBER" # "EOF" /\ "NUMBER" # "RBRACE" /\ pos < next
    BY <1>1, <2>3 DEF TokenTypes
  <2>6. CASE next = Len(src) + 1
    BY <1>7, <2>1, <2>2, <2>4, <2>5, <2>6
  <2>7. CASE next # Len(src) + 1
    <3>1. next \in 1..Len(src) /\ \A x \in (pos + 1)..(next - 1) : x \in 1..Len(src)
      BY <1>1, <2>3, <2>7
    <3>2. Written(text.src, next) \notin S /\ \A x \in (pos + 1)..(next - 1) : Written(text.src, x) \in S
      BY <1>2, <2>3, <3>1
    <3>3. Written(text.src, pos) \in Digits \/ (Written(text.src, pos) = "-" /\ Written(text.src, pos + 1) \in Digits)
      <4>1. pos \in 1..Len(src) /\ pos + 1 \in 1..Len(src)
        BY <1>1, <2>3, <3>1
      <4> QED
        BY <1>2, <2>1, <4>1 DEF NumberHere
    <3>4. TokenAt(text.src, [type |-> "NUMBER", lit |-> lit], pos, next)
      BY <2>4, <3>2, <3>3, Zenon DEF TokenAt, NumberAt, S
    <3> QED
      BY <1>7, <2>1, <2>2, <2>4, <2>5, <3>4
  <2> QED
    BY <2>6, <2>7
<1>12. CASE LexIdent
  <2> DEFINE next == Past(pos, IdentContinue)
             word == SubSeq(src, pos, next - 1)
             type == IF word \in DOMAIN Keywords THEN Keywords[word] ELSE "IDENT"
  <2>1. Char(pos) \in Letters /\ Token(type, word, next)
    BY <1>12 DEF LexIdent
  <2>2. pos <= Len(src)
    BY <1>1, <1>4, <2>1, Characters
  <2>3. /\ next \in pos..(Len(src) + 1) /\ Char(next) \notin IdentContinue
        /\ \A x \in pos..(next - 1) : Char(x) \in IdentContinue
    BY <1>1, PastIn, PastRun, Characters
  <2>4. type \in TokenTypes /\ type \notin {"EOF", "RBRACE"}
    BY WordTypes, TypesApart
  <2> HIDE DEF next
  <2>5. pos < next
    <3>1. next # pos
      BY <2>1, <2>3 DEF IdentContinue
    <3> QED
      BY <1>1, <2>3, <3>1
  <2>6. word = SubSeq(text.src, pos, next - 1) /\ word \in Seq(Chars)
    <3>1. word = SubSeq(text.src, pos, next - 1) /\ word \in Seq(STRING)
      BY <1>1, <1>2, <2>3
    <3>2. \A w \in Seq(STRING) : w \in Seq(Chars)
      BY DEF Chars
    <3> HIDE DEF word
    <3> QED
      BY <3>1, <3>2
  <2> HIDE DEF word
  <2>7. CASE next = Len(src) + 1
    <3> HIDE DEF type
    <3> QED
      BY <1>7, <2>1, <2>2, <2>4, <2>5, <2>6, <2>7
  <2>8. CASE next # Len(src) + 1
    <3>1. next \in 1..Len(src) /\ \A x \in pos..(next - 1) : x \in 1..Len(src)
      BY <1>1, <2>3, <2>8
    <3>2. Written(text.src, next) \notin IdentContinue /\ \A x \in pos..(next - 1) : Written(text.src, x) \in IdentContinue
      BY <1>2, <2>3, <3>1
    <3>3. Written(text.src, pos) \in Letters
      BY <1>1, <1>2, <2>1, <2>2
    <3>4. TokenAt(text.src, [type |-> type, lit |-> word], pos, next)
      BY <2>6, <3>2, <3>3, Zenon DEF TokenAt, WordAt
    <3> HIDE DEF type
    <3> QED
      BY <1>7, <2>1, <2>2, <2>4, <2>5, <2>6, <3>4
  <2> QED
    BY <2>7, <2>8
<1>13. CASE LexEOF
  BY <1>13 DEF LexEOF
<1>14. CASE LexError
  BY <1>14 DEF LexError
<1> QED
  BY <1>5, <1>6, <1>8, <1>9, <1>10, <1>11, <1>12, <1>13, <1>14 DEF Lex

\* Space after space.
LEMMA GapsJoin ==
    ASSUME NEW w, NEW i \in Nat, NEW j \in Nat, NEW k \in Nat, Gap(w, i, j), Gap(w, j, k)
    PROVE  Gap(w, i, k)
<1> DEFINE Blank(from, x) ==
             \/ Written(w, x) \in Space
             \/ \E y \in from..x : Written(w, y) = "#" /\ \A z \in y..x : Written(w, z) # "\n"
<1>1. /\ i <= j /\ \A x \in i..(j - 1) : Blank(i, x)
      /\ j <= k /\ \A x \in j..(k - 1) : Blank(j, x)
  BY Zenon DEF Gap
<1>2. ASSUME NEW x \in j..(k - 1), Blank(j, x) PROVE Blank(i, x)
  <2>1. \A y \in j..x : y \in i..x
    BY <1>1
  <2> QED
    BY <1>2, <2>1, Zenon
<1> HIDE DEF Blank
<1>3. ASSUME NEW x \in i..(k - 1) PROVE Blank(i, x)
  <2>1. x \in i..(j - 1) \/ x \in j..(k - 1)
    BY <1>1
  <2> QED
    BY <1>1, <1>2, <2>1
<1>4. i <= k
  BY <1>1
<1> QED
  BY <1>3, <1>4, Zenon DEF Gap, Blank

\* One more token.  What stands before it cannot be cut.
LEMMA OneMoreRead ==
    ASSUME NEW w, NEW m \in Nat, NEW ts \in Seq(Tokens), NEW starts, NEW ends,
           Read(w, m, ts, Len(ts), starts, ends), NEW i \in Nat, Gap(w, Behind(ends, Len(ts)), i),
           1 <= i, i <= m, NEW j \in Nat, i < j, j <= m + 1, NEW t \in Tokens, t.type # "EOF",
           TokenAt(w, t, i, j) \/ (j = m + 1 /\ t.type # "RBRACE")
    PROVE  \E news, newe : /\ Read(w, m, Append(ts, t), Len(ts) + 1, news, newe)
                           /\ Gap(w, Behind(newe, Len(ts) + 1), j)
<1> DEFINE n == Len(ts)
           us == Append(ts, t)
           news == [k \in 1..(n + 1) |-> IF k = n + 1 THEN i ELSE starts[k]]
           newe == [k \in 1..(n + 1) |-> IF k = n + 1 THEN j ELSE ends[k]]
<1>1. n \in Nat /\ us[n + 1] = t /\ \A k \in 1..n : us[k] = ts[k]
  OBVIOUS
<1>2. /\ starts \in [1..n -> Nat] /\ ends \in [1..n -> Nat]
      /\ \A k \in 1..n : /\ 1 <= starts[k] /\ starts[k] < ends[k] /\ ends[k] <= m + 1
                         /\ Gap(w, Behind(ends, k - 1), starts[k])
  BY Zenon DEF Read, InOrder
<1>3. \A k \in 1..n : /\ ts[k].type # "EOF"
                      /\ \/ TokenAt(w, ts[k], starts[k], ends[k])
                         \/ k = n /\ ends[k] = m + 1 /\ ts[k].type # "RBRACE"
  BY Zenon DEF Read
<1>4. Behind(ends, n) <= i
  BY Zenon DEF Gap
<1> HIDE DEF n, us
<1>5. \A k \in 1..n : TokenAt(w, ts[k], starts[k], ends[k])
  <2> SUFFICES ASSUME NEW k \in 1..n, k = n, ends[k] = m + 1 PROVE FALSE
    BY <1>3
  <2> QED
    BY <1>1, <1>2, <1>4 DEF Behind
<1>6. news \in [1..(n + 1) -> Nat] /\ newe \in [1..(n + 1) -> Nat]
  BY <1>1, <1>2
<1>7. news[n + 1] = i /\ newe[n + 1] = j /\ \A k \in 1..n : news[k] = starts[k] /\ newe[k] = ends[k]
  BY <1>1
<1> HIDE DEF news, newe
<1>8. \A k \in 0..n : Behind(newe, k) = Behind(ends, k)
  BY <1>1, <1>7 DEF Behind
<1>9. ASSUME NEW k \in 1..(n + 1)
      PROVE  /\ 1 <= news[k] /\ news[k] < newe[k] /\ newe[k] <= m + 1
             /\ Gap(w, Behind(newe, k - 1), news[k])
             /\ us[k].type # "EOF"
             /\ \/ TokenAt(w, us[k], news[k], newe[k])
                \/ k = n + 1 /\ newe[k] = m + 1 /\ us[k].type # "RBRACE"
  <2>1. CASE k = n + 1
    <3>1. k - 1 = n /\ n \in 0..n
      BY <1>1, <2>1
    <3>2. Gap(w, Behind(newe, k - 1), news[k])
      BY <1>7, <1>8, <2>1, <3>1 DEF n
    <3> QED
      BY <1>1, <1>7, <2>1, <3>2
  <2>2. CASE k \in 1..n
    <3>1. k - 1 \in 0..n
      BY <1>1, <2>2
    <3>2. Gap(w, Behind(newe, k - 1), news[k])
      BY <1>2, <1>7, <1>8, <2>2, <3>1
    <3> QED
      BY <1>1, <1>2, <1>3, <1>5, <1>7, <2>2, <3>2
  <2> QED
    BY <1>1, <2>1, <2>2
<1>10. Read(w, m, us, n + 1, news, newe)
  BY <1>6, <1>9, Zenon DEF Read, InOrder
<1>11. Gap(w, Behind(newe, n + 1), j)
  <2>1. Behind(newe, n + 1) = j
    BY <1>1, <1>7 DEF Behind
  <2>2. j <= j /\ j..(j - 1) = {}
    OBVIOUS
  <2> QED
    BY <2>1, <2>2, Zenon DEF Gap
<1> QED
  BY <1>10, <1>11 DEF n, us

\* Before Lex there are no tokens.
LEMMA CutStarts == Init => CutInv
<1> SUFFICES ASSUME Init PROVE CutInv
  OBVIOUS
<1>1. at = "lex" /\ toks = << >> /\ pos = 1 /\ text \in Texts
  BY DEF Init, TextInit
<1>2. Len(src) <= Len(text.src)
  <2>1. text.src \in Seq(STRING)
    BY <1>1, TextAssumption
  <2>2. PICK n \in 0..Len(text.src) : src = SubSeq(text.src, 1, n)
    BY DEF Init, TextInit
  <2> QED
    BY <2>1, <2>2
<1>3. at \notin Places \cup {"parsed", "loaded"}
  BY <1>1, PlacesInside DEF Outside
<1> DEFINE none == [k \in 1..0 |-> 0]
<1>4. none \in [1..0 -> Nat] /\ 1..0 = {} /\ Len(toks) = 0
  BY <1>1
<1> HIDE DEF none
<1>5. Read(text.src, Len(src), toks, Len(toks), none, none)
  BY <1>4 DEF Read, InOrder
<1>6. Gap(text.src, Behind(none, Len(toks)), pos)
  <2>1. 1 <= 1 /\ 1..(1 - 1) = {} /\ Behind(none, Len(toks)) = 1
    BY <1>4 DEF Behind
  <2> QED
    BY <1>1, <2>1, Zenon DEF Gap
<1> QED
  BY <1>1, <1>2, <1>3, <1>5, <1>6 DEF CutInv

\* Lex keeps the tokens in order.
LEMMA LexKeepsCut ==
    ASSUME TextInv, CutInv, Lex
    PROVE  CutInv'
<1>1. /\ at = "lex" /\ text' = text /\ src' = src /\ Len(src) <= Len(text.src)
      /\ toks \in Seq(Tokens) /\ src \in Seq(STRING) /\ pos \in 1..(Len(src) + 1) /\ pos' \in 1..(Len(src) + 1)
  BY LexEffect DEF TextInv, CutInv
<1>2. PICK starts, ends : /\ Read(text.src, Len(src), toks, Len(toks), starts, ends)
                          /\ Gap(text.src, Behind(ends, Len(toks)), pos)
  BY <1>1 DEF CutInv
<1> DEFINE w == text.src
           m == Len(src)
<1>3. m \in Nat /\ pos \in Nat /\ pos' \in Nat /\ Behind(ends, Len(toks)) \in Nat
  <2>1. Len(toks) \in Nat
    BY <1>1
  <2>2. ends \in [1..Len(toks) -> Nat]
    BY <1>2 DEF Read, InOrder
  <2> QED
    BY <1>1, <2>1, <2>2 DEF Behind
<1>4. "lex" \notin Places \cup {"parsed", "loaded"} /\ "error" \notin Places \cup {"parsed", "loaded", "lex"}
      /\ "policy" \notin {"parsed", "loaded", "lex"}
  BY PlacesInside DEF Outside
<1>5. CASE at' = "lex" /\ toks' = toks /\ Gap(w, pos, pos')
  <2>1. Gap(w, Behind(ends, Len(toks)), pos')
    BY <1>2, <1>3, <1>5, GapsJoin
  <2> QED
    BY <1>1, <1>2, <1>4, <1>5, <2>1 DEF CutInv
<1>6. CASE /\ at' = "lex" /\ pos <= m /\ pos < pos' /\ pos' \in Nat /\ pos' <= m + 1
           /\ \E t : /\ toks' = Append(toks, t) /\ t \in Tokens /\ t.type # "EOF"
                     /\ \/ TokenAt(w, t, pos, pos')
                        \/ pos' = m + 1 /\ t.type # "RBRACE"
  <2>1. PICK t : /\ toks' = Append(toks, t) /\ t \in Tokens /\ t.type # "EOF"
                 /\ \/ TokenAt(w, t, pos, pos')
                    \/ pos' = m + 1 /\ t.type # "RBRACE"
    BY <1>6
  <2>2. 1 <= pos
    BY <1>1
  <2>3. \E news, newe : /\ Read(w, m, Append(toks, t), Len(toks) + 1, news, newe)
                        /\ Gap(w, Behind(newe, Len(toks) + 1), pos')
    BY <1>1, <1>2, <1>3, <1>6, <2>1, <2>2, OneMoreRead
  <2>4. Len(toks') = Len(toks) + 1
    BY <1>1, <2>1
  <2> QED
    BY <1>1, <1>4, <1>6, <2>1, <2>3, <2>4 DEF CutInv
<1>7. CASE at' = "policy" /\ toks' = Append(toks, [type |-> "EOF", lit |-> << >>])
  <2> DEFINE eof == [type |-> "EOF", lit |-> << >>]
  <2>1. eof \in Tokens
    BY DEF Tokens, TokenTypes
  <2>2. toks' = Append(toks, eof)
    BY <1>7
  <2> HIDE DEF eof
  <2>3. Len(toks') > 0 /\ Len(toks') - 1 = Len(toks) /\ \A k \in 1..Len(toks) : toks'[k] = toks[k]
    BY <1>1, <2>1, <2>2
  <2>4. Read(w, m, toks', Len(toks), starts, ends)
    BY <1>2, <2>3 DEF Read
  <2> QED
    BY <1>1, <1>4, <1>7, <2>3, <2>4 DEF CutInv
<1>8. CASE at' = "error"
  BY <1>1, <1>4, <1>8 DEF CutInv
<1>9. at' = "policy" => toks' = Append(toks, [type |-> "EOF", lit |-> << >>])
  BY <1>1, <1>4, LexEffect
<1> QED
  BY <1>1, <1>5, <1>6, <1>7, <1>8, <1>9, LexReads

\* Only the closing brace ends the policy.
LEMMA BraceEnds ==
    ASSUME NEW m \in Moves, m[3] = "parsed"
    PROVE  m[2] = "RBRACE"
<1>1. CASE m \in parsePolicy
  BY <1>1 DEF parsePolicy, RulesEnd
<1>2. CASE m \in parseRule
  BY <1>2 DEF parseRule
<1>3. CASE m \in parseCondition
  BY <1>3 DEF parseCondition
<1>4. CASE m \in parseAtom
  BY <1>4 DEF parseAtom
<1>5. CASE m \in parseValue
  BY <1>5 DEF parseValue
<1> QED
  BY <1>1, <1>2, <1>3, <1>4, <1>5 DEF Moves

\* The parser leaves the tokens alone.
LEMMA ParserKeepsCut ==
    ASSUME CutInv, text' = text, src' = src, toks' = toks,
           at \in Places \cup {"parsed", "loaded"}, at' \in Places \cup {"parsed", "loaded", "error"},
           at' \in {"parsed", "loaded"} => p' - 1 \in 1..(Len(toks) - 1) /\ toks[p' - 1].type = "RBRACE"
    PROVE  CutInv'
<1>1. "lex" \notin Places /\ "error" \notin Places \cup {"parsed", "loaded", "lex"}
  BY PlacesInside DEF Outside
<1>2. at' # "lex"
  BY <1>1
<1> QED
  BY <1>1, <1>2 DEF CutInv

\* Once Lex has ended, its tokens stay as they are until New returns.
LEMMA CutKeeps == TextInv /\ CutInv /\ [Next]_vars => CutInv'
<1> SUFFICES ASSUME TextInv, CutInv, [Next]_vars PROVE CutInv'
  OBVIOUS
<1>1. {"lex", "error", "serving", "parsed", "loaded"} \cap Places = {}
  BY PlacesInside DEF Outside
<1>2. CASE ParseStep
  <2>1. CASE Lex
    BY <2>1, LexKeepsCut
  <2>2. CASE ParseError
    BY <1>1, <2>2, ParserKeepsCut DEF ParseError, lexVars
  <2>3. ASSUME NEW m \in Moves, Take(m) PROVE CutInv'
    <3>1. /\ at = m[1] /\ toks[p].type = m[2] /\ at' = m[3] /\ p' = p + 1
          /\ text' = text /\ src' = src /\ toks' = toks
      BY <2>3 DEF Take, cur, lexVars
    <3>2. at \in Places /\ m[2] # "EOF" /\ m[3] \in Places \cup {"parsed"}
      BY <3>1, MovesInside
    <3>3. toks \in Seq(Tokens) /\ p \in 1..Len(toks) /\ toks[Len(toks)].type = "EOF"
      BY <3>2 DEF TextInv
    <3>4. p # Len(toks)
      BY <3>1, <3>2, <3>3
    <3>5. p' - 1 = p /\ p \in 1..(Len(toks) - 1)
      BY <3>1, <3>3, <3>4
    <3>6. at' \in {"parsed", "loaded"} => toks[p' - 1].type = "RBRACE"
      BY <1>1, <3>1, <3>2, <3>5, BraceEnds
    <3> QED
      BY <3>1, <3>2, <3>5, <3>6, ParserKeepsCut
  <2> QED
    BY <1>2, <2>1, <2>2, <2>3 DEF ParseStep, ParseText
<1>3. CASE CompileStep
  <2>1. at = "parsed" /\ at' \in {"loaded", "error"} /\ text' = text /\ src' = src /\ toks' = toks /\ p' = p
    BY <1>3 DEF CompileStep, lexVars
  <2> QED
    BY <2>1, ParserKeepsCut DEF CutInv
<1>4. CASE Serve
  <2>1. at' = "serving" /\ src' = << >> /\ text' = text
    BY <1>4 DEF Serve
  <2>2. Len(src') = 0 /\ Len(text'.src) \in Nat
    BY <2>1, TextAssumption DEF TextInv
  <2> QED
    BY <1>1, <2>1, <2>2 DEF CutInv
<1>5. CASE UNCHANGED textVars
  BY <1>5 DEF textVars, lexVars, CutInv
<1>6. ParseStep \/ CompileStep \/ Serve \/ UNCHANGED textVars
  BY NextCases DEF ScanStep, GuardrailBlocks, NoPolicy, ReadTotal, Judge, Request, Answer, vars
<1> QED
  BY <1>2, <1>3, <1>4, <1>5, <1>6

\* A policy is made of the tokens of the author's text, from its beginning to a closing
\* brace that load read: the end of what load read cut none of them short, gave none
\* another meaning and closed nothing.
TakenAsWritten ==
    at \in {"parsed", "loaded"} =>
        /\ toks[p - 1].type = "RBRACE"
        /\ \E starts, ends :
              /\ InOrder(text.src, Len(src), p - 1, starts, ends)
              /\ \A k \in 1..(p - 1) : TokenAt(text.src, toks[k], starts[k], ends[k])

\* The token that may be cut is the last one, and the brace the parser took is not.
LEMMA CutTaken == TextInv /\ CutInv => TakenAsWritten
<1> SUFFICES ASSUME TextInv, CutInv, at \in {"parsed", "loaded"}
             PROVE  /\ toks[p - 1].type = "RBRACE"
                    /\ \E starts, ends :
                          /\ InOrder(text.src, Len(src), p - 1, starts, ends)
                          /\ \A k \in 1..(p - 1) : TokenAt(text.src, toks[k], starts[k], ends[k])
  BY DEF TakenAsWritten
<1> DEFINE w == text.src
           m == Len(src)
           q == p - 1
           n == Len(toks) - 1
<1>1. q \in 1..n /\ toks[q].type = "RBRACE"
  BY DEF CutInv
<1>2. n \in Int
  BY DEF TextInv
<1>3. PICK starts, ends : Read(w, m, toks, n, starts, ends)
  BY DEF CutInv
<1> DEFINE news == [k \in 1..q |-> starts[k]]
           newe == [k \in 1..q |-> ends[k]]
<1> HIDE DEF w, m, q, n
<1>4. /\ starts \in [1..n -> Nat] /\ ends \in [1..n -> Nat]
      /\ \A k \in 1..n : /\ 1 <= starts[k] /\ starts[k] < ends[k] /\ ends[k] <= m + 1
                         /\ Gap(w, Behind(ends, k - 1), starts[k])
  BY <1>3, Zenon DEF Read, InOrder
<1>5. \A k \in 1..n : TokenAt(w, toks[k], starts[k], ends[k]) \/ (k = n /\ toks[k].type # "RBRACE")
  BY <1>3, Zenon DEF Read
<1>6. q \in Nat /\ \A k \in 1..q : k \in 1..n /\ (k = n => k = q)
  BY <1>1, <1>2
<1>7. \A k \in 1..q : TokenAt(w, toks[k], starts[k], ends[k])
  BY <1>1, <1>5, <1>6
<1>8. news \in [1..q -> Nat] /\ newe \in [1..q -> Nat] /\ \A k \in 1..q : news[k] = starts[k] /\ newe[k] = ends[k]
  BY <1>4, <1>6
<1> HIDE DEF news, newe
<1>9. \A k \in 1..q : Behind(newe, k - 1) = Behind(ends, k - 1)
  BY <1>6, <1>8 DEF Behind
<1>10. InOrder(w, m, q, news, newe)
  BY <1>4, <1>6, <1>8, <1>9 DEF InOrder
<1>11. \A k \in 1..q : TokenAt(w, toks[k], news[k], newe[k])
  BY <1>7, <1>8
<1> QED
  BY <1>1, <1>10, <1>11 DEF w, m, q

-----------------------------------------------------------------------------
(* The bundle and the answer.                                              *)

\* A tree the parser is through with.
WholePolicy(tree) ==
    tree \in PolicyNodes /\ \A k \in DOMAIN tree.rules : RuleWhole(tree.rules[k])

\* The bundle is the tree, compiled.
CompiledFrom(tree) == WholePolicy(tree) /\ Compiles(tree) /\ bundle = Compiled(tree)

\* What Parse hands to Compile is whole: every rule has a condition, every comparison
\* in it one value, so that compileCompare never reads a value that is not there.
TreeWhole == at \in {"parsed", "loaded"} => WholePolicy(node)

\* The bundle a handler reads came out of one whole tree.
BundleWhole == bundle # None => \E tree : CompiledFrom(tree)

\* The request is stopped exactly when the bundle is its tenant's and a BLOCK rule of it,
\* its condition read from left to right, applies, and every rule before that applies is
\* a BLOCK rule too: the closures nested to the left and the search for the first
\* match make no difference to how the rules read.
AnswerAsRead ==
    LET Applies(k) == Satisfied(bundle.rules[k].cond, evalCtx)
        Blocks(k) == bundle.rules[k].action = "BLOCK"
    IN  reply \in {"policy_block", "forward"} =>
            (reply = "policy_block" <=>
                /\ bundle # None /\ OwnBundle
                /\ \E k \in DOMAIN bundle.rules :
                      Applies(k) /\ Blocks(k) /\ \A j \in 1..(k - 1) : Applies(j) => Blocks(j))

\* The rules the author wrote are the ones the bundle holds.
MeansInv == bundle # None => CompiledFrom(text.means)

\* Outside the rules every rule is whole.
LEMMA TreeInvWhole == TreeInv => TreeWhole
<1> SUFFICES ASSUME TreeInv, at \in {"parsed", "loaded"} PROVE WholePolicy(node)
  BY DEF TreeWhole
<1>1. at \notin InRule \cup {"error"}
  BY DEF InRule, BeforeCondition, InCondition, InAtom, AfterAtom
<1>2. node \in PolicyNodes /\ \A k \in 1..Len(node.rules) : RuleWhole(node.rules[k])
  BY <1>1 DEF TreeInv, Rule
<1>3. DOMAIN node.rules = 1..Len(node.rules)
  BY <1>2 DEF PolicyNodes
<1> QED
  BY <1>2, <1>3 DEF WholePolicy

\* The bundle is set once, and the text never.
LEMMA BundleSteps ==
    ASSUME TextInv, [Next]_vars
    PROVE  /\ text' = text
           /\ \/ bundle' = bundle
              \/ at = "parsed" /\ at' = "loaded" /\ node' = node /\ Compiles(node) /\ bundle' = Compiled(node)
<1>1. CASE ParseStep
  <2>1. bundle' = bundle
    BY <1>1 DEF ParseStep
  <2>2. text' = text
    BY <1>1, LexEffect DEF ParseStep, ParseText, ParseError, Take, lexVars
  <2> QED
    BY <2>1, <2>2
<1>2. CASE CompileStep
  BY <1>2 DEF CompileStep, lexVars
<1>3. CASE Serve
  BY <1>3 DEF Serve
<1>4. CASE UNCHANGED <<textVars, bundle>>
  BY <1>4 DEF textVars, lexVars
<1>5. ParseStep \/ CompileStep \/ Serve \/ UNCHANGED <<textVars, bundle>>
  BY NextCases DEF ScanStep, GuardrailBlocks, NoPolicy, ReadTotal, Judge, Request, Answer, vars
<1> QED
  BY <1>1, <1>2, <1>3, <1>4, <1>5

\* A bundle is made from a whole tree.
LEMMA BundleKeeps == TextInv /\ TreeInv /\ BundleWhole /\ [Next]_vars => BundleWhole'
<1> SUFFICES ASSUME TextInv, TreeInv, BundleWhole, [Next]_vars PROVE BundleWhole'
  OBVIOUS
<1>1. CASE bundle' = bundle
  BY <1>1 DEF BundleWhole, CompiledFrom
<1>2. CASE at = "parsed" /\ Compiles(node) /\ bundle' = Compiled(node)
  <2>1. WholePolicy(node)
    BY <1>2, TreeInvWhole DEF TreeWhole
  <2> QED
    BY <1>2, <2>1 DEF BundleWhole, CompiledFrom
<1> QED
  BY <1>1, <1>2, BundleSteps

\* A bundle is made from what the author meant, if the load keeps that.
LEMMA MeansKeeps == TextInv /\ TreeInv /\ MeansInv /\ LoadsAsWritten' /\ [Next]_vars => MeansInv'
<1> SUFFICES ASSUME TextInv, TreeInv, MeansInv, LoadsAsWritten', [Next]_vars PROVE MeansInv'
  OBVIOUS
<1>1. text' = text
  BY BundleSteps
<1>2. CASE bundle' = bundle
  BY <1>1, <1>2 DEF MeansInv, CompiledFrom
<1>3. CASE at = "parsed" /\ at' = "loaded" /\ node' = node /\ Compiles(node) /\ bundle' = Compiled(node)
  <2>1. WholePolicy(node)
    BY <1>3, TreeInvWhole DEF TreeWhole
  <2>2. text'.means = node
    BY <1>3 DEF LoadsAsWritten
  <2> QED
    BY <1>3, <2>1, <2>2 DEF MeansInv, CompiledFrom
<1> QED
  BY <1>2, <1>3, BundleSteps

\* Evaluate's verdict on a bundle, by the rules of the tree it came from.
LEMMA BundleIsRead ==
    ASSUME NEW tree, CompiledFrom(tree), NEW ctx
    PROVE  /\ bundle.tenant = tree.tenant
           /\ Evaluate(bundle.rules, ctx) = "BLOCK" <=>
                 \E k \in DOMAIN tree.rules :
                    /\ Satisfied(tree.rules[k].cond, ctx) /\ BlockRule(tree.rules[k])
                    /\ \A j \in 1..(k - 1) : Satisfied(tree.rules[j].cond, ctx) => BlockRule(tree.rules[j])
  BY FirstMatchIsRead, CompiledRules DEF CompiledFrom, WholePolicy

\* The same by the rules of the bundle itself.
LEMMA BundleReadsItself ==
    ASSUME NEW tree, CompiledFrom(tree), NEW ctx
    PROVE  Evaluate(bundle.rules, ctx) = "BLOCK" <=>
               \E k \in DOMAIN bundle.rules :
                  /\ Satisfied(bundle.rules[k].cond, ctx) /\ bundle.rules[k].action = "BLOCK"
                  /\ \A j \in 1..(k - 1) :
                        Satisfied(bundle.rules[j].cond, ctx) => bundle.rules[j].action = "BLOCK"
<1>1. tree \in PolicyNodes /\ Compiles(tree) /\ bundle = Compiled(tree)
  BY DEF CompiledFrom, WholePolicy
<1> DEFINE rs == tree.rules
           bs == bundle.rules
<1>2. rs \in Seq(RuleNodes)
  BY <1>1 DEF PolicyNodes
<1>3. DOMAIN bs = DOMAIN rs
  BY <1>1, CompiledRules
<1>4. ASSUME NEW k \in DOMAIN rs
      PROVE  /\ bs[k].cond = rs[k].cond
             /\ bs[k].action = "BLOCK" <=> BlockRule(rs[k])
  BY <1>1, CompiledRules, BlockIsAction
<1>5. Evaluate(bs, ctx) = "BLOCK" <=>
          \E k \in DOMAIN rs :
             /\ Satisfied(rs[k].cond, ctx) /\ BlockRule(rs[k])
             /\ \A j \in 1..(k - 1) : Satisfied(rs[j].cond, ctx) => BlockRule(rs[j])
  BY BundleIsRead
<1> HIDE DEF rs, bs
<1>6. ASSUME NEW k \in DOMAIN rs, NEW j \in 1..(k - 1) PROVE j \in DOMAIN rs
  BY <1>2
<1> QED
  BY <1>3, <1>4, <1>5, <1>6, Zenon DEF bs

\* The answer is the one the bundle's rules read.
LEMMA AnswerIsRead == HandlerInv /\ BundleWhole => AnswerAsRead
<1> SUFFICES ASSUME HandlerInv, BundleWhole PROVE AnswerAsRead
  OBVIOUS
<1>1. AnswerByPolicy
  BY DEF HandlerInv
<1>2. CASE bundle = None
  BY <1>1, <1>2, Zenon DEF AnswerByPolicy, AnswerAsRead
<1>3. CASE bundle # None
  <2>1. PICK tree : CompiledFrom(tree)
    BY <1>3 DEF BundleWhole
  <2> QED
    BY <1>1, <2>1, BundleReadsItself, Zenon DEF AnswerByPolicy, AnswerAsRead
<1> QED
  BY <1>2, <1>3

\* The answer is the one the author's rules read.
LEMMA AnswerIsWritten == HandlerInv /\ MeansInv => DecisionAsWritten
<1> SUFFICES ASSUME HandlerInv, MeansInv PROVE DecisionAsWritten
  OBVIOUS
<1>1. AnswerByPolicy /\ AnswerByVerdict
  BY DEF HandlerInv
<1>2. CASE bundle = None
  BY <1>1, <1>2, Zenon DEF AnswerByPolicy, AnswerByVerdict, DecisionAsWritten
<1>3. CASE bundle # None
  <2>1. CompiledFrom(text.means)
    BY <1>3 DEF MeansInv
  <2> QED
    BY <1>1, <1>3, <2>1, BundleIsRead, Zenon DEF AnswerByPolicy, AnswerByVerdict, DecisionAsWritten, OwnBundle
<1> QED
  BY <1>2, <1>3

-----------------------------------------------------------------------------
(* The theorems.                                                           *)

\* Whatever the file holds, the tree stays in order as the parser goes on, and so does
\* the bundle.
THEOREM TreeInvariant == Spec => [](TreeInv /\ BundleWhole)
<1>1. Init => TreeInv /\ BundleWhole
  BY TreeStarts DEF Init, BundleWhole
<1>2. IndInv /\ TreeInv /\ BundleWhole /\ [Next]_vars => TreeInv' /\ BundleWhole'
  BY TreeKeeps, BundleKeeps DEF IndInv
<1> QED
  BY <1>1, <1>2, GuardrailsInvariant, PTL DEF Spec

\* However little of the file load read, a policy it accepts is made of whole tokens of
\* the author's text, without a gap from the beginning to its closing brace.
THEOREM LoadsWholeTokens == Spec => []TakenAsWritten
<1>1. IndInv /\ CutInv /\ [Next]_vars => CutInv'
  BY CutKeeps DEF IndInv
<1>2. IndInv /\ CutInv => TakenAsWritten
  BY CutTaken DEF IndInv
<1> QED
  BY <1>1, <1>2, CutStarts, GuardrailsInvariant, PTL DEF Spec

\* A policy that Parse accepts is whole when Compile gets it: no rule is without a
\* condition, no comparison without its value, and no condition begins with OR.
THEOREM ParsedTreeWhole == Spec => []TreeWhole
  BY TreeInvariant, TreeInvWhole, PTL

\* The handler's answer is what a reader takes from the bundle's rules, for conditions and
\* policies of any length: reading an AND/OR condition from left to right decides as
\* the nested closures do, and the first match decides as the rules' order says.
THEOREM GuardrailsReadsRules == Spec => []AnswerAsRead
<1>1. IndInv /\ BundleWhole => AnswerAsRead
  BY AnswerIsRead DEF IndInv
<1> QED
  BY <1>1, GuardrailsInvariant, TreeInvariant, PTL

\* If files load as they are written, requests are decided as they are written: nothing
\* between the loaded tree and the answer (Compile, Evaluate, evalPolicy, the
\* handler and its interleaving with the scan) changes what the author's rules say.
THEOREM GuardrailsDecision == Spec /\ []LoadsAsWritten => []DecisionAsWritten
<1>1. Init => MeansInv
  BY DEF Init, MeansInv
<1>2. IndInv /\ TreeInv /\ MeansInv /\ LoadsAsWritten' /\ [Next]_vars => MeansInv'
  BY MeansKeeps DEF IndInv
<1>3. IndInv /\ MeansInv => DecisionAsWritten
  BY AnswerIsWritten DEF IndInv
<1> QED
  BY <1>1, <1>2, <1>3, GuardrailsInvariant, TreeInvariant, PTL DEF Spec
=============================================================================
