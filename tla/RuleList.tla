------------------------------ MODULE RuleList ------------------------------
(***************************************************************************)
(* The simplification rules shared by the optimiser of assembly items and   *)
(* the one of Yul (libsvmasm/RuleList.h).                                   *)
(*                                                                         *)
(* A pattern is a placeholder (A, B, C for constants, X, Y for anything), a *)
(* number or an instruction with patterns as arguments.  The action of a    *)
(* rule is a pattern too; what it computes with A.d() and B.d() while it    *)
(* builds the replacement is a pattern inside Computed.  An action with an  *)
(* if is one rule for each branch, whose condition is part of feasible.     *)
(***************************************************************************)
EXTENDS Instructions

Pattern(kind, group, data, instruction, arguments) ==
    [kind |-> kind, group |-> group, data |-> data, instruction |-> instruction,
     arguments |-> arguments]

pA == Pattern("constant", "A", 0, "", << >>)
pB == Pattern("constant", "B", 0, "", << >>)
pC == Pattern("constant", "C", 0, "", << >>)
pX == Pattern("any", "X", 0, "", << >>)
pY == Pattern("any", "Y", 0, "", << >>)
Number(n) == Pattern("number", "", n, "", << >>)
Op(instruction, arguments) == Pattern("operation", "", 0, instruction, arguments)
Computed(pattern) == Pattern("computed", "", 0, "", <<pattern>>)

\* A SimplificationRule.
Rule(pattern, action, removesNonConstants, feasible) ==
    [pattern |-> pattern, action |-> action, removesNonConstants |-> removesNonConstants,
     feasible |-> feasible]
Plain(pattern, action)    == Rule(pattern, action, FALSE, "always")
Removing(pattern, action) == Rule(pattern, action, TRUE, "always")

\* simplificationRuleList Part1: arithmetic on constants
FoldConstants ==
    LET Fold(i, arguments) == Plain(Op(i, arguments), Computed(Op(i, arguments)))
        Binary == <<"ADD", "MUL", "SUB", "DIV", "SDIV", "MOD", "SMOD", "EXP", "LT", "GT", "SLT",
                    "SGT", "EQ", "AND", "OR", "XOR", "BYTE", "SIGNEXTEND", "SHL", "SHR">>
    IN [n \in DOMAIN Binary |-> Fold(Binary[n], <<pA, pB>>)]
       \o <<Fold("NOT", <<pA>>), Fold("ISZERO", <<pA>>),
            Fold("ADDMOD", <<pA, pB, pC>>), Fold("MULMOD", <<pA, pB, pC>>)>>

\* Part2: invariants involving known constants
KnownConstants ==
    LET N0 == Number(0)
        N1 == Number(1)
        ones == Number(Ones)
        byte == Number(2 ^ ByteBits - 1)
        Twice(p) == Op("ISZERO", <<Op("ISZERO", <<p>>)>>)
    IN <<Plain(Op("ADD", <<pX, N0>>), pX), Plain(Op("ADD", <<N0, pX>>), pX),
         Plain(Op("SUB", <<pX, N0>>), pX),
         Removing(Op("MUL", <<pX, N0>>), N0), Removing(Op("MUL", <<N0, pX>>), N0),
         Plain(Op("MUL", <<pX, N1>>), pX), Plain(Op("MUL", <<N1, pX>>), pX),
         Plain(Op("MUL", <<pX, ones>>), Op("SUB", <<N0, pX>>)),
         Plain(Op("MUL", <<ones, pX>>), Op("SUB", <<N0, pX>>)),
         Removing(Op("DIV", <<pX, N0>>), N0), Removing(Op("DIV", <<N0, pX>>), N0),
         Plain(Op("DIV", <<pX, N1>>), pX),
         Removing(Op("SDIV", <<pX, N0>>), N0), Removing(Op("SDIV", <<N0, pX>>), N0),
         Plain(Op("SDIV", <<pX, N1>>), pX),
         Plain(Op("AND", <<pX, ones>>), pX), Plain(Op("AND", <<ones, pX>>), pX),
         Removing(Op("AND", <<pX, N0>>), N0), Removing(Op("AND", <<N0, pX>>), N0),
         Plain(Op("OR", <<pX, N0>>), pX), Plain(Op("OR", <<N0, pX>>), pX),
         Removing(Op("OR", <<pX, ones>>), ones), Removing(Op("OR", <<ones, pX>>), ones),
         Plain(Op("XOR", <<pX, N0>>), pX), Plain(Op("XOR", <<N0, pX>>), pX),
         Removing(Op("MOD", <<pX, N0>>), N0), Removing(Op("MOD", <<N0, pX>>), N0),
         Plain(Op("EQ", <<pX, N0>>), Op("ISZERO", <<pX>>)),
         Plain(Op("EQ", <<N0, pX>>), Op("ISZERO", <<pX>>)),
         Plain(Op("SHL", <<N0, pX>>), pX), Plain(Op("SHR", <<N0, pX>>), pX),
         Removing(Op("SHL", <<pX, N0>>), N0), Removing(Op("SHR", <<pX, N0>>), N0),
         Plain(Op("GT", <<pX, N0>>), Twice(pX)), Plain(Op("LT", <<N0, pX>>), Twice(pX)),
         Removing(Op("GT", <<pX, ones>>), N0), Removing(Op("LT", <<ones, pX>>), N0),
         Removing(Op("GT", <<N0, pX>>), N0), Removing(Op("LT", <<pX, N0>>), N0),
         Plain(Op("AND", <<Op("BYTE", <<pX, pY>>), byte>>), Op("BYTE", <<pX, pY>>)),
         Plain(Op("BYTE", <<Number(WordBytes - 1), pX>>), Op("AND", <<pX, byte>>))>>

\* Part3: operations involving an expression and itself
SelfOperations ==
    LET Self(i, action) == Removing(Op(i, <<pX, pX>>), action)
        Nil == <<"XOR", "SUB", "LT", "SLT", "GT", "SGT", "MOD">>
    IN <<Self("AND", pX), Self("OR", pX), Self("EQ", Number(1))>>
       \o [n \in DOMAIN Nil |-> Self(Nil[n], Number(0))]

\* Part4: logical instruction combinations
Logical ==
    LET Orders(i, p, q) == <<Op(i, <<p, q>>), Op(i, <<q, p>>)>>
        \* op(X, inner(X, Y)) in all four orders
        Absorb(op, inner, action) ==
            LET In == Orders(inner, pX, pY)
            IN [n \in 1..4 |->
                  LET i == In[1 + ((n - 1) % 2)]
                  IN Removing(IF n <= 2 THEN Op(op, <<pX, i>>) ELSE Op(op, <<i, pX>>), action)]
        Negated(p) == Op("NOT", <<p>>)
        Both(op, action) == [n \in 1..2 |-> Removing(Orders(op, pX, Negated(pX))[n], action)]
    IN <<Plain(Negated(Negated(pX)), pX)>>
       \o Absorb("XOR", "XOR", pY) \o Absorb("OR", "AND", pX) \o Absorb("AND", "OR", pX)
       \o Both("AND", Number(0)) \o Both("OR", Number(Ones))

\* Part5: powers of two, shifts out of the word, masks that cover an address
MasksAndPowers ==
    LET Creators == <<"ADDRESS", "CALLER", "ORIGIN", "COINBASE", "CREATE", "CREATE2">>
        mask == Number(2 ^ AddressBits - 1)
    IN [n \in 1..WordBits |->
          Plain(Op("MOD", <<pX, Number(2 ^ (n - 1))>>),
                Op("AND", <<pX, Number(2 ^ (n - 1) - 1)>>))]
       \o <<Rule(Op("SHL", <<pA, pX>>), Number(0), TRUE, "A >= width"),
            Rule(Op("SHR", <<pA, pX>>), Number(0), TRUE, "A >= width")>>
       \o [n \in 1..(2 * Len(Creators)) |->
             LET op == Op(Creators[(n + 1) \div 2], << >>)
             IN Plain(Op("AND", IF n % 2 = 1 THEN <<op, mask>> ELSE <<mask, op>>), op)]

\* Part6: double negation of opcodes with boolean result
DoubleNegation ==
    LET Comparisons == <<"EQ", "LT", "SLT", "GT", "SGT">>
        Negated(p) == Op("ISZERO", <<p>>)
    IN [n \in DOMAIN Comparisons |->
          Plain(Negated(Negated(Op(Comparisons[n], <<pX, pY>>))), Op(Comparisons[n], <<pX, pY>>))]
       \o <<Plain(Negated(Negated(Negated(pX))), Negated(pX)), Plain(Negated(Op("XOR", <<pX, pY>>)), Op("EQ", <<pX, pY>>))>>

\* Part7, first loop: constants move to the outside of associative operations
Associative(op) ==
    LET Four(xa) ==
            <<Plain(Op(op, <<Op(op, xa), pB>>), Op(op, <<pX, Computed(Op(op, <<pA, pB>>))>>)),
              Plain(Op(op, <<Op(op, xa), pY>>), Op(op, <<Op(op, <<pX, pY>>), pA>>)),
              Plain(Op(op, <<pB, Op(op, xa)>>), Op(op, <<pX, Computed(Op(op, <<pA, pB>>))>>)),
              Plain(Op(op, <<pY, Op(op, xa)>>), Op(op, <<Op(op, <<pY, pX>>), pA>>))>>
    IN Four(<<pX, pA>>) \o Four(<<pA, pX>>)

\* Part7, shifts by constants
ShiftsByConstants ==
    LET Same(op) ==
            LET pattern == Op(op, <<pB, Op(op, <<pA, pX>>)>>)
            IN <<Rule(pattern, Op("AND", <<pX, Number(0)>>), FALSE, "A + B >= width"),
                 Rule(pattern, Op(op, <<Computed(Op("ADD", <<pA, pB>>)), pX>>), FALSE,
                      "A + B < width")>>
        \* outer(B, inner(A, X)); inner's bits that survive are the mask
        Opposite(outer, inner) ==
            LET pattern == Op(outer, <<pB, Op(inner, <<pA, pX>>)>>)
                mask == Computed(Op(outer, <<pB, Op(inner, <<pA, Number(Ones)>>)>>))
                Shifted(op, p, q) == Op("AND", <<Op(op, <<Computed(Op("SUB", <<p, q>>)), pX>>), mask>>)
            IN <<Rule(pattern, Shifted(inner, pA, pB), FALSE, "B < A < width"),
                 Rule(pattern, Shifted(outer, pB, pA), FALSE, "A < B < width"),
                 Rule(pattern, Op("AND", <<pX, mask>>), FALSE, "A = B < width")>>
        Masked(op, and) ==
            <<Rule(Op(op, <<pB, Op("AND", and)>>),
                   Op("AND", <<Op(op, <<pB, pX>>), Computed(Op(op, <<pB, pA>>))>>), FALSE, "B < width")>>
        Covered(and) == <<Rule(Op("AND", and), Op("SHR", <<pB, pX>>), FALSE, "A covers SHR B")>>
        one == Number(1)
    IN Same("SHL") \o Same("SHR") \o Opposite("SHR", "SHL") \o Opposite("SHL", "SHR")
       \o Masked("SHL", <<pX, pA>>) \o Masked("SHL", <<pA, pX>>)
       \o Masked("SHR", <<pX, pA>>) \o Masked("SHR", <<pA, pX>>)
       \o <<Plain(Op("MUL", <<pX, Op("SHL", <<pY, one>>)>>), Op("SHL", <<pY, pX>>)),
            Plain(Op("MUL", <<Op("SHL", <<pX, one>>), pY>>), Op("SHL", <<pX, pY>>)),
            Plain(Op("DIV", <<pX, Op("SHL", <<pY, one>>)>>), Op("SHR", <<pY, pX>>))>>
       \o Covered(<<pA, Op("SHR", <<pB, pX>>)>>) \o Covered(<<Op("SHR", <<pB, pX>>), pA>>)

\* Part8: constants move across subtractions
Subtractions ==
    LET minusA == Computed(Op("SUB", <<Number(0), pA>>))
        Across(pattern, constant) ==
            Plain(pattern, Op("ADD", <<Op("SUB", <<pX, pY>>), constant>>))
    IN <<Plain(Op("SUB", <<pX, pA>>), Op("ADD", <<pX, minusA>>)),
         Across(Op("SUB", <<Op("ADD", <<pX, pA>>), pY>>), pA),
         Across(Op("SUB", <<Op("ADD", <<pA, pX>>), pY>>), pA),
         Across(Op("SUB", <<pX, Op("ADD", <<pY, pA>>)>>), minusA),
         Across(Op("SUB", <<pX, Op("ADD", <<pA, pY>>)>>), minusA)>>

simplificationRuleList ==
    FoldConstants \o KnownConstants \o SelfOperations \o Logical \o MasksAndPowers
    \o DoubleNegation
    \o Associative("ADD") \o Associative("MUL") \o Associative("AND") \o Associative("OR")
    \o Associative("XOR")
    \o ShiftsByConstants \o Subtractions

\* Rules::addRule: the rules by the instruction that they simplify.
RulesOf ==
    [i \in Instruction |-> SelectSeq(simplificationRuleList, LAMBDA r : r.pattern.instruction = i)]

\* Whether a rule's condition holds when A and B are the words a and b.
Feasible(condition, a, b) ==
    CASE condition = "always"         -> TRUE
      [] condition = "A >= width"     -> a >= WordBits
      [] condition = "A + B >= width" -> a + b >= WordBits
      [] condition = "A + B < width"  -> a + b < WordBits
      [] condition = "B < A < width"  -> b < a /\ a < WordBits
      [] condition = "A < B < width"  -> a < b /\ b < WordBits
      [] condition = "A = B < width"  -> a = b /\ b < WordBits
      [] condition = "B < width"      -> b < WordBits
      [] condition = "A covers SHR B" ->
            b <= WordBits /\ (a & Evaluate("SHR", <<b, Ones>>)) = Evaluate("SHR", <<b, Ones>>)

-----------------------------------------------------------------------------
\* The value of a pattern when its placeholders are bound to words; every
\* instruction that returns an address returns address.
RECURSIVE ValueOf(_, _, _)
ValueOf(p, binding, address) ==
    CASE p.kind \in {"constant", "any"} -> binding[p.group]
      [] p.kind = "number"   -> p.data
      [] p.kind = "computed" -> ValueOf(p.arguments[1], binding, address)
      [] p.kind = "operation" ->
            IF p.arguments = << >> THEN address
            ELSE Evaluate(p.instruction,
                          [n \in DOMAIN p.arguments |-> ValueOf(p.arguments[n], binding, address)])

RECURSIVE Placeholders(_)
Placeholders(p) ==
    (IF p.group = "" THEN {} ELSE {p.group})
    \cup UNION {Placeholders(p.arguments[n]) : n \in DOMAIN p.arguments}

\* The placeholders for arbitrary expressions in the order in which the
\* machine evaluates them: the last argument first.
RECURSIVE EvaluationOrder(_)
EvaluationOrder(p) ==
    LET From[n \in 0..Len(p.arguments)] ==
            IF n = 0 THEN << >> ELSE EvaluationOrder(p.arguments[n]) \o From[n - 1]
    IN IF p.kind = "any" THEN <<p.group>> ELSE From[Len(p.arguments)]

=============================================================================
