-------------------- MODULE MCRedundantAssignEliminator --------------------
(***************************************************************************)
(* Programs for RedundantAssignEliminator: a loop, in a function or not,    *)
(* with a variable x that is declared outside of it and a variable y that   *)
(* is declared in its body.                                                 *)
(***************************************************************************)
EXTENDS RedundantAssignEliminator

Constant == Expression({}, TRUE)
Opaque   == Expression({}, FALSE)
Of(x)    == Expression({x}, TRUE)

Set(id, x) == Assignment(id, {x}, Constant)
Use(x)     == ExpressionStatement(Of(x))
If(s)      == IfStatement(Opaque, Block(<<s>>))

\* What may stand at place id for the variable x.
Simple(id, x) ==
    {Set(id, x), Use(x), Assignment(id, {x}, Of(x)), Assignment(id, {x}, Opaque),
     Assignment(id, {x, "z"}, Constant)}

Branching(id, x) ==
    {If(Set(id, x)), If(Use(x)),
     SwitchStatement(Of(x), <<Block(<<Set(id, x)>>), Block(<<Use(x)>>)>>, TRUE),
     SwitchStatement(Opaque, <<Block(<<Set(id, x)>>), Block(<< >>)>>, FALSE)}

Jumps == {If(Break), If(Continue)}

Statements(id, x) == Simple(id, x) \cup Branching(id, x) \cup Jumps

Loop(body, post) == ForLoop(Opaque, Block(body), Block(post))

\* x lives longer than the loop.
OuterVariable ==
    {Block(<<VariableDeclaration({"x"}, Constant), Set(1, "x"), Loop(<<s, t, u>>, <<p>>), e>>) :
        s \in Statements(2, "x"), t \in Statements(3, "x"), u \in Statements(4, "x"),
        p \in {Set(5, "x"), Use("x"), Use("z")}, e \in {Set(6, "x"), Use("x")}}

\* Both loops are nested less deeply than NestingLimit: the inner one is visited four times.
NestedLoops ==
    {Block(<<FunctionDefinition({"x"}, {"r"},
        Block(<<Set(1, "r"), Loop(<<s, Loop(<<t, u>>, <<Set(2, "x")>>), v>>, << >>), Use("x")>>))>>) :
        s \in Statements(3, "x"), t \in Statements(4, "r"), u \in Statements(5, "x"), v \in Statements(6, "r")}

\* The innermost loop is nested as deeply as NestingLimit: it is visited once each time.
DeeplyNestedLoops ==
    {Block(<<VariableDeclaration({"x"}, Constant), Set(1, "x"),
             Loop(<<Loop(<<s, Loop(<<t, u>>, <<Set(2, "x")>>)>>, <<v>>)>>, <<Use("z")>>), Use("z")>>) :
        s \in Simple(3, "x") \cup Jumps, t \in Statements(4, "x"), u \in Simple(5, "x") \cup Jumps,
        v \in {Set(6, "x"), Use("x")}}

\* y is declared in the body of the loop.
InnerVariable(statements) ==
    {Block(<<Loop(<<VariableDeclaration({"y"}, Constant), s, t, u>>, << >>)>>) :
        s \in Simple(1, "y") \cup Branching(1, "y"), t \in statements, u \in Statements(3, "y")}

WithoutJumps == InnerVariable(Simple(2, "y") \cup Branching(2, "y"))
WithJumps    == InnerVariable(Jumps)

MCPrograms == DeeplyNestedLoops \cup WithoutJumps \cup OuterVariable \cup NestedLoops

=============================================================================
