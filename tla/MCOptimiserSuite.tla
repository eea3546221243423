-------------------------- MODULE MCOptimiserSuite --------------------------
(* Programs for OptimiserSuite, in strict assembly. *)
EXTENDS OptimiserSuite

x == <<"x">>
y == <<"y">>
i == <<"i">>
f == <<"f">>
g == <<"g">>
a == <<"a">>
b == <<"b">>
r == <<"r">>
s == <<"s">>

V(name) == Identifier(name)
N(n) == Literal(n)
Input(n) == Builtin("CALLDATALOAD", <<N(n)>>)
Call(name, args) == FunctionCall(name, args)
Do(instruction, args) == ExpressionStatement(Builtin(instruction, args))
Let(name, e) == VariableDeclaration(<<name>>, e)
Set(name, e) == Assignment(<<name>>, e)
Two(instruction, l, m) == Builtin(instruction, <<l, m>>)

\* Names declared twice, functions inside blocks, one a copy of another, one
\* never called; the order of side effects in arguments.
Functions ==
    <<Let(x, Call(f, <<Input(0)>>)),
      Block(<<Let(y, Call(g, <<V(x)>>)), Do("SSTORE", <<V(y), Call(g, <<V(x)>>)>>),
              FunctionDefinition(g, <<a>>, <<r>>,
                  <<Set(r, Two("ADD", V(a), N(1)))>>)>>),
      Block(<<Let(y, Call(g, <<V(x)>>)), Set(x, Two("SUB", V(y), V(y))),
              FunctionDefinition(g, <<b>>, <<s>>, <<Do("SSTORE", <<V(b), Builtin("SLOAD", <<N(1)>>)>>),
                                                   Set(s, Builtin("SLOAD", <<V(b)>>))>>)>>),
      FunctionDefinition(f, <<b>>, <<s>>, <<Set(s, Two("ADD", V(b), N(1)))>>),
      FunctionDefinition(<<"unused">>, << >>, << >>, <<Do("SSTORE", <<N(0), Call(f, <<N(1)>>)>>)>>),
      Do("SSTORE", <<Call(f, <<V(x)>>), Builtin("SLOAD", <<N(2)>>)>>),
      Do("STOP", << >>)>>

\* A loop with break and continue whose variables change on some paths only.
Loop ==
    <<Uninitialised(<<i, s>>), Set(s, Input(0)),
      ForLoop(<<Let(a, N(1))>>, Two("LT", V(i), N(3)), <<Set(i, Two("ADD", V(i), V(a)))>>,
        <<If(Two("EQ", V(i), V(s)), <<Set(a, N(2)), Continue>>),
          Set(s, Two("ADD", V(s), V(i))),
          If(Two("GT", V(s), N(5)), <<Set(s, V(a)), Break>>),
          Set(a, N(1))>>),
      ForLoop(<< >>, V(s), <<Set(s, Two("SUB", V(s), N(1)))>>,
        <<If(Two("EQ", V(s), N(2)), <<Continue>>), Do("SSTORE", <<N(3), V(s)>>), Break>>),
      Do("SSTORE", <<V(s), V(i)>>)>>

\* A switch whose default case is in the middle, an ending case and MSIZE.
Cases3 ==
    <<Let(x, Input(0)), Let(y, V(x)),
      Switch(V(x), <<0, Default, 2>>,
        <<<<Do("MSTORE", <<N(1), Builtin("MSIZE", << >>)>>), Set(y, N(7))>>,
          <<Set(x, Two("MUL", V(x), N(1))), Do("POP", <<Builtin("MLOAD", <<V(x)>>)>>)>>,
          <<Do("REVERT", <<N(0), V(x)>>)>> >>),
      Do("SSTORE", <<Two("AND", V(x), V(y)), Builtin("MSIZE", << >>)>>)>>

\* A recursive function with two return values, both assigned at once.
Recursion ==
    <<FunctionDefinition(f, <<i>>, <<a, b>>,
        <<Switch(V(i), <<0, Default>>,
            << <<Set(a, N(1)), Set(b, N(2))>>,
               <<VariableDeclaration(<<x, y>>, Call(f, <<Two("SUB", V(i), N(1))>>)),
                 Set(a, V(y)), Set(b, Two("ADD", V(x), V(i)))>> >>)>>),
      VariableDeclaration(<<a, b>>, Call(f, <<Two("AND", Input(0), N(3))>>)),
      Assignment(<<a, b>>, Call(f, <<V(a)>>)),
      Do("SSTORE", <<V(a), V(b)>>)>>

\* More variables than the stack reaches.
Deep ==
    <<Let(x, Input(0)), Let(y, Two("ADD", V(x), N(1))), Let(a, Input(1)), Let(b, Input(2)),
      Let(r, Two("MUL", V(a), V(b))), Let(s, Two("XOR", V(r), V(x))),
      FunctionDefinition(f, <<a, b, r>>, <<s>>,
        <<Let(x, Builtin("SLOAD", <<V(a)>>)), Let(y, Two("ADD", V(a), N(1))),
          Do("SSTORE", <<V(y), V(x)>>), Set(s, Two("ADD", V(a), V(y))),
          Do("SSTORE", <<V(b), V(s)>>), Do("SSTORE", <<V(r), V(x)>>), Do("SSTORE", <<V(a), V(y)>>)>>),
      Do("SSTORE", <<V(y), V(a)>>), Do("SSTORE", <<V(s), V(b)>>), Do("SSTORE", <<V(x), V(r)>>),
      Do("SSTORE", <<V(y), Call(f, <<V(s), V(y), V(x)>>)>>)>>

\* Conditions that are constant, loops that run once, code behind an end.
Constant ==
    <<Let(x, N(6)), Let(y, Two("EQ", V(x), N(6))),
      If(V(y), <<Do("SSTORE", <<N(0), V(x)>>)>>),
      ForLoop(<< >>, V(y), <<Set(x, N(1))>>, <<Set(x, Input(1)), Break>>),
      ForLoop(<< >>, Two("SUB", V(y), N(1)), << >>, <<Do("STOP", << >>)>>),
      Switch(V(y), <<0, 1>>, << <<Do("INVALID", << >>)>>, <<Let(a, V(x)), Do("SSTORE", <<V(a), V(a)>>)>> >>),
      If(Two("OR", V(x), N(0)), <<Do("RETURN", <<V(x), N(0)>>), Do("SSTORE", <<N(5), N(5)>>)>>),
      Do("SSTORE", <<N(4), Builtin("CALLER", << >>)>>)>>

MCSources == {Functions, Loop, Cases3, Recursion, Deep, Constant}
=============================================================================
