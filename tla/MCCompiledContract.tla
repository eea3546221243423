------------------------- MODULE MCCompiledContract -------------------------
(***************************************************************************)
(* Programs for CompiledContract: together they use the types, statements,  *)
(* expressions and declarations that are modelled.  A byte has two bits and *)
(* a word eight bytes, so that several variables share a slot, arrays cross *)
(* its border, and all values of a small type can be tried.                 *)
(***************************************************************************)
EXTENDS CompiledContract

\* Operators on integers of several sizes, with wrapping and a division by zero
Arithmetic ==
    <<"contract", "A", "{", "uint8", "x", ";", "int8", "s", ";", "uint16", "w", ";", "uint", "y", ";", "function",
      "f", "(", "uint8", "a", ",", "uint8", "b", ")", "public", "{", "x", "=", "(", "a", "+", "b", ")", "**", "(",
      "b", "+", "1", ")", ";", "s", "=", "int8", "(", "a", ")", "-", "int8", "(", "b", ")", ";", "w", "=", "a",
      "*", "b", ";", "y", "=", "uint", "(", "a", ")", "<<", "b", ";", "}", "function", "g", "(", "int8", "a", ",",
      "int8", "b", ")", "public", "view", "returns", "(", "int8", ",", "bool", ",", "int8", ")", "{", "return",
      "(", "a", "/", "b", ",", "a", "<", "s", ",", "a", "%", "b", ")", ";", "}", "function", "h", "(", "uint8",
      "a", ")", "public", "returns", "(", "uint8", ")", "{", "x", "+=", "a", ";", "x", "--", ";", "return", "x",
      "++", "**", "a", ";", "}", "}">>

\* Packed arrays in storage that grow, shrink, are copied and cleared
StorageArrays ==
    <<"contract", "A", "{", "uint8", "[", "]", "xs", ";", "uint8", "[", "3", "]", "ys", ";", "function", "f", "(",
      "uint8", "a", ")", "public", "returns", "(", "uint", ")", "{", "return", "xs", ".", "push", "(", "a", ")",
      ";", "}", "function", "g", "(", ")", "public", "{", "xs", ".", "pop", "(", ")", ";", "}", "function", "h",
      "(", "uint8", "i", ",", "uint8", "v", ")", "public", "{", "xs", "[", "i", "]", "=", "v", ";", "ys", "[", "i",
      "]", "=", "v", ";", "}", "function", "a", "(", "uint8", "n", ")", "public", "{", "xs", ".", "length", "=",
      "n", ";", "}", "function", "b", "(", ")", "public", "view", "returns", "(", "uint8", "[", "]", "memory", ",",
      "uint8", "[", "3", "]", "memory", ")", "{", "return", "(", "xs", ",", "ys", ")", ";", "}", "function", "c",
      "(", ")", "public", "{", "delete", "ys", ";", "xs", "=", "ys", ";", "}", "}">>

\* Structs with mappings, which copying and deleting leave out
Structs ==
    <<"contract", "A", "{", "struct", "S", "{", "uint8", "a", ";", "mapping", "(", "uint8", "=>", "uint8", ")",
      "m", ";", "uint16", "b", ";", "}", "S", "s", ";", "S", "t", ";", "mapping", "(", "bool", "=>", "S", ")", "m",
      ";", "function", "f", "(", "uint8", "k", ",", "uint8", "v", ")", "public", "{", "s", ".", "m", "[", "k", "]",
      "=", "v", ";", "s", ".", "a", "=", "v", ";", "s", ".", "b", "=", "3", ";", "t", ".", "m", "[", "v", "]", "=",
      "k", ";", "}", "function", "g", "(", ")", "public", "{", "t", "=", "s", ";", "m", "[", "true", "]", "=", "s",
      ";", "}", "function", "h", "(", ")", "public", "{", "delete", "t", ";", "}", "function", "a", "(", "uint8",
      "k", ")", "public", "view", "returns", "(", "uint8", ",", "uint8", ",", "uint16", ")", "{", "return", "(",
      "t", ".", "m", "[", "k", "]", ",", "m", "[", "true", "]", ".", "a", ",", "m", "[", "true", "]", ".", "b",
      ")", ";", "}", "}">>

\* Modifiers that are nested, overridden, and run their function twice; super
Modifiers ==
    <<"contract", "B", "{", "uint8", "public", "x", ";", "modifier", "m", "(", "uint8", "a", ")", "{", "x", "+=",
      "a", ";", "_", ";", "if", "(", "x", ">", "2", ")", "return", ";", "x", "++", ";", "}", "function", "f", "(",
      "uint8", "a", ")", "public", "m", "(", "a", ")", "m", "(", "1", ")", "returns", "(", "uint8", ")", "{", "if",
      "(", "a", "==", "0", ")", "{", "return", "7", "-", "5", ";", "}", "x", "+=", "a", ";", "return", "x", ";",
      "}", "function", "g", "(", ")", "public", "returns", "(", "uint8", ")", "{", "return", "1", ";", "}", "}",
      "contract", "A", "is", "B", "{", "modifier", "m", "(", "uint8", "a", ")", "{", "_", ";", "x", "+=", "a", ";",
      "_", ";", "}", "function", "g", "(", ")", "public", "returns", "(", "uint8", ")", "{", "return", "super",
      ".", "g", "(", ")", "+", "B", ".", "g", "(", ")", ";", "}", "}">>

\* Arguments of a base constructor; initial values; a payable fallback function
Constructors ==
    <<"contract", "A", "{", "uint8", "x", ";", "uint8", "y", ";", "constructor", "(", "uint8", "a", ")", "public",
      "{", "x", "=", "a", ";", "y", "+=", "a", ";", "}", "}", "contract", "B", "is", "A", "{", "uint8", "z", "=",
      "2", ";", "constructor", "(", "uint8", "b", ")", "A", "(", "b", "+", "1", ")", "public", "{", "z", "+=", "b",
      ";", "x", "+=", "1", ";", "}", "function", "f", "(", ")", "public", "view", "returns", "(", "uint8", ",",
      "uint8", ",", "uint8", ")", "{", "return", "(", "x", ",", "y", ",", "z", ")", ";", "}", "function", "(", ")",
      "external", "payable", "{", "x", "=", "3", ";", "}", "}">>

\* Indexed and anonymous events; bytes; side effects in arguments
Events ==
    <<"contract", "A", "{", "event", "E", "(", "uint8", "indexed", "a", ",", "int8", "b", ")", ";", "event", "F",
      "(", "uint8", "[", "]", "a", ",", "bytes1", "indexed", "b", ",", "bytes2", "c", ")", "anonymous", ";",
      "uint8", "[", "]", "xs", ";", "uint8", "n", ";", "function", "f", "(", "uint8", "a", ")", "public", "{",
      "emit", "E", "(", "a", ",", "-", "1", ")", ";", "xs", ".", "push", "(", "a", ")", ";", "emit", "F", "(",
      "xs", ",", "0", ",", "bytes2", "(", "bytes1", "(", "a", ")", ")", ")", ";", "}", "function", "g", "(",
      "bytes2", "a", ")", "public", "returns", "(", "bytes1", ",", "bytes1", ",", "bool", ")", "{", "require", "(",
      "a", "!=", "0", ")", ";", "emit", "E", "(", "n", "++", ",", "int8", "(", "n", "++", ")", ")", ";", "return",
      "(", "a", "[", "1", "]", ",", "bytes1", "(", "a", ">>", "1", ")", ",", "a", ">", "bytes1", "(", "n", ")",
      ")", ";", "}", "}">>

\* Structs and arrays in memory are shared, in storage copied
MemoryStructs ==
    <<"contract", "A", "{", "struct", "P", "{", "uint8", "a", ";", "uint8", "[", "2", "]", "b", ";", "}", "P", "p",
      ";", "P", "[", "]", "ps", ";", "function", "f", "(", "uint8", "a", ")", "public", "{", "P", "memory", "q",
      "=", "P", "(", "a", ",", "[", "a", ",", "1", "]", ")", ";", "P", "memory", "r", "=", "q", ";", "r", ".", "b",
      "[", "0", "]", "=", "2", ";", "p", "=", "q", ";", "ps", ".", "push", "(", "r", ")", ";", "q", ".", "a", "=",
      "3", ";", "ps", ".", "push", "(", "q", ")", ";", "}", "function", "g", "(", ")", "public", "{", "P",
      "storage", "q", "=", "ps", "[", "0", "]", ";", "q", ".", "b", "[", "1", "]", "=", "3", ";", "P", "memory",
      "r", "=", "q", ";", "r", ".", "a", "=", "0", ";", "ps", "[", "1", "]", "=", "q", ";", "delete", "ps", "[",
      "0", "]", ";", "}", "function", "h", "(", ")", "public", "view", "returns", "(", "uint8", "[", "2", "]",
      "memory", ",", "uint", ")", "{", "uint8", "[", "2", "]", "[", "]", "memory", "x", "=", "new", "uint8", "[",
      "2", "]", "[", "]", "(", "2", ")", ";", "x", "[", "1", "]", "=", "p", ".", "b", ";", "return", "(", "x", "[",
      "1", "]", ",", "ps", ".", "length", ")", ";", "}", "}">>

\* Loops, left in every way; tuples on the left, swaps
Loops ==
    <<"contract", "A", "{", "uint8", "x", ";", "uint8", "y", ";", "uint8", "[", "2", "]", "z", ";", "function",
      "f", "(", "uint8", "a", ")", "public", "returns", "(", "uint8", "r", ")", "{", "for", "(", "uint8", "i", "=",
      "0", ";", "i", "<", "a", ";", "i", "++", ")", "{", "if", "(", "i", "==", "1", ")", "continue", ";", "if",
      "(", "i", "==", "2", ")", "break", ";", "r", "+=", "i", "+", "1", ";", "}", "}", "function", "g", "(",
      "uint8", "a", ")", "public", "{", "(", "x", ",", "y", ")", "=", "(", "y", ",", "a", ")", ";", "(", "z", "[",
      "x", "]", ",", ",", "z", "[", "1", "]", ")", "=", "(", "a", ",", "1", ",", "x", ")", ";", "}", "function",
      "h", "(", "uint8", "a", ")", "public", "returns", "(", "uint8", "r", ")", "{", "do", "{", "r", "++", ";",
      "if", "(", "r", "==", "a", ")", "return", "0", ";", "}", "while", "(", "r", "<", "2", ")", ";", "while", "(",
      "true", ")", "{", "if", "(", "a", ">", "1", ")", "{", "return", "r", ";", "}", "a", "++", ";", "}", "}",
      "}">>

\* Enums out of their range; short circuits; the accessor of a mapping
Enums ==
    <<"contract", "A", "{", "enum", "E", "{", "U", ",", "V", ",", "W", "}", "E", "e", ";", "mapping", "(", "uint8",
      "=>", "E", ")", "public", "m", ";", "bool", "b", ";", "function", "f", "(", "E", "a", ",", "bool", "c", ")",
      "public", "returns", "(", "E", ",", "uint8", ")", "{", "e", "=", "a", ";", "b", "=", "c", "&&", "uint8", "(",
      "a", ")", ">", "0", "||", "!", "c", ";", "m", "[", "uint8", "(", "e", ")", "]", "=", "E", ".", "V", ";",
      "return", "(", "e", ",", "uint8", "(", "e", ")", ")", ";", "}", "function", "g", "(", "uint8", "a", ")",
      "public", "returns", "(", "bool", ")", "{", "e", "=", "E", "(", "a", ")", ";", "assert", "(", "b", ")", ";",
      "return", "e", "!=", "E", ".", "U", "?", "b", ":", "false", ";", "}", "}">>

\* Accessors, constants, the sender and the value of the message
Accessors ==
    <<"contract", "A", "{", "uint", "constant", "C", "=", "3", "+", "4", ";", "uint8", "public", "y", "=", "2",
      ";", "address", "public", "a", ";", "uint", "[", "]", "public", "b", ";", "struct", "S", "{", "uint8", "a",
      ";", "uint8", "[", "]", "c", ";", "int16", "b", ";", "}", "S", "public", "s", ";", "constructor", "(", ")",
      "public", "payable", "{", "a", "=", "msg", ".", "sender", ";", "b", ".", "push", "(", "msg", ".", "value",
      ")", ";", "s", ".", "b", "=", "-", "3", ";", "s", ".", "a", "=", "1", ";", "}", "function", "f", "(", ")",
      "public", "payable", "returns", "(", "uint", ",", "bytes2", ")", "{", "require", "(", "msg", ".", "sender",
      "==", "a", ")", ";", "b", "[", "0", "]", "+=", "msg", ".", "value", ";", "return", "(", "C", "+", "b", "[",
      "0", "]", ",", "msg", ".", "sig", ")", ";", "}", "function", "g", "(", "address", "c", ")", "public", "{",
      "a", "=", "c", ";", "if", "(", "c", "==", "address", "(", "0", ")", ")", "revert", "(", ")", ";", "}", "}">>

\* Storage pointers that are chosen and assigned; structs swapped in a tuple
Pointers ==
    <<"contract", "A", "{", "struct", "S", "{", "uint8", "a", ";", "uint8", "b", ";", "}", "S", "s", ";", "S", "t",
      ";", "uint8", "[", "]", "xs", ";", "constructor", "(", "uint8", "v", ")", "public", "{", "s", "=", "S", "(",
      "v", ",", "1", ")", ";", "t", ".", "b", "=", "2", ";", "xs", ".", "length", "=", "2", ";", "}", "function",
      "f", "(", ")", "public", "{", "(", "s", ",", "t", ")", "=", "(", "t", ",", "s", ")", ";", "}", "function",
      "g", "(", "uint8", "v", ")", "public", "returns", "(", "uint8", ")", "{", "S", "storage", "q", "=", "v",
      "==", "0", "?", "s", ":", "t", ";", "uint8", "[", "]", "storage", "z", "=", "xs", ";", "q", ".", "a", "=",
      "v", ";", "z", ".", "length", "--", ";", "z", ".", "push", "(", "q", ".", "b", ")", ";", "return", "(", "q",
      ".", "a", ")", ";", "}", "}">>

\* A base inherited twice, and super through all of them
Diamond ==
    <<"contract", "A", "{", "uint8", "x", ";", "constructor", "(", "uint8", "a", ")", "public", "{", "x", "+=",
      "a", ";", "}", "function", "f", "(", ")", "public", "returns", "(", "uint8", ")", "{", "return", "x", ";",
      "}", "}", "contract", "B", "is", "A", "{", "uint8", "y", "=", "1", ";", "modifier", "m", "{", "_", ";", "}",
      "function", "f", "(", ")", "public", "m", "returns", "(", "uint8", ")", "{", "x", "++", ";", "return",
      "super", ".", "f", "(", ")", ";", "}", "}", "contract", "C", "is", "A", "{", "modifier", "n", "{", "require",
      "(", "x", ">", "0", ")", ";", "_", ";", "}", "function", "f", "(", ")", "public", "n", "returns", "(",
      "uint8", ")", "{", "x", "+=", "2", ";", "return", "super", ".", "f", "(", ")", ";", "}", "}", "contract",
      "D", "is", "B", ",", "C", "{", "constructor", "(", ")", "A", "(", "y", ")", "public", "{", "x", "+=", "y",
      ";", "}", "modifier", "m", "{", "x", "=", "0", ";", "_", ";", "}", "function", "f", "(", ")", "public", "m",
      "returns", "(", "uint8", ")", "{", "return", "super", ".", "f", "(", ")", "+", "C", ".", "f", "(", ")", ";",
      "}", "}">>

\* Functions that only the constructor refers to
LateFunctions ==
    <<"contract", "A", "{", "uint8", "x", ";", "function", "g", "(", "uint8", "a", ")", "internal", "returns", "(",
      "uint8", ")", "{", "x", "+=", "a", ";", "return", "h", "(", ")", ";", "}", "function", "h", "(", ")",
      "internal", "view", "returns", "(", "uint8", ")", "{", "return", "x", ";", "}", "}", "contract", "B", "is",
      "A", "{", "uint8", "y", "=", "g", "(", "1", ")", ";", "constructor", "(", ")", "public", "{", "A", ".", "h",
      ";", "super", ".", "g", ";", "y", "+=", "super", ".", "g", "(", "2", ")", ";", "}", "function", "h", "(",
      ")", "internal", "view", "returns", "(", "uint8", ")", "{", "return", "x", "+", "1", ";", "}", "function",
      "f", "(", ")", "public", "view", "returns", "(", "uint8", ")", "{", "return", "y", ";", "}", "}">>

\* Arrays in memory: new ones, shared ones, deleted ones
MemoryArrays ==
    <<"contract", "A", "{", "uint8", "n", ";", "function", "f", "(", "uint8", "a", ")", "public", "pure",
      "returns", "(", "uint8", "[", "]", "memory", ",", "uint", ")", "{", "uint8", "[", "]", "memory", "x", "=",
      "new", "uint8", "[", "]", "(", "a", ")", ";", "x", "[", "1", "]", "=", "a", ";", "uint8", "[", "]", "memory",
      "y", "=", "x", ";", "y", "[", "0", "]", "=", "1", ";", "delete", "x", ";", "return", "(", "y", ",", "x", ".",
      "length", ")", ";", "}", "function", "g", "(", "uint8", "[", "3", "]", "memory", "a", ",", "uint8", "i", ")",
      "internal", "pure", "returns", "(", "uint8", ")", "{", "a", "[", "i", "]", "=", "3", ";", "return", "a", "[",
      "0", "]", ";", "}", "function", "h", "(", "uint8", "i", ")", "public", "returns", "(", "uint8", ",", "uint8",
      ")", "{", "uint8", "[", "3", "]", "memory", "a", "=", "[", "uint8", "(", "1", ")", ",", "2", ",", "0", "]",
      ";", "n", "=", "g", "(", "a", ",", "i", ")", ";", "return", "(", "a", "[", "2", "]", ",", "n", ")", ";", "}",
      "}">>

\* addmod and mulmod, shifts of signed numbers, exponents
Modular ==
    <<"contract", "A", "{", "int8", "x", ";", "uint", "z", ";", "function", "f", "(", "uint", "a", ",", "uint8",
      "b", ")", "public", "returns", "(", "uint", ",", "uint", ",", "uint8", ")", "{", "z", "=", "a", "**", "b",
      ";", "return", "(", "addmod", "(", "a", ",", "z", ",", "b", ")", ",", "mulmod", "(", "a", ",", "a", ",", "b",
      ")", ",", "uint8", "(", "a", ")", "|", "~", "b", "&", "1", ")", ";", "}", "function", "g", "(", "int8", "a",
      ",", "uint8", "b", ")", "public", "returns", "(", "int8", ",", "int8", ")", "{", "x", ">>=", "b", ";", "x",
      "^=", "-", "a", ";", "return", "(", "a", ">>", "b", ",", "a", "<<", "1", ")", ";", "}", "}">>

\* Arrays of arrays in storage
NestedArrays ==
    <<"contract", "A", "{", "uint8", "[", "2", "]", "[", "]", "a", ";", "uint8", "[", "]", "[", "2", "]", "b", ";",
      "function", "f", "(", "uint8", "v", ")", "public", "{", "a", ".", "length", "++", ";", "a", "[", "0", "]",
      "[", "v", "]", "=", "v", ";", "b", "[", "v", "]", ".", "push", "(", "v", ")", ";", "a", ".", "push", "(",
      "[", "v", ",", "1", "]", ")", ";", "}", "function", "g", "(", ")", "public", "{", "a", ".", "pop", "(", ")",
      ";", "b", "[", "1", "]", "=", "b", "[", "0", "]", ";", "}", "function", "h", "(", ")", "public", "{",
      "delete", "b", ";", "a", ".", "length", "=", "1", ";", "}", "}">>

\* A function without a body cannot be deployed
Abstract ==
    <<"contract", "A", "{", "uint8", "x", ";", "function", "f", "(", ")", "public", ";", "function", "g", "(", ")",
      "public", "{", "f", "(", ")", ";", "x", "++", ";", "}", "}">>

\* More variables than the stack can be reached down
TooDeep ==
    <<"contract", "A", "{", "function", "f", "(", "uint8", "a", ")", "public", "pure", "returns", "(", "uint8",
      ")", "{", "uint8", "b", ";", "uint8", "c", ";", "uint8", "d", ";", "uint8", "e", ";", "uint8", "g", ";",
      "uint8", "h", ";", "uint8", "i", ";", "uint8", "j", ";", "uint8", "k", ";", "uint8", "l", ";", "uint8", "m",
      ";", "uint8", "n", ";", "uint8", "o", ";", "uint8", "q", ";", "uint8", "r", ";", "uint8", "s", ";", "return",
      "a", ";", "}", "}">>

\* Structs are copied from memory to storage, which is not implemented.
StructsCopied ==
    <<"contract", "A", "{", "struct", "S", "{", "uint8", "a", ";", "}", "S", "[", "]", "xs", ";", "function", "f",
      "(", ")", "public", "{", "S", "[", "]", "memory", "ys", "=", "new", "S", "[", "]", "(", "1", ")", ";", "xs",
      "=", "ys", ";", "}", "}">>

\* Operands, arguments and assignments with side effects on one another
SideEffects ==
    <<"contract", "A", "{", "uint8", "x", ";", "uint8", "y", ";", "function", "f", "(", "uint8", "a", ")",
      "internal", "returns", "(", "uint8", ")", "{", "y", "=", "x", ";", "x", "=", "a", ";", "return", "a", ";",
      "}", "function", "g", "(", "uint8", "a", ")", "public", "returns", "(", "uint8", ")", "{", "x", "=", "1",
      ";", "return", "f", "(", "a", ")", "-", "f", "(", "2", ")", "*", "x", "+", "y", ";", "}", "function", "h",
      "(", "uint8", "a", ")", "public", "{", "x", "=", "f", "(", "1", ")", "+", "(", "x", "=", "a", ")", ";", "if",
      "(", "f", "(", "a", ")", ">", "1", "&&", "f", "(", "0", ")", "==", "0", "||", "f", "(", "3", ")", "<", "0",
      ")", "{", "y", "=", "2", ";", "}", "else", "y", "++", ";", "}", "}">>

\* Names that hide others; private members; operators of all strengths
Shadowing ==
    <<"contract", "B", "{", "uint8", "z", ";", "uint8", "private", "w", ";", "function", "g", "(", ")", "internal",
      "returns", "(", "uint8", ")", "{", "return", "w", "++", ";", "}", "}", "contract", "A", "is", "B", "{",
      "uint8", "x", ";", "uint8", "w", ";", "function", "f", "(", "uint8", "y", ")", "public", "returns", "(",
      "uint8", ")", "{", "x", "=", "y", ";", "uint8", "x", "=", "x", ";", "{", "x", "++", ";", "uint8", "y", "=",
      "x", "+", "y", ";", "x", "=", "y", ";", "w", "=", "y", ";", "}", "for", "(", "uint8", "z", "=", "1", ";",
      "z", "<", "x", ";", "z", "++", ")", "{", "uint8", "y", "=", "z", ";", "y", "++", ";", "}", "return", "x",
      "+", "y", "*", "g", "(", ")", ";", "}", "function", "h", "(", "uint8", "a", ",", "uint8", "b", ")", "public",
      "pure", "returns", "(", "uint8", ",", "bool", ")", "{", "return", "(", "a", "+", "b", "*", "2", "-", "a",
      "**", "2", "**", "b", "<<", "1", "&", "3", "|", "1", "^", "b", ",", "a", "==", "b", "||", "a", "<", "b",
      "&&", "!", "(", "a", "+", "1", ">", "b", ")", ")", ";", "}", "}">>

\* Storage pointers that are assigned on every path that returns
AssignedPointers ==
    <<"contract", "A", "{", "struct", "S", "{", "uint8", "a", ";", "uint8", "b", ";", "}", "S", "s", ";", "S", "t",
      ";", "modifier", "m", "(", "uint8", "a", ")", "{", "if", "(", "a", "==", "2", ")", "revert", "(", ")", ";",
      "_", ";", "}", "function", "q", "(", "uint8", "a", ")", "internal", "m", "(", "a", ")", "returns", "(", "S",
      "storage", "r", ")", "{", "if", "(", "a", "==", "0", ")", "return", "s", ";", "if", "(", "a", "==", "3", ")",
      "{", "r", ".", "b", "=", "1", ";", "revert", "(", ")", ";", "}", "assert", "(", "a", "==", "1", ")", ";",
      "do", "{", "if", "(", "a", "==", "0", ")", "{", "r", "=", "s", ";", "break", ";", "}", "r", "=", "t", ";",
      "a", "--", ";", "}", "while", "(", "a", ">", "0", "||", "r", ".", "b", "==", "3", ")", ";", "}", "function",
      "f", "(", "uint8", "a", ")", "public", "returns", "(", "uint8", ")", "{", "S", "storage", "x", "=", "q", "(",
      "a", ")", ";", "x", ".", "a", "=", "a", "+", "1", ";", "return", "s", ".", "a", "+", "t", ".", "a", ";", "}",
      "}">>

\* Programs with errors: of the parser, the syntax, declarations, names, bases, overriding,
\* types, constants, mutability, scopes, recursive structs, clashes, modifiers, locations and pointers
Erroneous ==
    <<<<"contract", "A", "{", "function", "f", "(", ")", "public", "{", "uint8", "a", "=", "1", "+", ";", "}",
        "}">>,
      <<"contract", "A", "{", "function", "f", "(", ")", "public", "{", "continue", ";", "}", "}">>,
      <<"contract", "A", "{", "uint8", "x", ";", "function", "x", "(", ")", "public", "{", "}", "}">>,
      <<"contract", "A", "{", "function", "f", "(", ")", "public", "{", "y", "=", "1", ";", "}", "}">>,
      <<"contract", "A", "{", "}", "contract", "B", "is", "A", "{", "}", "contract", "C", "is", "B", ",", "A", "{",
        "}">>,
      <<"contract", "A", "{", "function", "f", "(", ")", "public", "{", "}", "}", "contract", "B", "is", "A", "{",
        "function", "f", "(", ")", "internal", "{", "}", "}">>,
      <<"contract", "A", "{", "function", "f", "(", ")", "public", "{", "uint8", "a", "=", "9", ";", "}", "}">>,
      <<"contract", "A", "{", "uint", "constant", "a", "=", "b", ";", "uint", "constant", "b", "=", "a", ";", "}">>,
      <<"contract", "A", "{", "function", "f", "(", ")", "public", "pure", "returns", "(", "uint", ")", "{",
        "return", "1", "%", "0", ";", "}", "}">>,
      <<"contract", "A", "{", "uint8", "x", ";", "function", "f", "(", ")", "public", "view", "{", "x", "++", ";",
        "}", "}">>,
      <<"contract", "A", "{", "function", "f", "(", ")", "public", "{", "{", "uint8", "a", "=", "1", ";", "}", "a",
        "=", "2", ";", "}", "}">>,
      <<"contract", "A", "{", "struct", "S", "{", "S", "[", "2", "]", "a", ";", "}", "}">>,
      <<"contract", "A", "{", "function", "f", "(", ")", "internal", "{", "}", "function", "f", "(", ")", "public",
        "{", "}", "}">>,
      <<"contract", "A", "{", "modifier", "m", "{", "_", ";", "}", "function", "f", "(", ")", "public", "m", "(",
        "1", ")", "{", "}", "}">>,
      <<"contract", "A", "{", "uint8", "[", "]", "xs", ";", "function", "f", "(", ")", "public", "{", "uint8", "[",
        "]", "memory", "y", "=", "xs", ";", "uint8", "[", "]", "storage", "z", "=", "y", ";", "}", "}">>,
      <<"contract", "A", "{", "struct", "S", "{", "uint8", "a", ";", "}", "uint8", "z", ";", "S", "s", ";",
        "function", "q", "(", "uint8", "a", ")", "internal", "returns", "(", "S", "storage", "r", ")", "{",
        "while", "(", "a", ">", "0", ")", "{", "r", "=", "s", ";", "a", "--", ";", "}", "}", "function", "f", "(",
        "uint8", "a", ")", "public", "returns", "(", "uint8", ")", "{", "return", "q", "(", "a", ")", ".", "a",
        ";", "}", "}">>,
      <<"contract", "A", "{", "struct", "S", "{", "uint8", "a", ";", "}", "uint8", "z", ";", "S", "s", ";",
        "function", "q", "(", "uint8", "a", ")", "internal", "returns", "(", "S", "storage", "r", ")", "{", "a",
        ">", "0", "&&", "(", "r", "=", "s", ")", ".", "a", "==", "0", ";", "}", "function", "f", "(", "uint8", "a",
        ")", "public", "returns", "(", "uint8", ")", "{", "return", "q", "(", "a", ")", ".", "a", ";", "}", "}">>,
      <<"contract", "A", "{", "struct", "S", "{", "uint8", "a", ";", "}", "uint8", "z", ";", "S", "s", ";",
        "modifier", "m", "(", "uint8", "a", ")", "{", "if", "(", "a", ">", "0", ")", "_", ";", "}", "function",
        "q", "(", "uint8", "a", ")", "internal", "m", "(", "a", ")", "returns", "(", "S", "storage", "r", ")", "{",
        "r", "=", "s", ";", "}", "function", "f", "(", "uint8", "a", ")", "public", "returns", "(", "uint8", ")",
        "{", "return", "q", "(", "a", ")", ".", "a", ";", "}", "}">>,
      <<"contract", "A", "{", "struct", "S", "{", "uint8", "a", ";", "}", "uint8", "z", ";", "S", "s", ";",
        "function", "q", "(", "uint8", "a", ")", "internal", "returns", "(", "S", "storage", "r", ")", "{", "do",
        "{", "if", "(", "a", "==", "0", ")", "break", ";", "r", "=", "s", ";", "}", "while", "(", "a", ">", "2",
        ")", ";", "}", "function", "f", "(", "uint8", "a", ")", "public", "returns", "(", "uint8", ")", "{",
        "return", "q", "(", "a", ")", ".", "a", ";", "}", "}">>,
      <<"contract", "A", "{", "struct", "S", "{", "uint8", "a", ";", "}", "uint8", "z", ";", "S", "s", ";",
        "function", "q", "(", "uint8", "a", ")", "internal", "returns", "(", "S", "storage", "r", ")", "{", "for",
        "(", "uint8", "i", "=", "0", ";", "i", "<", "a", ";", "i", "++", ")", "{", "require", "(", "r", ".", "a",
        "==", "0", ")", ";", "r", "=", "s", ";", "}", "r", ".", "a", "=", "1", ";", "return", "s", ";", "}",
        "function", "f", "(", "uint8", "a", ")", "public", "returns", "(", "uint8", ")", "{", "return", "q", "(",
        "a", ")", ".", "a", ";", "}", "}">>,
      <<"contract", "A", "{", "struct", "S", "{", "uint8", "a", ";", "}", "uint8", "z", ";", "S", "s", ";",
        "function", "q", "(", "uint8", "a", ")", "internal", "returns", "(", "S", "storage", "r", ")", "{", "if",
        "(", "a", "==", "0", ")", "return", "r", ";", "r", "=", "s", ";", "}", "function", "f", "(", "uint8", "a",
        ")", "public", "returns", "(", "uint8", ")", "{", "return", "q", "(", "a", ")", ".", "a", ";", "}", "}">>>>

\* A program, the words that are passed to it, and how many messages it gets
Given_(source, words, messages) == [source |-> source, words |-> words, messages |-> messages]

SmallPrograms ==
    <<Given_(Arithmetic, {0, 1, 3}, 3),
      Given_(StorageArrays, {0, 1, 3}, 4),
      Given_(Structs, {0, 1, 3}, 3),
      Given_(Modifiers, {0, 1, 3}, 4),
      Given_(Constructors, {0, 1, 3}, 3),
      Given_(Events, {0, 1, 3}, 3),
      Given_(MemoryStructs, {0, 1, 3}, 3),
      Given_(Loops, {0, 1, 3}, 3),
      Given_(Enums, {0, 1, 3}, 3),
      Given_(Accessors, {0, 1, 3}, 3),
      Given_(Pointers, {0, 1}, 5),
      Given_(Diamond, {0, 1}, 3),
      Given_(LateFunctions, {0, 1}, 3),
      Given_(MemoryArrays, {0, 1, 3}, 3),
      Given_(Modular, {0, 1, 3}, 3),
      Given_(NestedArrays, {0, 1}, 5),
      Given_(Abstract, {0}, 0),
      Given_(TooDeep, {0}, 0),
      Given_(StructsCopied, {0}, 0),
      Given_(SideEffects, {0, 1, 3}, 4),
      Given_(Shadowing, {0, 1, 3}, 3),
      Given_(AssignedPointers, {0, 1, 2, 3}, 2)>>
    \o [i \in DOMAIN Erroneous |-> Given_(Erroneous[i], {0}, 2)]

\* A program in which the copied array leaves elements behind
ArrayCopy ==
    <<"contract", "A", "{", "uint8", "[", "]", "xs", ";", "uint8", "[", "]", "ys", ";", "function", "f", "(", ")",
      "public", "returns", "(", "uint8", ")", "{", "xs", ".", "length", "=", "10", ";", "xs", "[", "9", "]", "=",
      "1", ";", "xs", "=", "ys", ";", "xs", ".", "length", "=", "10", ";", "return", "xs", "[", "9", "]", ";", "}",
      "}">>

CopyPrograms == <<Given_(ArrayCopy, {0}, 2)>>

\* Selectors: the functions of the programs have these names, and no two clash.
FunctionNames == <<"f", "g", "h", "a", "b", "c", "d", "e", "i", "j", "k", "l", "x", "y", "s">>
SelectorOf(signature) ==
    IF \E i \in DOMAIN FunctionNames : FunctionNames[i] = signature[1]
    THEN CHOOSE i \in DOMAIN FunctionNames : FunctionNames[i] = signature[1] ELSE 0

\* A hash that has no collisions among the slots that the programs use
SmallHash(words) == FoldLeft(LAMBDA h, w : (h * 389 + w * 101 + 1007) % 65536, 77, words)
=============================================================================
