---------------------------- MODULE Instructions ----------------------------
(***************************************************************************)
(* The instructions of the machine: what libsvmasm knows about each one     *)
(* (Instruction.cpp, SemanticInformation.cpp) and what the pure ones        *)
(* compute.                                                                 *)
(*                                                                         *)
(* Words have WordBits bits instead of 256, bytes ByteBits bits instead of  *)
(* 8 and addresses AddressBits bits instead of 160.                         *)
(***************************************************************************)
EXTENDS Integers, Sequences, FiniteSets, TLC, Bitwise

CONSTANTS WordBits, ByteBits, AddressBits

ASSUME WidthAssumption ==
    /\ ByteBits \in 1..WordBits /\ WordBits % ByteBits = 0
    /\ AddressBits \in 1..(WordBits - 1)
    /\ WordBits < 2 ^ WordBits - 1

\* The value of F for v, which is computed once.
With(v, F(_)) == F(v)

Word == 0..(2 ^ WordBits - 1)
Ones == 2 ^ WordBits - 1
WordBytes == WordBits \div ByteBits

\* enum class Tier, by position
Zero    == 0
Base    == 1
VeryLow == 2
Low     == 3
Mid     == 4
High    == 5
Ext     == 6
ExtCode == 7
Balance == 8
Special == 9

Row(names, args, ret, sideEffects, tier) ==
    [n \in names |-> [args |-> args, ret |-> ret, sideEffects |-> sideEffects, tier |-> tier]]

instructionInfo ==
    Row({"STOP", "INVALID"}, 0, 0, TRUE, Zero)
 @@ Row({"RETURN", "REVERT"}, 2, 0, TRUE, Zero)
 @@ Row({"ADD", "SUB", "LT", "GT", "SLT", "SGT", "EQ", "AND", "OR", "XOR", "BYTE", "SHL",
         "SHR", "SAR"}, 2, 1, FALSE, VeryLow)
 @@ Row({"NOT", "ISZERO", "CALLDATALOAD"}, 1, 1, FALSE, VeryLow)
 @@ Row({"MUL", "DIV", "SDIV", "MOD", "SMOD", "SIGNEXTEND"}, 2, 1, FALSE, Low)
 @@ Row({"ADDMOD", "MULMOD"}, 3, 1, FALSE, Mid)
 @@ Row({"EXP"}, 2, 1, FALSE, Special)
 @@ Row({"KECCAK256"}, 2, 1, TRUE, Special)
 @@ Row({"ADDRESS", "ORIGIN", "CALLER", "CALLVALUE", "CALLDATASIZE", "CODESIZE", "GASPRICE",
         "RETURNDATASIZE", "COINBASE", "TIMESTAMP", "NUMBER", "DIFFICULTY", "GASLIMIT",
         "PC", "MSIZE", "GAS"}, 0, 1, FALSE, Base)
 @@ Row({"BALANCE", "EXTCODEHASH"}, 1, 1, FALSE, Balance)
 @@ Row({"EXTCODESIZE"}, 1, 1, FALSE, ExtCode)
 @@ Row({"BLOCKHASH"}, 1, 1, FALSE, Ext)
 @@ Row({"CALLDATACOPY", "CODECOPY", "RETURNDATACOPY"}, 3, 0, TRUE, VeryLow)
 @@ Row({"EXTCODECOPY"}, 4, 0, TRUE, ExtCode)
 @@ Row({"POP"}, 1, 0, FALSE, Base)
 @@ Row({"MLOAD"}, 1, 1, TRUE, VeryLow)
 @@ Row({"MSTORE", "MSTORE8"}, 2, 0, TRUE, VeryLow)
 @@ Row({"SLOAD"}, 1, 1, FALSE, Special)
 @@ Row({"SSTORE", "LOG0"}, 2, 0, TRUE, Special)
 @@ Row({"JUMP"}, 1, 0, TRUE, Mid)
 @@ Row({"JUMPI"}, 2, 0, TRUE, High)
 @@ Row({"JUMPDEST"}, 0, 0, TRUE, Special)
 @@ Row({"LOG1"}, 3, 0, TRUE, Special)
 @@ Row({"LOG2"}, 4, 0, TRUE, Special)
 @@ Row({"LOG3"}, 5, 0, TRUE, Special)
 @@ Row({"LOG4"}, 6, 0, TRUE, Special)
 @@ Row({"CREATE"}, 3, 1, TRUE, Special)
 @@ Row({"CREATE2"}, 4, 1, TRUE, Special)
 @@ Row({"CALL", "CALLCODE"}, 7, 1, TRUE, Special)
 @@ Row({"DELEGATECALL", "STATICCALL"}, 6, 1, TRUE, Special)
 @@ Row({"SELFDESTRUCT"}, 1, 0, TRUE, Special)

Instruction == DOMAIN instructionInfo

-----------------------------------------------------------------------------
(* SemanticInformation *)

isCommutativeOperation(i) == i \in {"ADD", "MUL", "EQ", "AND", "OR", "XOR"}

terminatesControlFlow(i) == i \in {"RETURN", "SELFDESTRUCT", "STOP", "INVALID", "REVERT"}

altersControlFlow(i) == i \in {"JUMP", "JUMPI"} \/ terminatesControlFlow(i)

isDeterministic(i) ==
    i \notin {"CALL", "CALLCODE", "DELEGATECALL", "STATICCALL", "CREATE", "CREATE2", "GAS", "PC",
              "MSIZE", "BALANCE", "EXTCODESIZE", "EXTCODEHASH", "RETURNDATACOPY",
              "RETURNDATASIZE"}

movable(i) ==
    /\ ~instructionInfo[i].sideEffects
    /\ i \notin {"KECCAK256", "BALANCE", "EXTCODESIZE", "EXTCODEHASH", "RETURNDATASIZE", "SLOAD",
                 "PC", "MSIZE", "GAS"}

sideEffectFree(i) == ~instructionInfo[i].sideEffects

sideEffectFreeIfNoMSize(i) == i \in {"KECCAK256", "MLOAD"} \/ sideEffectFree(i)

invalidatesMemory(i) ==
    i \in {"CALLDATACOPY", "CODECOPY", "EXTCODECOPY", "RETURNDATACOPY", "MSTORE", "MSTORE8",
           "CALL", "CALLCODE", "DELEGATECALL", "STATICCALL"}

invalidatesStorage(i) ==
    i \in {"CALL", "CALLCODE", "DELEGATECALL", "CREATE", "CREATE2", "SSTORE"}

invalidInViewFunctions(i) ==
    i \in {"SSTORE", "JUMP", "JUMPI", "LOG0", "LOG1", "LOG2", "LOG3", "LOG4", "CREATE", "CALL", "CALLCODE",
           "DELEGATECALL", "CREATE2", "SELFDESTRUCT"}

invalidInPureFunctions(i) ==
    \/ i \in {"ADDRESS", "BALANCE", "ORIGIN", "CALLER", "CALLVALUE", "GAS", "GASPRICE",
              "EXTCODESIZE", "EXTCODECOPY", "EXTCODEHASH", "BLOCKHASH", "COINBASE", "TIMESTAMP",
              "NUMBER", "DIFFICULTY", "GASLIMIT", "STATICCALL", "SLOAD"}
    \/ invalidInViewFunctions(i)

-----------------------------------------------------------------------------
(* What the machine computes. *)

Wrap(n) == n % 2 ^ WordBits
u2s(x) == IF x >= 2 ^ (WordBits - 1) THEN x - 2 ^ WordBits ELSE x
Bool(b) == IF b THEN 1 ELSE 0
Magnitude(n) == IF n < 0 THEN -n ELSE n
Sign(n) == IF n < 0 THEN -1 ELSE 1

\* Signed division rounds to zero, the sign of the remainder is that of x.
SDiv(x, y) == IF y = 0 THEN 0 ELSE Sign(x) * Sign(y) * (Magnitude(x) \div Magnitude(y))
SMod(x, y) == IF y = 0 THEN 0 ELSE Sign(x) * (Magnitude(x) % Magnitude(y))

\* The product of two words, by halves of one of them
ProductModulo(x, y, n) ==
    LET half == 2 ^ (WordBits \div 2)
    IN (((x * (y \div half)) % n) * half + x * (y % half)) % n
Product(x, y) == ProductModulo(x, y, 2 ^ WordBits)

RECURSIVE Exp(_, _)
Exp(x, n) ==
    IF n = 0 THEN 1
    ELSE With(Exp(x, n \div 2), LAMBDA r : IF n % 2 = 0 THEN Product(r, r) ELSE Product(x, Product(r, r)))

SignExtend(k, x) ==
    IF k >= WordBytes - 1 THEN x
    ELSE LET bits == (k + 1) * ByteBits
             low == x % 2 ^ bits
         IN IF low >= 2 ^ (bits - 1) THEN Wrap(low - 2 ^ bits) ELSE low

Evaluate(i, a) ==
    CASE i = "ADD" -> Wrap(a[1] + a[2])
      [] i = "SUB" -> Wrap(a[1] - a[2])
      [] i = "MUL" -> Product(a[1], a[2])
      [] i = "DIV" -> IF a[2] = 0 THEN 0 ELSE a[1] \div a[2]
      [] i = "MOD" -> IF a[2] = 0 THEN 0 ELSE a[1] % a[2]
      [] i = "SDIV" -> Wrap(SDiv(u2s(a[1]), u2s(a[2])))
      [] i = "SMOD" -> Wrap(SMod(u2s(a[1]), u2s(a[2])))
      [] i = "EXP" -> Exp(a[1], a[2])
      [] i = "NOT" -> Ones - a[1]
      [] i = "ISZERO" -> Bool(a[1] = 0)
      [] i = "LT" -> Bool(a[1] < a[2])
      [] i = "GT" -> Bool(a[1] > a[2])
      [] i = "SLT" -> Bool(u2s(a[1]) < u2s(a[2]))
      [] i = "SGT" -> Bool(u2s(a[1]) > u2s(a[2]))
      [] i = "EQ" -> Bool(a[1] = a[2])
      [] i = "AND" -> a[1] & a[2]
      [] i = "OR" -> a[1] | a[2]
      [] i = "XOR" -> a[1] ^^ a[2]
      [] i = "BYTE" -> IF a[1] >= WordBytes THEN 0
                       ELSE (a[2] \div 2 ^ (ByteBits * (WordBytes - 1 - a[1]))) % 2 ^ ByteBits
      [] i = "SHL" -> IF a[1] >= WordBits THEN 0 ELSE Product(a[2], 2 ^ a[1])
      [] i = "SHR" -> IF a[1] >= WordBits THEN 0 ELSE a[2] \div 2 ^ a[1]
      [] i = "SAR" -> IF a[1] >= WordBits THEN Wrap(IF u2s(a[2]) < 0 THEN -1 ELSE 0)
                      ELSE Wrap(u2s(a[2]) \div 2 ^ a[1])
      [] i = "ADDMOD" -> IF a[3] = 0 THEN 0 ELSE (a[1] + a[2]) % a[3]
      [] i = "MULMOD" -> IF a[3] = 0 THEN 0 ELSE ProductModulo(a[1], a[2], a[3])
      [] i = "SIGNEXTEND" -> SignExtend(a[1], a[2])

=============================================================================
