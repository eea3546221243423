------------------------- MODULE PeepholeOptimiser -------------------------
(***************************************************************************)
(* PeepholeOptimiser: one pass walks over the items, rewriting the window  *)
(* in front of it by the first method that applies, and the result is kept *)
(* only if it is better.                                                   *)
(*                                                                         *)
(* A method is an operator on the items w that are still to be read.  It   *)
(* yields no rewrite, or the one it makes: the number of items consumed    *)
(* and the items put in their place.                                       *)
(***************************************************************************)
EXTENDS Integers, Sequences, FiniteSetsExt

(* The assembly items of libsvmasm (AssemblyItem, Instruction,              *)
(* SemanticInformation).  An item is a record.  For Tag and PushTag data is *)
(* the number of the tag and sub the upper half of AssemblyItem::data(): 0  *)
(* for a tag of the assembly itself, subId + 1 for one of its               *)
(* sub-assemblies.  The instructions are a choice of those that the         *)
(* optimisers treat differently.                                            *)

CONSTANT
    AddressBits    \* as many bits as any code address has: 32

ASSUME AddressAssumption == AddressBits \in Nat

Item(type, instruction, sub, data) ==
    [type |-> type, instruction |-> instruction, sub |-> sub, data |-> data]

Operation(instruction)  == Item("Operation", instruction, 0, 0)
Push(n)                 == Item("Push", "", 0, n)
PushTag(t)              == Item("PushTag", "", 0, t)
ForeignPushTag(sub, t)  == Item("PushTag", "", sub, t)
Tag(t)                  == Item("Tag", "", 0, t)

Is(item, instruction) == item.type = "Operation" /\ item.instruction = instruction

\* instructionInfo
Info(args, ret, sideEffects) == [args |-> args, ret |-> ret, sideEffects |-> sideEffects]

InstructionInfo ==
    [ADD    |-> Info(2, 1, FALSE), AND  |-> Info(2, 1, FALSE), NOT   |-> Info(1, 1, FALSE),
     ISZERO |-> Info(1, 1, FALSE), LT   |-> Info(2, 1, FALSE), GT    |-> Info(2, 1, FALSE),
     POP    |-> Info(1, 0, FALSE), DUP1 |-> Info(1, 2, FALSE), SWAP1 |-> Info(2, 2, FALSE),
     SSTORE |-> Info(2, 0, TRUE),  CALL |-> Info(1, 1, TRUE),  STOP  |-> Info(0, 0, TRUE),
     JUMP   |-> Info(1, 0, TRUE),  JUMPI |-> Info(2, 0, TRUE)]

AssemblyItems ==
    {item \in [type : {"Operation", "Push", "PushTag", "Tag"},
               instruction : {""} \cup DOMAIN InstructionInfo, sub : Nat, data : Nat] :
        item.type = "Operation" => item.instruction # ""}

isCommutativeOperation(item) == Is(item, "ADD") \/ Is(item, "AND")

\* SemanticInformation::altersControlFlow, but for JUMPI.
EndsBlock(item) == Is(item, "JUMP") \/ Is(item, "STOP")

bytesRequired(item, addressLength) ==
    CASE item.type \in {"Operation", "Tag"} -> 1
      [] item.type = "Push"                 -> 2
      [] item.type = "PushTag"              -> 1 + addressLength

Tags(code) == {code[i].data : i \in {j \in DOMAIN code : code[j].type = "Tag"}}

-----------------------------------------------------------------------------
Rewrite(applies, width, out) == IF applies THEN {[width |-> width, out |-> out]} ELSE {}

PushPop(w) ==
    Rewrite(/\ Len(w) >= 2
            /\ Is(w[2], "POP")
            /\ Is(w[1], "DUP1") \/ w[1].type \in {"Push", "PushTag"},
            2, << >>)

OpPop(w) ==
    LET info == InstructionInfo[w[1].instruction]
    IN Rewrite(/\ Len(w) >= 2
               /\ Is(w[2], "POP") /\ w[1].type = "Operation"
               /\ info.ret = 1 /\ ~info.sideEffects,
               2, [j \in 1..info.args |-> Operation("POP")])

DoublePush(w) ==
    Rewrite(Len(w) >= 2 /\ w[1].type = "Push" /\ w[2] = w[1],
            2, <<w[1], Operation("DUP1")>>)

DoubleSwap(w) ==
    Rewrite(Len(w) >= 2 /\ w[1] = w[2] /\ Is(w[1], "SWAP1"),
            2, << >>)

CommutativeSwap(w) ==
    Rewrite(Len(w) >= 2 /\ Is(w[1], "SWAP1") /\ isCommutativeOperation(w[2]),
            2, <<w[2]>>)

swappableOps == [LT |-> "GT", GT |-> "LT"]

SwapComparison(w) ==
    Rewrite(/\ Len(w) >= 2
            /\ Is(w[1], "SWAP1")
            /\ w[2].type = "Operation" /\ w[2].instruction \in DOMAIN swappableOps,
            2, <<Operation(swappableOps[w[2].instruction])>>)

IsZeroIsZeroJumpI(w) ==
    Rewrite(/\ Len(w) >= 4
            /\ Is(w[1], "ISZERO") /\ Is(w[2], "ISZERO")
            /\ w[3].type = "PushTag" /\ Is(w[4], "JUMPI"),
            4, <<w[3], w[4]>>)

JumpToNext(w) ==
    Rewrite(/\ Len(w) >= 3
            /\ w[1].type = "PushTag"
            /\ Is(w[2], "JUMP") \/ Is(w[2], "JUMPI")
            /\ w[3].type = "Tag"
            /\ w[1].sub = w[3].sub /\ w[1].data = w[3].data,
            3, IF Is(w[2], "JUMPI") THEN <<Operation("POP"), w[3]>> ELSE <<w[3]>>)

\* Mutant of UnreachableCode: does not stop at the next tag.
UnreachableCodePastTags(w) ==
    Rewrite(EndsBlock(w[1]) /\ Len(w) > 1, Len(w), <<w[1]>>)

\* Everything after a JUMP or STOP up to the next tag.
UnreachableCode(w) ==
    LET tags == {k \in DOMAIN w : w[k].type = "Tag"}
        width == IF tags = {} THEN Len(w) ELSE Min(tags) - 1
    IN Rewrite(EndsBlock(w[1]) /\ width > 1, width, <<w[1]>>)

TagConjunctions(w) ==
    Rewrite(/\ Len(w) >= 3
            /\ w[1].type = "PushTag" /\ Is(w[3], "AND")
            /\ w[2].type = "Push" /\ w[2].data % 2 ^ AddressBits = 2 ^ AddressBits - 1,
            3, <<w[1]>>)

TruthyAnd(w) ==
    Rewrite(/\ Len(w) >= 3
            /\ w[1].type = "Push" /\ w[1].data = 0
            /\ Is(w[2], "NOT") /\ Is(w[3], "AND"),
            3, << >>)

Identity(w) == Rewrite(TRUE, 1, <<w[1]>>)

\* The methods in the order in which they are tried.
Attempts(w) ==
    <<PushPop(w), OpPop(w), DoublePush(w), DoubleSwap(w), CommutativeSwap(w),
      SwapComparison(w), IsZeroIsZeroJumpI(w), JumpToNext(w), UnreachableCode(w),
      TagConjunctions(w), TruthyAnd(w), Identity(w)>>

\* The rewrite of the first method that applies.
applyMethods(w) ==
    LET attempts == Attempts(w)
        first == CHOOSE k \in DOMAIN attempts :
                    attempts[k] # {} /\ \A j \in 1..(k - 1) : attempts[j] = {}
    IN CHOOSE rewrite \in attempts[first] : TRUE

\* What one pass leaves in m_optimisedItems.
OnePass(items) ==
    LET from[i \in 1..(Len(items) + 1)] ==
            IF i > Len(items) THEN << >>
            ELSE LET rewrite == applyMethods(SubSeq(items, i, Len(items)))
                 IN rewrite.out \o from[i + rewrite.width]
    IN from[1]

CodeSize(items, addressLength) ==
    MapThenSumSet(LAMBDA i : bytesRequired(items[i], addressLength), DOMAIN items)

numberOfPops(items) == Cardinality({i \in DOMAIN items : Is(items[i], "POP")})

\* The condition under which optimise replaces m_items and reports a change.
IsBetter(new, old) ==
    \/ Len(new) < Len(old)
    \/ /\ Len(new) = Len(old)
       /\ CodeSize(new, 3) < CodeSize(old, 3) \/ numberOfPops(new) > numberOfPops(old)
=============================================================================
