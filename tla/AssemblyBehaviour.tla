------------------------- MODULE AssemblyBehaviour -------------------------
(***************************************************************************)
(* What assembly items do when the machine runs them, and that the          *)
(* optimised assemblies of AssemblyOptimiser do the same as the original    *)
(* ones.  Words have WordBits bits instead of 256.                          *)
(***************************************************************************)
EXTENDS AssemblyOptimiser, Bitwise

CONSTANTS
    WordBits,     \* width of a machine word
    Stacks,       \* stacks the machine is started on
    Fuel          \* bound on the steps of an execution

ASSUME WordAssumption == WordBits \in Nat \ {0} /\ AddressBits <= WordBits

MaxWord == 2 ^ WordBits - 1

-----------------------------------------------------------------------------
(* The machine.  The first element of the stack is its top.  A tag is the   *)
(* address of its JUMPDEST; that number differs between two layouts of one  *)
(* program, and so it is the tag that is pushed.  A tag of a sub-assembly   *)
(* is an address in other code and stands for no particular word here.  log *)
(* records the effects that outlive the execution, and calls.               *)

Start(pc, stack) == [pc |-> pc, stack |-> stack, log |-> << >>, halt |-> "no"]

Bool(condition) == IF condition THEN 1 ELSE 0

Result(instruction, x, y) ==
    CASE instruction = "ADD"    -> (x + y) % 2 ^ WordBits
      [] instruction = "AND"    -> x & y
      [] instruction = "NOT"    -> MaxWord - x
      [] instruction = "ISZERO" -> Bool(x = 0)
      [] instruction = "LT"     -> Bool(x < y)
      [] instruction = "GT"     -> Bool(x > y)
      [] instruction = "CALL"   -> x

\* The position of tag t in the code; no position if it has none.
Position(code, t) == {i \in DOMAIN code : code[i] = Tag(t)}

Jump(code, s, t, stack) ==
    IF Position(code, t) = {} THEN [s EXCEPT !.halt = "bad jump"]
    ELSE [s EXCEPT !.pc = CHOOSE i \in Position(code, t) : TRUE, !.stack = stack]

Execute(code, s, instruction) ==
    LET info == InstructionInfo[instruction]
        x == s.stack[1]
        y == IF info.args > 1 THEN s.stack[2] ELSE 0
        rest == SubSeq(s.stack, info.args + 1, Len(s.stack))
        next == [s EXCEPT !.pc = @ + 1, !.stack = rest]
    IN CASE Len(s.stack) < info.args -> [s EXCEPT !.halt = "underflow"]
         [] Len(s.stack) >= info.args /\ instruction = "POP"    -> next
         [] Len(s.stack) >= info.args /\ instruction = "DUP1"   -> [next EXCEPT !.stack = <<x, x>> \o rest]
         [] Len(s.stack) >= info.args /\ instruction = "SWAP1"  -> [next EXCEPT !.stack = <<y, x>> \o rest]
         [] Len(s.stack) >= info.args /\ instruction = "SSTORE" -> [next EXCEPT !.log = Append(@, <<x, y>>)]
         [] Len(s.stack) >= info.args /\ instruction = "STOP"   -> [s EXCEPT !.halt = "stop"]
         [] Len(s.stack) >= info.args /\ instruction = "JUMP"   -> Jump(code, s, x, rest)
         [] Len(s.stack) >= info.args /\ instruction = "JUMPI"  ->
                IF y = 0 THEN next ELSE Jump(code, s, x, rest)
         [] OTHER ->
                [next EXCEPT !.stack = <<Result(instruction, x, y)>> \o rest,
                             !.log = IF info.sideEffects THEN Append(@, <<x>>) ELSE @]

Step(code, s) ==
    IF s.pc > Len(code) THEN [s EXCEPT !.halt = "stop"]
    ELSE LET item == code[s.pc]
         IN CASE item.type = "Operation" -> Execute(code, s, item.instruction)
              [] item.type = "Tag"       -> [s EXCEPT !.pc = @ + 1]
              [] OTHER                   -> [s EXCEPT !.pc = @ + 1, 
                                           !.stack = <<IF item.sub = 0 THEN item.data ELSE 0>> \o @]

RECURSIVE Run(_, _, _)
Run(code, s, fuel) ==
    IF fuel = 0 \/ s.halt # "no" THEN s ELSE Run(code, Step(code, s), fuel - 1)

\* The stack is gone when the execution ends.
Outcome(s) == [halt |-> s.halt, log |-> s.log]

(***************************************************************************)
(* Started at position j, code q does what p does from position i: for      *)
(* every stack of stacks on which p comes to an end, within the given       *)
(* number of steps and without taking more from the stack than there is.    *)
(***************************************************************************)
Simulates(q, j, p, i, stacks, fuel) ==
    \A stack \in stacks :
        LET s == Run(p, Start(i, stack), fuel)
        IN s.halt \in {"stop", "bad jump"} =>
              Outcome(Run(q, Start(j, stack), fuel)) = Outcome(s)

-----------------------------------------------------------------------------

\* The optimised code has the same effects as the code it was made from, for
\* the sub-assembly and for the outer one, whatever rounds of JumpdestRemover,
\* PeepholeOptimiser and BlockDeduplicator led to it.
OptimisedCodeDoesTheSame ==
    step = "done" => \A l \in {"sub", "outer"} :
        Simulates(assembly[l], 1, original[l], 1, Stacks, Fuel)

\* The tags a replaced tag may have become, by the replacements made so far.
RECURSIVE Becomes(_)
Becomes(t) ==
    {t} \cup (IF t \in DOMAIN tagReplacements THEN Becomes(tagReplacements[t]) ELSE {})

\* For every tag that the outer assembly pushes, the optimised sub-assembly still
\* has a tag with code that does the same, and following the replacements that
\* optimiseInternal returns leads to it: the outside references that the jumpdest
\* remover respects are redirected along with the replacements.
OutsideTagsAreKept ==
    level = "sub" /\ step = "end" /\ count = 0 =>
        \A t \in referencedTags(original.outer, Sub) :
            \E u \in Becomes(t) \cap outside :
                \E i \in Position(original.sub, t), j \in Position(assembly.sub, u) :
                    Simulates(assembly.sub, j, original.sub, i, Stacks, Fuel)

ForeignTags(code) ==
    LET pushes == SelectSeq(code, LAMBDA item : item.type = "PushTag" /\ item.sub = Sub)
    IN [k \in DOMAIN pushes |-> pushes[k].data]

\* A tag of the sub-assembly that the outer assembly pushes, a function that its
\* creation code stores, still names code that does the same as before: the
\* replacements handed back by the sub-assembly and the tags that it kept agree.
ForeignTagsKeepTheirMeaning ==
    step = "done" =>
        LET before == ForeignTags(original.outer)
            after == ForeignTags(assembly.outer)
        IN Len(after) = Len(before) => \A k \in DOMAIN before :
            \E i \in Position(original.sub, before[k]), j \in Position(assembly.sub, after[k]) :
                Simulates(assembly.sub, j, original.sub, i, Stacks, Fuel)

=============================================================================
