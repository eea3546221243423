------------------------- MODULE AssemblyOptimiser -------------------------
(***************************************************************************)
(* Assembly::optimise on an assembly with one sub-assembly, followed by    *)
(* the tag resolution of Assembly::assemble.                               *)
(*                                                                         *)
(* optimiseInternal first optimises the sub-assembly, telling it which of  *)
(* its tags the outer assembly pushes; it gets back the tags that were     *)
(* replaced and applies the replacements to its own foreign PushTags.  It  *)
(* then optimises itself.  Both do rounds of JumpdestRemover,              *)
(* PeepholeOptimiser and BlockDeduplicator until a round changes nothing.  *)
(* The settings with runCSE or runConstantOptimiser are not modelled.      *)
(***************************************************************************)
EXTENDS PeepholeOptimiser, SequencesExt

CONSTANT
    Cases         \* what to optimise: [assembly |-> [sub |-> items, outer |-> items],
                  \* settings |-> the OptimiserSettings]

VARIABLES
    assembly,            \* m_items of the sub-assembly and of the outer one
    original,            \* the assembly before the optimisation
    settings,            \* _settings
    level,               \* whose optimiseInternal is running: sub, outer
    step,                \* the next part of the round, or assemble, done, failed
    count,               \* changes in this round
    outside,             \* _tagsReferencedFromOutside
    tagReplacements,     \* tagReplacements
    replacedTags,        \* m_replacedTags of the BlockDeduplicator
    iterations,          \* iterations of deduplicate
    thrown               \* the failed assertion

vars == <<assembly, original, settings, level, step, count, outside,
          tagReplacements, replacedTags, iterations, thrown>>

Sub == 1    \* what ForeignPushTag carries for sub-assembly 0
NoMap == [t \in {} |-> 0]

\* The map old after the assignments of new.
Merged(new, old) ==
    [t \in DOMAIN new \cup DOMAIN old |-> IF t \in DOMAIN new THEN new[t] ELSE old[t]]

items == assembly[level]

referencedTags(code, sub) ==
    {code[i].data : i \in {j \in DOMAIN code : code[j].type = "PushTag" /\ code[j].sub = sub}}

UniqueTags(code) ==
    \A i, j \in DOMAIN code :
        code[i].type = "Tag" /\ code[j].type = "Tag" /\ code[i].data = code[j].data => i = j

\* A tag is appended once, and a PushTag comes with the tag.
ASSUME CasesAssumption ==
    \A case \in Cases :
        /\ case.assembly \in [sub : Seq(AssemblyItems), outer : Seq(AssemblyItems)]
        /\ \A l \in {"sub", "outer"} :
              /\ UniqueTags(case.assembly[l])
              /\ referencedTags(case.assembly[l], 0) \subseteq Tags(case.assembly[l])
        /\ referencedTags(case.assembly.outer, Sub) \subseteq Tags(case.assembly.sub)

-----------------------------------------------------------------------------
(* JumpdestRemover *)

KeepsTags(code, references) ==
    LET kept[i \in 0..Len(code)] ==
            IF i = 0 THEN << >>
            ELSE IF code[i].type = "Tag" => code[i].data \in references
                 THEN Append(kept[i - 1], code[i])
                 ELSE kept[i - 1]
    IN kept[Len(code)]

-----------------------------------------------------------------------------
(* BlockDeduplicator *)

pushSelf == Item("PushTag", "", 0, -4)

\* Mutant of Block: a block ends at a JUMPI as well.
BlockUntilBranch(code, i) ==
    LET rest == SubSeq(code, i, Len(code))
        ends == {k \in DOMAIN rest : EndsBlock(rest[k]) \/ Is(rest[k], "JUMPI")}
        body == IF ends = {} THEN rest ELSE SubSeq(rest, 1, Min(ends))
        read == SelectSeq(body, LAMBDA item : item.type # "Tag")
    IN [k \in DOMAIN read |-> IF read[k] = PushTag(code[i].data) THEN pushSelf ELSE read[k]]

\* What BlockIterator reads from position i on: no tags, nothing beyond an end
\* of the control flow, and pushSelf for the block's own tag.
Block(code, i) ==
    LET rest == SubSeq(code, i, Len(code))
        ends == {k \in DOMAIN rest : EndsBlock(rest[k])}
        body == IF ends = {} THEN rest ELSE SubSeq(rest, 1, Min(ends))
        read == SelectSeq(body, LAMBDA item : item.type # "Tag")
    IN [k \in DOMAIN read |-> IF read[k] = PushTag(code[i].data) THEN pushSelf ELSE read[k]]

\* Mutant of SeenBefore: a tag gives way to that of the last equal block.
SeenBeforeLast(code) ==
    LET positions == {i \in DOMAIN code : code[i].type = "Tag"}
        equals(i) == {j \in positions : j >= i /\ Block(code, j) = Block(code, i)}
        duplicates == {i \in positions : Max(equals(i)) # i}
    IN [t \in {code[i].data : i \in duplicates} |->
            code[Max(equals(CHOOSE i \in duplicates : code[i].data = t))].data]

\* One pass over the blocks: a tag whose block has been seen gives way to the
\* tag of the block first seen.
SeenBefore(code) ==
    LET positions == {i \in DOMAIN code : code[i].type = "Tag"}
        equals(i) == {j \in positions : j <= i /\ Block(code, j) = Block(code, i)}
        duplicates == {i \in positions : Min(equals(i)) # i}
    IN [t \in {code[i].data : i \in duplicates} |->
            code[Min(equals(CHOOSE i \in duplicates : code[i].data = t))].data]

applyTagReplacement(code, replacements, sub) ==
    [i \in DOMAIN code |->
        IF code[i].type = "PushTag" /\ code[i].sub = sub /\ code[i].data \in DOMAIN replacements
        THEN [code[i] EXCEPT !.data = replacements[@]]
        ELSE code[i]]

\* Mutant of Redirect: forgets the replaced tag and does not keep its replacement.
RedirectToNothing(references, replacements) == references \ DOMAIN replacements

\* The outside references after the replacements, made in the order of the map.
Redirect(references, replacements) ==
    LET last == Max({0} \cup DOMAIN replacements)
        upTo[t \in 0..last] ==
            LET refs == IF t = 0 THEN references ELSE upTo[t - 1]
            IN IF t \in refs \cap DOMAIN replacements
               THEN (refs \ {t}) \cup {replacements[t]} ELSE refs
    IN upTo[last]

-----------------------------------------------------------------------------

Init ==
    /\ \E case \in Cases : original = case.assembly /\ settings = case.settings
    /\ assembly = original
    /\ level = "sub"
    /\ step = "jumpdest"
    /\ count = 0
    /\ outside = referencedTags(original.outer, Sub)
    /\ tagReplacements = NoMap
    /\ replacedTags = NoMap
    /\ iterations = 0
    /\ thrown = ""

RemoveJumpdests ==
    LET kept == KeepsTags(items, referencedTags(items, 0) \cup outside)
    IN /\ step = "jumpdest"
       /\ step' = "peephole"
       /\ IF settings.runJumpdestRemover
          THEN /\ assembly' = [assembly EXCEPT ![level] = kept]
               /\ count' = IF kept # items THEN count + 1 ELSE count
          ELSE UNCHANGED <<assembly, count>>
       /\ UNCHANGED <<original, settings, level, outside, tagReplacements, replacedTags,
                      iterations, thrown>>

\* One call of PeepholeOptimiser::optimise; the loop goes on while it changes something.
Peephole ==
    /\ step = "peephole"
    /\ \E optimised \in {OnePass(items)} :
          IF settings.runPeephole /\ IsBetter(optimised, items)
          THEN /\ assembly' = [assembly EXCEPT ![level] = optimised]
               /\ count' = count + 1
               /\ UNCHANGED step
          ELSE /\ step' = IF settings.runDeduplicate THEN "deduplicate" ELSE "end"
               /\ UNCHANGED <<assembly, count>>
    /\ UNCHANGED <<original, settings, level, outside, tagReplacements, replacedTags,
                   iterations, thrown>>

\* One iteration of the loop of BlockDeduplicator::deduplicate.
DeduplicateIteration ==
    /\ step = "deduplicate"
    /\ \E replaced \in {Merged(SeenBefore(items), replacedTags)} :
          LET unified == applyTagReplacement(items, replaced, 0)
          IN /\ replacedTags' = replaced
             /\ assembly' = [assembly EXCEPT ![level] = unified]
             /\ IF unified # items
                THEN iterations' = iterations + 1 /\ UNCHANGED step
                ELSE step' = "deduplicated" /\ UNCHANGED iterations
    /\ UNCHANGED <<original, settings, level, count, outside, tagReplacements, thrown>>

\* optimiseInternal takes over what deduplicate replaced, if it changed the code.
Deduplicated ==
    /\ step = "deduplicated"
    /\ replacedTags' = NoMap
    /\ iterations' = 0
    /\ \/ /\ iterations = 0
          /\ step' = "end"
          /\ UNCHANGED <<count, outside, tagReplacements, thrown>>
       \/ /\ iterations > 0 /\ DOMAIN replacedTags \cap DOMAIN tagReplacements # {}
          /\ step' = "failed"
          /\ thrown' = "Replacement already known."
          /\ UNCHANGED <<count, outside, tagReplacements>>
       \/ /\ iterations > 0 /\ DOMAIN replacedTags \cap DOMAIN tagReplacements = {}
          /\ step' = "end"
          /\ count' = count + 1
          /\ tagReplacements' = Merged(replacedTags, tagReplacements)
          /\ outside' = Redirect(outside, replacedTags)
          /\ UNCHANGED thrown
    /\ UNCHANGED <<assembly, original, settings, level>>

\* Mutant of EndRound: count is not reset for the next round.
EndRoundKeepingCount ==
    /\ step = "end"
    /\ count' = count
    /\ \/ /\ count > 0
          /\ step' = "jumpdest"
          /\ UNCHANGED <<assembly, level, outside, tagReplacements>>
       \/ /\ count = 0 /\ level = "sub"
          /\ step' = "jumpdest"
          /\ level' = "outer"
          /\ assembly' = [assembly EXCEPT
                !.outer = applyTagReplacement(assembly.outer, tagReplacements, Sub)]
          /\ outside' = {}
          /\ tagReplacements' = NoMap
       \/ /\ count = 0 /\ level = "outer"
          /\ step' = "assemble"
          /\ UNCHANGED <<assembly, level, outside, tagReplacements>>
    /\ UNCHANGED <<original, settings, replacedTags, iterations, thrown>>

\* The end of a round: the next round, the outer assembly, or assemble.
EndRound ==
    /\ step = "end"
    /\ count' = 0
    /\ \/ /\ count > 0
          /\ step' = "jumpdest"
          /\ UNCHANGED <<assembly, level, outside, tagReplacements>>
       \/ /\ count = 0 /\ level = "sub"
          /\ step' = "jumpdest"
          /\ level' = "outer"
          /\ assembly' = [assembly EXCEPT
                !.outer = applyTagReplacement(assembly.outer, tagReplacements, Sub)]
          /\ outside' = {}
          /\ tagReplacements' = NoMap
       \/ /\ count = 0 /\ level = "outer"
          /\ step' = "assemble"
          /\ UNCHANGED <<assembly, level, outside, tagReplacements>>
    /\ UNCHANGED <<original, settings, replacedTags, iterations, thrown>>

\* The tags that are pushed and have no position in the code they refer to.
Dangling(a) ==
    (referencedTags(a.sub, 0) \ Tags(a.sub))
        \cup (referencedTags(a.outer, 0) \ Tags(a.outer))
        \cup (referencedTags(a.outer, Sub) \ Tags(a.sub))

Assemble ==
    /\ step = "assemble"
    /\ IF Dangling(assembly) = {}
       THEN step' = "done" /\ UNCHANGED thrown
       ELSE step' = "failed" /\ thrown' = "Reference to tag without position."
    /\ UNCHANGED <<assembly, original, settings, level, count, outside, tagReplacements,
                   replacedTags, iterations>>

Stopped == step \in {"done", "failed"}

Terminated == Stopped /\ UNCHANGED vars

Next ==
    \/ RemoveJumpdests
    \/ Peephole
    \/ DeduplicateIteration
    \/ Deduplicated
    \/ EndRound
    \/ Assemble
    \/ Terminated

Spec == Init /\ [][Next]_vars

\* Weak fairness of Next: its steps are possible until Stopped.  Written out,
\* because TLC takes very long to evaluate ENABLED Next.
FairSpec == Spec /\ ([]<>Stopped \/ []<><<Next>>_vars)

-----------------------------------------------------------------------------

\* No PushTag of an assembly's own tag is left without its tag, at any moment of
\* the optimisation: not by the jumpdest remover, not by the removal of
\* unreachable code, and not by a replacement.
OwnReferencesHavePositions ==
    \A l \in {"sub", "outer"} : referencedTags(assembly[l], 0) \subseteq Tags(assembly[l])

\* While deduplicate collects replacements, over iterations in which blocks become
\* equal and cease to be, every tag it replaces gives way to one that stands before
\* it in the code: there is no circle of replacements to follow for ever, and
\* nothing is replaced by a tag without position.
ReplacementsGoBackwards ==
    \A t \in DOMAIN replacedTags : \E i, j \in DOMAIN items :
        /\ i < j
        /\ items[i].type = "Tag" /\ items[i].data = replacedTags[t]
        /\ items[j].type = "Tag" /\ items[j].data = t

\* No tag has given way to a tag that has given way itself.
NoReplacementChain ==
    \A t \in DOMAIN tagReplacements : tagReplacements[t] \notin DOMAIN tagReplacements

\* Neither assertion can fail, "Replacement already known." and "Reference to tag
\* without position.", unless replacements of one assembly form a chain, or, in the
\* case of the first, the jumpdest remover is off: the replaced tags are gone before
\* the next deduplicate, and what the outer assembly is told agrees with what the
\* sub-assembly keeps.
FailsOnlyByChains ==
    []NoReplacementChain =>
        [](thrown # "" => thrown = "Replacement already known." /\ ~settings.runJumpdestRemover)

\* The rounds of optimiseInternal and the loops of the peephole optimiser and of
\* the deduplicator in them come to an end.
Terminates == <>Stopped

=============================================================================
