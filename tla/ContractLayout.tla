--------------------------- MODULE ContractLayout ---------------------------
(***************************************************************************)
(* The two orders that fix where a contract's functions and variables are: *)
(* the linearisation of its bases (NameAndTypeResolver), along which names *)
(* are looked up and state variables are laid out, and the places of       *)
(* objects in storage (StorageOffsets in Types).                           *)
(***************************************************************************)
EXTENDS Integers, Sequences, SequencesExt, FiniteSets

(* NameAndTypeResolver::cThreeMerge.  The elements that have been taken were  *)
(* removed from all lists, those that became empty included: what is left of  *)
(* a list is given by the places of the others.                               *)

Remaining(list, taken) == {i \in DOMAIN list : list[i] \notin ToSet(taken)}

First(list, taken) == Min(Remaining(list, taken))

appearsOnlyAtHead(candidate, toMerge, taken) ==
    \A k \in DOMAIN toMerge : \A i \in Remaining(toMerge[k], taken) :
        toMerge[k][i] = candidate => i = First(toMerge[k], taken)

\* Mutant of nextCandidates: a head is taken wherever else it occurs.
nextCandidatesGreedy(toMerge, taken) ==
    {k \in DOMAIN toMerge : Remaining(toMerge[k], taken) # {}}

\* The lists with a head that may be taken
nextCandidates(toMerge, taken) ==
    {k \in DOMAIN toMerge :
        /\ Remaining(toMerge[k], taken) # {}
        /\ appearsOnlyAtHead(toMerge[k][First(toMerge[k], taken)], toMerge, taken)}

\* The loop stops at a step that finds no candidate.
mergeStep(toMerge, taken) ==
    LET candidates == nextCandidates(toMerge, taken)
        list == toMerge[Min(candidates)]
    IN IF candidates = {} THEN taken ELSE Append(taken, list[First(list, taken)])

Elements(toMerge) == UNION {ToSet(toMerge[k]) : k \in DOMAIN toMerge}

\* Every step but the last removes an element.
cThreeMerge(toMerge) ==
    LET steps == Cardinality(Elements(toMerge))
        merged[n \in 0..steps] == IF n = 0 THEN << >> ELSE mergeStep(toMerge, merged[n - 1])
    IN IF ToSet(merged[steps]) = Elements(toMerge) THEN merged[steps] ELSE << >>

\* The bases that are mentioned later come first, and the list of the direct bases
\* last.
linearization(contract, direct, bases) ==
    LET input == Reverse(direct)
    IN cThreeMerge([i \in DOMAIN input |-> bases[input[i]]] \o <<<<contract>> \o input>>)

Precedes(list, a, b) == \E i, j \in DOMAIN list : i < j /\ list[i] = a /\ list[j] = b

\* What a linearisation promises: every base is there once, behind all that derive
\* from it, in the order of each of the bases, and those mentioned later come first.
KeepsEveryOrder(list, contract, direct, bases) ==
    /\ list # << >> /\ Head(list) = contract /\ IsInjective(list)
    /\ ToSet(list) = {contract} \cup UNION {ToSet(bases[direct[i]]) : i \in DOMAIN direct}
    /\ \A i, j \in DOMAIN direct : i < j => Precedes(list, direct[j], direct[i])
    /\ \A k \in DOMAIN direct : \A i, j \in DOMAIN bases[direct[k]] :
          i < j => Precedes(list, bases[direct[k]][i], bases[direct[k]][j])

-----------------------------------------------------------------------------
(* StorageOffsets::computeOffsets.  An object is the record [bytes, size] of  *)
(* its storageBytes and storageSize.                                          *)

\* Where an object is put behind what is laid out already: in the next slot if it
\* would overflow this one.
placeOf(free, object, slotBytes) ==
    IF free.byte + object.bytes > slotBytes THEN [slot |-> free.slot + 1, byte |-> 0]
    ELSE free

\* The first byte that is free behind it, in a slot of its own unless the object is
\* part of one slot
freeBehind(place, object, slotBytes) ==
    IF object.size = 1 /\ place.byte + object.bytes <= slotBytes
    THEN [place EXCEPT !.byte = @ + object.bytes]
    ELSE [slot |-> place.slot + object.size, byte |-> 0]

storageOffsets(objects, slotBytes) ==
    LET free[n \in 0..Len(objects)] ==
            IF n = 0 THEN [slot |-> 0, byte |-> 0]
            ELSE freeBehind(placeOf(free[n - 1], objects[n], slotBytes), objects[n], slotBytes)
        end == free[Len(objects)]
        place(n) == placeOf(free[n - 1], objects[n], slotBytes)
    IN [offsets |-> [n \in 1..Len(objects) |-> <<place(n).slot, place(n).byte>>],
        size |-> IF end.byte > 0 THEN end.slot + 1 ELSE end.slot]

=============================================================================
