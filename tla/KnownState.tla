----------------------------- MODULE KnownState -----------------------------
(***************************************************************************)
(* What the common subexpression eliminator of libsvmasm knows about the    *)
(* machine: equivalence classes of expressions (ExpressionClasses), the     *)
(* simplification rules applied to them (Rules, Pattern) and the contents   *)
(* of stack, storage and memory in terms of classes (KnownState).           *)
(*                                                                         *)
(* The whole knowledge is one record:                                       *)
(*   classes      m_representatives; the class of number id is classes[id]  *)
(*   expressions  m_expressions, from expressions to class numbers          *)
(*   height, stack, sequenceNumber, storage, memory, hashes  the members of *)
(*                KnownState                                                *)
(*   rules        Rules                                                     *)
(* An operation that adds a class returns [k |-> knowledge, id |-> class].  *)
(* Locations of the source and tag unions, which serve a control flow       *)
(* graph that is disabled, are left out.                                    *)
(***************************************************************************)
EXTENDS RuleList, SequencesExt

Item(type, instruction, data) == [type |-> type, instruction |-> instruction, data |-> data]
Operation(instruction) == Item("Operation", instruction, 0)
Push(n)                == Item("Push", "", n)
PushTag(t)             == Item("PushTag", "", t)
Tag(t)                 == Item("Tag", "", t)
DUP(n)                 == Item("Operation", "DUP", n)
SWAP(n)                == Item("Operation", "SWAP", n)
UndefinedItem(n)       == Item("UndefinedItem", "", n)

IsDup(item)  == item.type = "Operation" /\ item.instruction = "DUP"
IsSwap(item) == item.type = "Operation" /\ item.instruction = "SWAP"

deposit(item) ==
    CASE item.type = "Tag" -> 0
      [] item.type # "Tag" /\ item.type # "Operation" -> 1
      [] OTHER -> IF IsDup(item) THEN 1 ELSE IF IsSwap(item) THEN 0
                  ELSE instructionInfo[item.instruction].ret - instructionInfo[item.instruction].args

\* Keccak-256 as any function of the bytes; the code and the machine use the same.
Keccak(bytes) == FoldLeft(LAMBDA h, b : Wrap(5 * h + 3 * b + 7), Len(bytes), bytes)

ByteOf(word, n) == (word \div 2 ^ (ByteBits * (WordBytes - 1 - n))) % 2 ^ ByteBits

-----------------------------------------------------------------------------
(* ExpressionClasses *)

Expression(item, arguments, seq) == [item |-> item, arguments |-> arguments, seq |-> seq]

EmptyState ==
    [classes |-> << >>, expressions |-> << >>, height |-> 0, stack |-> << >>,
     sequenceNumber |-> 1, storage |-> << >>, memory |-> << >>, hashes |-> << >>, rules |-> RulesOf]

Found(k, id) == [k |-> k, id |-> id]

IsPush(k, id) == k.classes[id].item.type = "Push"

\* Pattern::matches; the classes that the placeholders stand for are in groups.
RECURSIVE MatchesExpression(_, _, _, _)
MatchesExpression(p, e, k, m) ==
    LET Argument(acc, n) ==
            IF ~acc.ok THEN acc
            ELSE LET id == e.arguments[n]
                     q == p.arguments[n]
                     inner == MatchesExpression(q, k.classes[id], k, acc)
                 IN IF q.group = "" THEN inner
                    ELSE IF q.kind = "constant" /\ ~IsPush(k, id) THEN [acc EXCEPT !.ok = FALSE]
                    ELSE IF q.group \notin DOMAIN acc.groups
                    THEN [acc EXCEPT !.groups = (q.group :> id) @@ @]
                    ELSE [acc EXCEPT !.ok = acc.groups[q.group] = id]
    IN CASE p.kind \in {"any", "constant"} -> m
         [] p.kind = "number" -> [m EXCEPT !.ok = e.item = Push(p.data)]
         [] p.kind = "operation" ->
                IF e.item # Operation(p.instruction) THEN [m EXCEPT !.ok = FALSE]
                ELSE FoldLeft(Argument, m, [n \in DOMAIN p.arguments |-> n])

\* Rules::findFirstMatch: the rule in a sequence, which is empty for none, and
\* the groups.
RECURSIVE FirstRule(_, _, _, _)
FirstRule(rules, n, e, k) ==
    IF n > Len(rules) THEN [rule |-> << >>, groups |-> << >>]
    ELSE With(MatchesExpression(rules[n].pattern, e, k, [ok |-> TRUE, groups |-> << >>]), LAMBDA m :
         LET Constant(g) == IF g \in DOMAIN m.groups THEN k.classes[m.groups[g]].item.data ELSE 0
         IN IF m.ok /\ Feasible(rules[n].feasible, Constant("A"), Constant("B"))
            THEN [rule |-> <<rules[n]>>, groups |-> m.groups]
            ELSE FirstRule(rules, n + 1, e, k))

\* find, with tryToSimplify and rebuildExpression: an expression that is new and
\* that no rule simplifies becomes a class of its own.  The arguments of a
\* commutative operation are sorted.
RECURSIVE find(_, _, _, _)
RECURSIVE rebuildExpression(_, _, _)
find(k, item, arguments, seq) ==
    LET operation == item.type = "Operation"
        sorted == IF operation /\ isCommutativeOperation(item.instruction)
                  THEN SortSeq(arguments, <) ELSE arguments
        e == Expression(item, sorted, seq)
        deterministic == ~operation \/ isDeterministic(item.instruction)
    IN With(IF operation /\ deterministic THEN FirstRule(k.rules[item.instruction], 1, e, k)
            ELSE [rule |-> << >>, groups |-> << >>], LAMBDA m :
    LET Insert(r) == Found([r.k EXCEPT !.expressions = @ @@ (e :> r.id)], r.id)
    IN IF deterministic /\ e \in DOMAIN k.expressions THEN Found(k, k.expressions[e])
       ELSE IF m.rule # << >> THEN Insert(rebuildExpression(k, m.rule[1].action, m.groups))
       ELSE Insert(Found([k EXCEPT !.classes = Append(@, e)], Len(k.classes) + 1)))

rebuildExpression(k, p, groups) ==
    LET Value(g) == k.classes[groups[g]].item.data
    IN CASE p.kind \in {"any", "constant"} -> Found(k, groups[p.group])
         [] p.kind = "number" -> find(k, Push(p.data), << >>, 0)
         [] p.kind = "computed" ->
                find(k, Push(ValueOf(p.arguments[1], [g \in DOMAIN groups |-> Value(g)], 0)), << >>, 0)
         [] p.kind = "operation" ->
                With(FoldLeft(LAMBDA acc, a : With(rebuildExpression(acc.k, a, groups), LAMBDA r :
                                [k |-> r.k, ids |-> Append(acc.ids, r.id)]),
                              [k |-> k, ids |-> << >>], p.arguments), LAMBDA r :
                    find(r.k, Operation(p.instruction), r.ids, 0))

FindOperation(k, instruction, arguments) == find(k, Operation(instruction), arguments, 0)

knownZero(k, id) == k.classes[id].item = Push(0)

\* The answers ask for new expressions, which stay in the classes.
knownNonZero(k, id) ==
    With(FindOperation(k, "ISZERO", <<id>>), LAMBDA r :
        [k |-> r.k, is |-> knownZero(r.k, r.id)])

knownToBeDifferent(k, a, b) ==
    With(FindOperation(k, "SUB", <<a, b>>), LAMBDA r :
        knownNonZero(r.k, r.id))

\* Mutant of knownToBeDifferentBy32: addresses one byte too close count as apart.
knownToBeDifferentBy31(k, a, b) ==
    With(FindOperation(k, "SUB", <<a, b>>), LAMBDA r :
    With(r.k.classes[r.id].item.data, LAMBDA v :
        [k |-> r.k, is |-> IsPush(r.k, r.id) /\ Wrap(v + WordBytes - 2) > 2 * (WordBytes - 2)]))

knownToBeDifferentBy32(k, a, b) ==
    With(FindOperation(k, "SUB", <<a, b>>), LAMBDA r :
    With(r.k.classes[r.id].item.data, LAMBDA v :
        [k |-> r.k, is |-> IsPush(r.k, r.id) /\ Wrap(v + WordBytes - 1) > 2 * (WordBytes - 1)]))

-----------------------------------------------------------------------------
(* KnownState *)

\* An element that has not been assigned yet is a new unknown class.
stackElement(k, h) ==
    IF h \in DOMAIN k.stack THEN Found(k, k.stack[h])
    ELSE With(find(k, UndefinedItem(h), << >>, 0), LAMBDA r :
             Found([r.k EXCEPT !.stack = (h :> r.id) @@ @], r.id))

setStackElement(k, h, id) == [k EXCEPT !.stack = (h :> id) @@ @]

swapStackElements(k, a, b) ==
    With(stackElement(k, a), LAMBDA ra :
    With(stackElement(ra.k, b), LAMBDA rb :
        [rb.k EXCEPT !.stack = (a :> rb.id) @@ (b :> ra.id) @@ @]))

\* A StoreOperation and the knowledge after it; sets of operations for none or one.
NoStore(k) == [k |-> k, op |-> << >>]

\* The part of contents that a store of value to slot leaves known.
KeptStorage(k, slot, value) ==
    FoldLeft(LAMBDA acc, s :
                With(knownToBeDifferent(acc.k, s, slot), LAMBDA d :
                    [k |-> d.k, kept |-> IF d.is \/ k.storage[s] = value
                                         THEN acc.kept \cup {s} ELSE acc.kept]),
             [k |-> k, kept |-> {}], SetToSortSeq(DOMAIN k.storage, <))

KeptMemory(k, slot) ==
    FoldLeft(LAMBDA acc, s :
                With(knownToBeDifferentBy32(acc.k, s, slot), LAMBDA d :
                    [k |-> d.k, kept |-> IF d.is THEN acc.kept \cup {s} ELSE acc.kept]),
             [k |-> k, kept |-> {}], SetToSortSeq(DOMAIN k.memory, <))

Store(instruction, target, k, slot, value) ==
    With(find(k, Operation(instruction), <<slot, value>>, k.sequenceNumber), LAMBDA r :
        [k |-> [r.k EXCEPT !.sequenceNumber = @ + 1],
         op |-> <<[target |-> target, slot |-> slot, sequenceNumber |-> k.sequenceNumber,
                   expression |-> r.id]>>])

storeInStorage(k, slot, value) ==
    LET numbered == [k EXCEPT !.sequenceNumber = @ + 1]
    IN With(KeptStorage(numbered, slot, value), LAMBDA kept :
    With([s \in kept.kept |-> k.storage[s]], LAMBDA known :
    With(Store("SSTORE", "Storage", [kept.k EXCEPT !.storage = known], slot, value), LAMBDA r :
        IF slot \in DOMAIN k.storage /\ k.storage[slot] = value THEN NoStore(k)
        ELSE [r EXCEPT !.k.storage = (slot :> value) @@ @])))

storeInMemory(k, slot, value) ==
    LET numbered == [k EXCEPT !.sequenceNumber = @ + 1]
    IN With(KeptMemory(numbered, slot), LAMBDA kept :
    With([s \in kept.kept |-> k.memory[s]], LAMBDA known :
    With(Store("MSTORE", "Memory", [kept.k EXCEPT !.memory = known], slot, value), LAMBDA r :
        IF slot \in DOMAIN k.memory /\ k.memory[slot] = value THEN NoStore(k)
        ELSE [r EXCEPT !.k.memory = (slot :> value) @@ @])))

loadFromStorage(k, slot) ==
    With(find(k, Operation("SLOAD"), <<slot>>, k.sequenceNumber), LAMBDA r :
        IF slot \in DOMAIN k.storage THEN Found(k, k.storage[slot])
        ELSE Found([r.k EXCEPT !.storage = (slot :> r.id) @@ @], r.id))

loadFromMemory(k, slot) ==
    With(find(k, Operation("MLOAD"), <<slot>>, k.sequenceNumber), LAMBDA r :
        IF slot \in DOMAIN k.memory THEN Found(k, k.memory[slot])
        ELSE Found([r.k EXCEPT !.memory = (slot :> r.id) @@ @], r.id))

\* The hash of a short stretch of memory is known by the words there.
applyKeccak256(k, start, length) ==
    LET l == k.classes[length].item.data
        opaque(q) == find(q, Operation("KECCAK256"), <<start, length>>, q.sequenceNumber)
        words == (l + WordBytes - 1) \div WordBytes
    IN With(FoldLeft(LAMBDA acc, n :
                        With(find(acc.k, Push(n * WordBytes), << >>, 0), LAMBDA offset :
                        With(FindOperation(offset.k, "ADD", <<start, offset.id>>), LAMBDA slot :
                        With(loadFromMemory(slot.k, slot.id), LAMBDA value :
                            [k |-> value.k, ids |-> Append(acc.ids, value.id)]))),
                     [k |-> k, ids |-> << >>], [n \in 1..words |-> n - 1]), LAMBDA loads :
    With(\A n \in DOMAIN loads.ids : IsPush(loads.k, loads.ids[n]), LAMBDA constant :
    With([n \in 1..l |-> ByteOf(loads.k.classes[loads.ids[((n - 1) \div WordBytes) + 1]].item.data,
                                (n - 1) % WordBytes)], LAMBDA data :
    With(IF constant THEN find(loads.k, Push(Keccak(data)), << >>, 0) ELSE opaque(loads.k), LAMBDA v :
        IF ~IsPush(k, length) \/ l > 4 * WordBytes THEN opaque(k)
        ELSE IF loads.ids \in DOMAIN loads.k.hashes THEN Found(loads.k, loads.k.hashes[loads.ids])
        ELSE Found([v.k EXCEPT !.hashes = (loads.ids :> v.id) @@ @], v.id)))))

\* An instruction without a rule of its own: it may make memory and storage unknown.
Invalidate(k, instruction) ==
    LET mem == invalidatesMemory(instruction)
        stor == invalidatesStorage(instruction)
    IN [k EXCEPT !.memory = IF mem THEN << >> ELSE @,
                 !.storage = IF stor THEN << >> ELSE @,
                 !.sequenceNumber = IF mem \/ stor THEN @ + 2 ELSE @]

Execute(k, item, a) ==
    LET h == k.height + deposit(item)
        Result(r) == NoStore(setStackElement(r.k, h, r.id))
        i == item.instruction
        after == Invalidate(k, i)
    IN CASE i = "SSTORE"    -> storeInStorage(k, a[1], a[2])
         [] i = "MSTORE"    -> storeInMemory(k, a[1], a[2])
         [] i = "SLOAD"     -> Result(loadFromStorage(k, a[1]))
         [] i = "MLOAD"     -> Result(loadFromMemory(k, a[1]))
         [] i = "KECCAK256" -> Result(applyKeccak256(k, a[1], a[2]))
         [] OTHER -> IF instructionInfo[i].ret = 1 THEN Result(find(after, item, a, 0))
                     ELSE NoStore(after)

\* feedItem: the knowledge after an item, and the store it makes, if any.
feedItem(k, item) ==
    LET Shrunk(r) ==
            LET h == r.k.height + deposit(item)
            IN [r EXCEPT !.k.height = h,
                         !.k.stack = [n \in {x \in DOMAIN @ : x <= h} |-> @[n]]]
    IN CASE item.type = "Tag" -> NoStore(k)
         [] item.type \notin {"Tag", "Operation"} ->
                With(find(k, item, << >>, 0), LAMBDA r :
                    NoStore([setStackElement(r.k, k.height + 1, r.id) EXCEPT !.height = @ + 1]))
         [] IsDup(item) ->
                With(stackElement(k, k.height + 1 - item.data), LAMBDA r :
                    Shrunk(NoStore(setStackElement(r.k, k.height + 1, r.id))))
         [] IsSwap(item) -> Shrunk(NoStore(swapStackElements(k, k.height, k.height - item.data)))
         [] item.type = "Operation" /\ item.instruction = "POP" -> Shrunk(NoStore(k))
         [] OTHER ->
                With(FoldLeft(LAMBDA acc, n : With(stackElement(acc.k, k.height - n), LAMBDA r :
                                [k |-> r.k, ids |-> Append(acc.ids, r.id)]),
                              [k |-> k, ids |-> << >>],
                              [n \in 1..instructionInfo[item.instruction].args |-> n - 1]), LAMBDA r :
                    Shrunk(Execute(r.k, item, r.ids)))

=============================================================================
