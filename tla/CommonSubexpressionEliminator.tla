------------------- MODULE CommonSubexpressionEliminator -------------------
(***************************************************************************)
(* The common subexpression eliminator of libsvmasm and the loop of         *)
(* Assembly::optimiseInternal that runs it on the chunks of the code.       *)
(*                                                                         *)
(* A chunk is fed into a KnownState; CSECodeGenerator then writes code that *)
(* makes the needed stores in their order and leaves the same stack.  Its   *)
(* members are a record; thrown is the exception that has ended the         *)
(* generation, if any: "StackTooDeep" and "ItemNotAvailable" are caught by  *)
(* optimiseInternal, "Optimizer" (an assertion) is not.                     *)
(***************************************************************************)
EXTENDS KnownState

CONSTANT SwapReach    \* the deepest SWAP and DUP instruction: 16

Throw(g, exception) == IF g.thrown = "" THEN [g EXCEPT !.thrown = exception] ELSE g
Check(g, condition, exception) == IF condition THEN g ELSE Throw(g, exception)

\* Positions with the element of class id erased at or added to a position.
Erased(positions, id, p) == [positions EXCEPT ![id] = @ \ {p}]
Inserted(positions, id, p) ==
    (id :> ((IF id \in DOMAIN positions THEN positions[id] ELSE {}) \cup {p})) @@ positions

-----------------------------------------------------------------------------
(* Appending code *)

appendItem(g, item) ==
    [g EXCEPT !.items = Append(@, item), !.height = @ + deposit(item)]

appendDup(g, from) ==
    LET n == 1 + g.height - from
        id == g.stack[from]
    IN With(appendItem(g, DUP(n)), LAMBDA next :
        IF n > SwapReach THEN Throw(g, "StackTooDeep")
        ELSE IF n < 1 THEN Throw(g, "Optimizer")
        ELSE [next EXCEPT !.stack = (next.height :> id) @@ @,
                          !.positions = Inserted(@, id, next.height)])

\* Two equal swaps in a row cancel out.
appendOrRemoveSwap(g, from) ==
    LET n == g.height - from
        top == g.stack[g.height]
        other == g.stack[from]
        swapped ==
            IF top = other THEN g
            ELSE [g EXCEPT !.positions = Inserted(Erased(Inserted(Erased(@, top, g.height), top, from),
                                                         other, from), other, g.height),
                           !.stack = (g.height :> other) @@ (from :> top) @@ @]
        last == Len(g.items)
        cancels == last > 0 /\ g.items[last] = SWAP(n)
    IN IF from = g.height THEN g
       ELSE IF n > SwapReach THEN Throw(g, "StackTooDeep")
       ELSE IF n < 1 THEN Throw(g, "Optimizer")
       ELSE [swapped EXCEPT !.items = IF cancels THEN SubSeq(@, 1, last - 1)
                                      ELSE Append(@, SWAP(n))]

classElementPosition(g, id) ==
    CHOOSE p \in g.positions[id] : \A q \in g.positions[id] : q <= p

IsPresent(g, id) == id \in DOMAIN g.positions /\ g.positions[id] # {}

canBeRemoved(g, id, result, from) ==
    LET haveCopy == Cardinality(g.positions[id]) > 1
        isTarget == from \in DOMAIN g.target /\ g.target[from] = id
    IN IF id \in g.final THEN haveCopy /\ ~isTarget
       ELSE haveCopy \/ \A p \in g.neededBy :
                            p[1] = id => p[2] = result \/ p[2] \in DOMAIN g.positions

Removable(g, id, result) == canBeRemoved(g, id, result, classElementPosition(g, id))

\* removeStackTopIfPossible; 0 is no class.
CanRemoveTop(g) ==
    /\ g.thrown = "" /\ DOMAIN g.stack # {}
    /\ g.height \in DOMAIN g.stack
    /\ canBeRemoved(g, g.stack[g.height], 0, g.height)

WithoutTop(g) ==
    [g EXCEPT !.positions = Erased(@, g.stack[g.height], g.height),
              !.stack = [h \in DOMAIN @ \ {g.height} |-> @[h]]]

removeStackTopIfPossible(g) ==
    LET checked == Check(g, DOMAIN g.stack = {} \/ g.height \in DOMAIN g.stack, "Optimizer")
    IN IF CanRemoveTop(checked) THEN appendItem(WithoutTop(g), Operation("POP")) ELSE checked

RECURSIVE removeSurplus(_)
removeSurplus(g) == IF CanRemoveTop(g) THEN removeSurplus(removeStackTopIfPossible(g))
                    ELSE removeStackTopIfPossible(g)

-----------------------------------------------------------------------------
(* Dependencies *)

Loads == {"SLOAD", "MLOAD", "KECCAK256"}

\* Whether a store to slot is known to leave alone what the expression loads.
Independent(k, e, slot) ==
    LET from == e.arguments[1]
    IN With(FindOperation(k, "SUB", <<slot, from>>), LAMBDA offset :
    With(u2s(offset.k.classes[offset.id].item.data), LAMBDA o :
    With(IsPush(offset.k, offset.id), LAMBDA knownOffset :
    LET length == k.classes[e.arguments[2]].item
        knownLength == length.type = "Push"
    IN CASE e.item.instruction = "SLOAD" -> knownToBeDifferent(k, slot, from)
         [] e.item.instruction = "MLOAD" -> knownToBeDifferentBy32(k, slot, from)
         [] e.item.instruction = "KECCAK256" ->
                [k |-> offset.k,
                 is |-> \/ knownLength /\ length.data = 0
                        \/ knownOffset /\ o <= -WordBytes
                        \/ knownOffset /\ knownLength /\ o >= 0 /\ o >= length.data])))

\* The last store of a slot that precedes the sequence number; the first one
\* is known to.
LatestBefore(ops, seq) ==
    LET earlier == SelectSeq(Tail(ops), LAMBDA op : op.sequenceNumber < seq)
    IN IF earlier = << >> THEN Head(ops).expression ELSE Last(earlier).expression

RECURSIVE addDependencies(_, _)
addDependencies(g, c) ==
    LET e == g.k.classes[c]
        Needs(h, d) == [h EXCEPT !.neededBy = @ \cup {<<d, c>>}]
    IN With(FoldLeft(LAMBDA h, a : Needs(addDependencies(h, a), a), g, e.arguments), LAMBDA onArguments :
    LET target == IF e.item.instruction = "SLOAD" THEN "Storage" ELSE "Memory"
        OnStore(h, s) == IF h.thrown # "" \/ s.target # target \/ Head(s.ops).sequenceNumber > e.seq THEN h
                         ELSE With(Independent(h.k, e, s.slot), LAMBDA apart :
                              With(LatestBefore(s.ops, e.seq), LAMBDA latest :
                              With([h EXCEPT !.k = apart.k], LAMBDA known :
                                  IF apart.is THEN known ELSE Needs(addDependencies(known, latest), latest))))
    IN IF g.thrown # "" \/ c \in DOMAIN g.positions \/ \E p \in g.neededBy : p[1] = c THEN g
       ELSE IF e.item.type = "UndefinedItem" THEN Throw(g, "ItemNotAvailable")
       ELSE IF e.item.type = "Operation" /\ e.item.instruction \in Loads
       THEN FoldLeft(OnStore, onArguments, g.stores)
       ELSE onArguments)

-----------------------------------------------------------------------------
(* Generating the elements *)

\* Brings the arguments of class c to the top of the stack, in place of those
\* that nothing else needs.
PlaceArguments(g, c, a) ==
    LET Swap(h, id) == IF IsPresent(h, id) THEN appendOrRemoveSwap(h, classElementPosition(h, id))
                       ELSE Throw(h, "Optimizer")
        Dup(h, id) == IF IsPresent(h, id) THEN appendDup(h, classElementPosition(h, id))
                      ELSE Throw(h, "Optimizer")
        DupTop(h) == appendDup(h, h.height)
        SwapTop(h) == appendOrRemoveSwap(h, h.height - 1)
    IN CASE Len(a) = 0 -> g
         [] Len(a) = 1 -> IF Removable(g, a[1], c) THEN Swap(g, a[1]) ELSE Dup(g, a[1])
         [] Len(a) = 2 /\ Removable(g, a[2], c) ->
                LET h == Swap(g, a[2])
                IN IF a[1] = a[2] THEN DupTop(h)
                   ELSE IF Removable(h, a[1], c) THEN Swap(SwapTop(h), a[1])
                   ELSE Dup(h, a[1])
         [] Len(a) = 2 /\ ~Removable(g, a[2], c) ->
                IF a[1] = a[2] THEN DupTop(Dup(g, a[1]))
                ELSE IF Removable(g, a[1], c) THEN SwapTop(Dup(Swap(g, a[1]), a[2]))
                ELSE Dup(Dup(g, a[2]), a[1])
         [] OTHER -> Throw(g, "Optimizer")

RECURSIVE DropSwaps(_, _)
DropSwaps(g, item) ==
    IF g.thrown = "" /\ item.type = "Operation" /\ isCommutativeOperation(item.instruction)
       /\ g.items # << >> /\ Last(g.items) = SWAP(1)
    THEN DropSwaps(appendOrRemoveSwap(g, g.height - 1), item) ELSE g

RECURSIVE PopArguments(_, _)
PopArguments(g, n) ==
    IF n = 0 THEN g
    ELSE LET h == g.height - n + 1
         IN PopArguments([g EXCEPT !.positions = Erased(@, g.stack[h], h),
                                   !.stack = [x \in DOMAIN @ \ {h} |-> @[x]]], n - 1)

RECURSIVE generateClassElement(_, _, _)
generateClassElement(g0, c, allowSequenced) ==
    With(removeStackTopIfPossible(
            Check(g0, \A id \in DOMAIN g0.positions : \A p \in g0.positions[id] : p <= g0.height,
                  "Optimizer")), LAMBDA g :
    LET e == g.k.classes[c]
        a == e.arguments
        n == Len(a)
    IN With(Check(g, (allowSequenced \/ e.seq = 0) /\ e.item.type # "UndefinedItem", "Optimizer"), LAMBDA start :
    With(FoldLeft(LAMBDA h, x : generateClassElement(h, x, FALSE), start, Reverse(a)), LAMBDA withArguments :
    With(PlaceArguments(withArguments, c, a), LAMBDA placed :
    With(DropSwaps(placed, e.item), LAMBDA ready :
    With(appendItem(PopArguments(ready, n), e.item), LAMBDA done :
        CASE g.thrown # "" -> g
          [] g.thrown = "" /\ c \in DOMAIN g.positions -> Check(g, g.positions[c] # {}, "Optimizer")
          [] OTHER ->
                 IF start.thrown # "" THEN start
                 ELSE IF withArguments.thrown # "" THEN withArguments
                 ELSE IF placed.thrown # "" THEN placed
                 ELSE IF \E i \in 1..n : \/ placed.height - i + 1 \notin DOMAIN placed.stack
                                         \/ placed.stack[placed.height - i + 1] # a[i]
                 THEN Throw(placed, "Optimizer")
                 ELSE IF e.item.type # "Operation" \/ instructionInfo[e.item.instruction].ret = 1
                 THEN [done EXCEPT !.stack = (done.height :> c) @@ @,
                                   !.positions = Inserted(@, c, done.height)]
                 ELSE [done EXCEPT !.positions = (c :> {}) @@ @]))))))

\* One element of the target stack.
generateTarget(g, h) ==
    LET id == g.target[h]
    IN With(generateClassElement(g, id, FALSE), LAMBDA made :
    With(classElementPosition(made, id), LAMBDA position :
    With(IF position < h THEN appendDup(made, position) ELSE appendOrRemoveSwap(made, position), LAMBDA copied :
        IF g.thrown # "" \/ (h \in DOMAIN g.stack /\ g.stack[h] = id) THEN g
        ELSE IF made.thrown # "" THEN made
        ELSE IF ~IsPresent(made, id) THEN Throw(made, "Optimizer")
        ELSE IF h \in made.positions[id] THEN made
        ELSE IF copied.thrown # "" THEN copied
        ELSE appendOrRemoveSwap(copied, h))))

\* The needed expressions with a sequence number, in its order.
Sequenced(g) ==
    LET ids == {p[1] : p \in g.neededBy} \cup {p[2] : p \in g.neededBy}
        Order(id) == g.k.classes[id].seq
    IN SetToSortSeq({id \in ids : Order(id) # 0},
                    LAMBDA x, y : \/ Order(x) < Order(y)
                                  \/ Order(x) = Order(y) /\ x < y)

generateCode(k, stores, initial, target, initialHeight) ==
    LET Highest(s) == CHOOSE h \in s : \A x \in s : x <= h
        Lowest(s) == CHOOSE h \in s : \A x \in s : h <= x
        start == [k |-> k, items |-> << >>, height |-> initialHeight, neededBy |-> {},
                  stack |-> initial,
                  positions |-> [id \in {initial[h] : h \in DOMAIN initial} |->
                                    {h \in DOMAIN initial : initial[h] = id}],
                  stores |-> stores, target |-> target,
                  final |-> {target[h] : h \in DOMAIN target}, thrown |-> ""]
        heights == SetToSortSeq(DOMAIN target, <)
    IN With(FoldLeft(LAMBDA g, h : addDependencies(g, target[h]),
                     FoldLeft(LAMBDA g, s : addDependencies(g, Last(s.ops).expression), start, stores),
                     heights), LAMBDA needed :
    With(FoldLeft(LAMBDA g, id : IF g.thrown # "" \/ id \in DOMAIN g.positions THEN g
                                 ELSE generateClassElement(g, id, TRUE),
                  needed, Sequenced(needed)), LAMBDA ops :
    With(removeSurplus(FoldLeft(generateTarget, ops, heights)), LAMBDA all :
    LET finalHeight == CASE target # << >> -> Highest(DOMAIN target)
                         [] target = << >> /\ initial # << >> -> Lowest(DOMAIN initial) - 1
                         [] OTHER -> initialHeight
    IN IF needed.thrown # "" THEN needed
       ELSE Check(all, all.height = finalHeight, "Optimizer"))))

-----------------------------------------------------------------------------
(* CommonSubexpressionEliminator *)

breaksCSEAnalysisBlock(item, msizeImportant) ==
    CASE item.type \in {"Push", "PushTag", "PushSub", "PushSubSize", "PushProgramSize", "PushData",
                       "PushLibraryAddress"} -> FALSE
      [] IsDup(item) \/ IsSwap(item) -> FALSE
      [] item.type = "Operation" /\ ~IsDup(item) /\ ~IsSwap(item) ->
            LET i == item.instruction
            IN \/ i \in {"GAS", "PC", "MSIZE"}
               \/ /\ i \notin {"SSTORE", "MSTORE"}
                  /\ msizeImportant \/ i \notin {"MLOAD", "KECCAK256"}
                  /\ instructionInfo[i].sideEffects \/ instructionInfo[i].args > 2
      [] OTHER -> TRUE

FeedAll(state, items) ==
    FoldLeft(LAMBDA s, item : With(feedItem(s.k, item), LAMBDA r :
                                  [k |-> r.k, ops |-> s.ops \o r.op]),
             state, items)

\* A conditional jump on a known condition and a RETURN of nothing; breaking
\* is the sequence of the breaking item or empty.  The items to feed, and the
\* breaking item that remains.
BreakingItem(k, nonZero, second, breaking) ==
    LET Is(i) == breaking = <<Operation(i)>>
        Result(known, items, item) == [k |-> known, items |-> items, breaking |-> item]
        pops == <<Operation("POP"), Operation("POP")>>
    IN CASE Is("JUMPI") /\ nonZero.is ->
                Result(nonZero.k, <<SWAP(1), Operation("POP")>>, <<Operation("JUMP")>>)
         [] Is("JUMPI") /\ ~nonZero.is /\ knownZero(nonZero.k, second.id) ->
                Result(nonZero.k, pops, << >>)
         [] Is("JUMPI") /\ ~nonZero.is /\ ~knownZero(nonZero.k, second.id) ->
                Result(nonZero.k, << >>, breaking)
         [] Is("RETURN") ->
                IF knownZero(second.k, second.id) THEN Result(second.k, pops, <<Operation("STOP")>>)
                ELSE Result(second.k, << >>, breaking)
         [] OTHER -> Result(k, << >>, breaking)

optimizeBreakingItem(s, breaking) ==
    With(stackElement(s.k, s.k.height - 1), LAMBDA second :
    With(BreakingItem(s.k, knownNonZero(second.k, second.id), second, breaking), LAMBDA b :
        [s |-> FeedAll([s EXCEPT !.k = b.k], b.items), breaking |-> b.breaking]))

\* The stores of each slot, memory before storage.
StoresBySlot(ops) ==
    LET keys == {<<op.target, op.slot>> : op \in {ops[n] : n \in DOMAIN ops}}
        order == SetToSortSeq(keys, LAMBDA x, y : \/ x[1] = "Memory" /\ y[1] = "Storage"
                                                  \/ x[1] = y[1] /\ x[2] < y[2])
    IN [n \in DOMAIN order |->
            [target |-> order[n][1], slot |-> order[n][2],
             ops |-> SelectSeq(ops, LAMBDA op : <<op.target, op.slot>> = order[n])]]

StackContents(k, heights) ==
    FoldLeft(LAMBDA acc, h : With(stackElement(acc.k, h), LAMBDA r :
                                 [k |-> r.k, contents |-> (h :> r.id) @@ acc.contents]),
             [k |-> k, contents |-> << >>], [n \in DOMAIN heights |-> heights[n]])

Heights(from, to) == [n \in 1..(IF to < from THEN 0 ELSE to - from + 1) |-> from + n - 1]

\* getOptimizedItems for a chunk and the item that ended it; the initial state
\* knows nothing, at height 0.
getOptimizedItems(chunk, breakingItem) ==
    With(optimizeBreakingItem(FeedAll([k |-> EmptyState, ops |-> << >>], chunk), breakingItem), LAMBDA b :
    With(b.s, LAMBDA s :
    LET bottom == {s.k.height + 1} \cup DOMAIN s.k.stack
    IN With(CHOOSE h \in bottom : \A x \in bottom : h <= x, LAMBDA minHeight :
    With(StackContents([s.k EXCEPT !.stack = << >>], Heights(minHeight, 0)), LAMBDA initial :
    With(StackContents([initial.k EXCEPT !.stack = s.k.stack], Heights(minHeight, s.k.height)), LAMBDA target :
    With(generateCode(target.k, StoresBySlot(s.ops), initial.contents, target.contents, 0), LAMBDA g :
        [items |-> g.items \o b.breaking, thrown |-> g.thrown]))))))

\* The next chunk of the code from position i on: its length, and the breaking item.
ChunkLength(items, i, msizeImportant) ==
    LET breaks == {n \in i..Len(items) : breaksCSEAnalysisBlock(items[n], msizeImportant)}
    IN IF breaks = {} THEN Len(items) - i + 1 ELSE (CHOOSE n \in breaks : \A x \in breaks : n <= x) - i

\* The loop over all chunks in optimiseInternal.
RECURSIVE OptimiseChunks(_, _, _)
OptimiseChunks(items, i, msizeImportant) ==
    IF i > Len(items) THEN [items |-> << >>, failed |-> FALSE]
    ELSE With(ChunkLength(items, i, msizeImportant), LAMBDA n :
         With(SubSeq(items, i, i + n - 1), LAMBDA chunk :
         With(IF i + n > Len(items) THEN << >> ELSE <<items[i + n]>>, LAMBDA breaking :
         With(getOptimizedItems(chunk, breaking), LAMBDA r :
         With(IF r.thrown = "" /\ Len(r.items) < Len(chunk \o breaking) THEN r.items
              ELSE chunk \o breaking, LAMBDA kept :
         With(OptimiseChunks(items, i + n + Len(breaking), msizeImportant), LAMBDA rest :
             [items |-> kept \o rest.items, failed |-> r.thrown = "Optimizer" \/ rest.failed]))))))

runCSE(items) ==
    LET usesMSize == \E n \in DOMAIN items : items[n] = Operation("MSIZE")
    IN With(OptimiseChunks(items, 1, usesMSize), LAMBDA optimised :
        IF Len(optimised.items) < Len(items) THEN optimised ELSE [optimised EXCEPT !.items = items])

=============================================================================
