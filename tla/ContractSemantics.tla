-------------------------- MODULE ContractSemantics --------------------------
(***************************************************************************)
(* What a contract does, read off its source: a reference interpreter       *)
(* without code, stack, slots or bytes.  Values are numbers, arrays and     *)
(* structs are functions, and a reference to storage is the path that leads *)
(* to it.                                                                   *)
(*                                                                         *)
(* The order in which operands are evaluated and the cases in which         *)
(* execution ends with an error are those of the language; the encoding of  *)
(* arguments, results and events is that of the interface.                  *)
(***************************************************************************)
EXTENDS TypeChecker

TheContract(p) == Last(ContractsOf(p.nodes))

-----------------------------------------------------------------------------
(* Values *)

\* A number as the value of a type that has it, or of what is left of it
Wrapped(n, t) ==
    CASE t.category \in {"Integer", "FixedBytes"} ->
            With(n % 2 ^ (t.numBytes * ByteBits), LAMBDA m :
                 IF t.category = "Integer" /\ t.isSigned /\ m > maxValue(t) THEN m - 2 ^ (t.numBytes * ByteBits) ELSE m)
      [] t.category \in {"Address", "Contract"} -> n % 2 ^ AddressBits
      [] t.category = "Bool" -> IF n = 0 THEN 0 ELSE 1
      [] OTHER -> n

\* What is on the left of a value of fewer bytes than a word
Missing(t) == 2 ^ (WordBits - t.numBytes * ByteBits)

\* The word that stands for a value, and back
WordFor(t, v) == IF t.category = "FixedBytes" THEN v * Missing(t) ELSE v % 2 ^ WordBits
ValueFor(t, w) == IF t.category = "FixedBytes" THEN w \div Missing(t) ELSE Wrapped(w, t)

ElementsFrom(array, n, zero) == [i \in 0..(n - 1) |-> IF i \in DOMAIN array THEN array[i] ELSE zero]
Length(array) == Cardinality(DOMAIN array)
ListOf(array) == [i \in 1..Length(array) |-> array[i - 1]]
ArrayOf(list) == [i \in 0..(Len(list) - 1) |-> list[i + 1]]

RECURSIVE ZeroOf(_, _)
ZeroOf(p, t) ==
    CASE t.category = "Mapping" -> [k \in ValuesOf(p, t.keyType) |-> ZeroOf(p, t.valueType)]
      [] t.category = "Array" -> [i \in 0..(t.length - 1) |-> ZeroOf(p, t.baseType)]
      [] t.category = "Struct" -> [m \in ToSet(p.nodes[t.struct].members) |-> ZeroOf(p, p.type[m])]
      [] OTHER -> 0

StateVariables(p) ==
    SelectSeq(FlattenSeq([i \in DOMAIN p.bases[TheContract(p)] |-> stateVariables(p, Reverse(p.bases[TheContract(p)])[i])]),
              LAMBDA v : ~p.nodes[v].isConstant)
InitialState(p) == [v \in ToSet(StateVariables(p)) |-> ZeroOf(p, p.type[v])]

\* A value where a path leads, and a value with another one there
RECURSIVE ValueAt(_, _), WithValueAt(_, _, _)
ValueAt(v, path) == IF path = << >> THEN v ELSE ValueAt(v[Head(path)], Tail(path))
WithValueAt(v, path, new) ==
    IF path = << >> THEN new ELSE [v EXCEPT ![Head(path)] = WithValueAt(@, Tail(path), new)]

-----------------------------------------------------------------------------
(* Execution *)

Running(p, message, variables) ==
    [p |-> p, message |-> message, storage |-> variables, heap |-> << >>, logs |-> << >>,
     function |-> 0, depth |-> 0, scope |-> 0, locals |-> << >>,
     value |-> 0, place |-> [kind |-> "none"], jump |-> "", end |-> "", astray |-> FALSE]

\* Whatever has to be done goes through here; nothing is done after the end.
RECURSIVE Do(_, _, _)
Evaluated(s, id) == Do("expression", s, id)
Executed(s, id) == IF s.jump = "" THEN Do("statement", s, id) ELSE s
ConvertedTo(s, to, from) == Do("converted", s, <<to, from>>)
AndThen(s, F(_)) == With(s, LAMBDA d : IF d.end = "" THEN F(d) ELSE d)

Stop(s, end) == [s EXCEPT !.end = end]
Give(s, v) == [s EXCEPT !.value = v]
Require(s, condition, end) == IF condition THEN s ELSE Stop(s, end)

\* Several things one after the other; their values as a sequence
InTurn(s, tasks) ==
    FoldLeft(LAMBDA r, task : With(Do(task[1], r, task[2]), LAMBDA d : [d EXCEPT !.value = Append(r.value, @)]),
             Give(s, << >>), tasks)

Allocated(s, object) == [s EXCEPT !.heap = Append(@, object), !.value = Len(s.heap) + 1]

MemberMap(members, values) ==
    [m \in ToSet(members) |-> values[CHOOSE i \in DOMAIN members : members[i] = m]]
InMemory(p, ids) == [i \in DOMAIN ids |-> withLocationIfReference("memory", p.type[ids[i]])]

\* A new object with zeros, of n elements if it is an array
NewObject(s, t, n) ==
    IF t.category = "Array"
    THEN AndThen(InTurn(s, [i \in 1..n |-> <<"zero", t.baseType>>]), LAMBDA d : Allocated(d, ArrayOf(d.value)))
    ELSE LET members == memoryMembers(s.p, t.struct)
         IN AndThen(InTurn(s, [i \in DOMAIN members |-> <<"zero", InMemory(s.p, members)[i]>>]), LAMBDA d :
                    Allocated(d, MemberMap(members, d.value)))

\* A reference to storage that has not been assigned leads nowhere.  Where one is used,
\* execution must not come to a good end.
IsPointer(t) == t.category = "Mapping" \/ (isReference(t) /\ t.location = "storage")
Nowhere == << >>
Astray(s) == [Stop(s, "revert") EXCEPT !.astray = TRUE]

ZeroValueIn(s, t) ==
    CASE IsPointer(t) -> Give(s, Nowhere)
      [] isReference(t) /\ t.location = "memory" -> NewObject(s, t, IF isDynamicallySized(t) THEN 0 ELSE t.length)
      [] OTHER -> Give(s, 0)

\* A copy in memory of a value of storage
CopiedToMemory(s, t, v) ==
    LET members == memoryMembers(s.p, t.struct)
    IN CASE t.category = "Array" ->
                AndThen(InTurn(s, [i \in 1..Length(v) |-> <<"copied", <<t.baseType, v[i - 1]>>>>]), LAMBDA d :
                        Allocated(d, ArrayOf(d.value)))
         [] t.category = "Struct" ->
                AndThen(InTurn(s, [i \in DOMAIN members |-> <<"copied", <<s.p.type[members[i]], v[members[i]]>>>>]), LAMBDA d :
                        Allocated(d, MemberMap(members, d.value)))
         [] OTHER -> Give(s, v)

\* The value behind a reference, without references
RECURSIVE Loaded(_, _, _)
Loaded(s, t, v) ==
    CASE isReference(t) /\ t.location = "storage" -> ValueAt(s.storage, v)
      [] t.category = "Array" /\ t.location # "storage" ->
            [i \in DOMAIN s.heap[v] |-> Loaded(s, t.baseType, s.heap[v][i])]
      [] t.category = "Struct" /\ t.location # "storage" ->
            [m \in DOMAIN s.heap[v] |-> Loaded(s, withLocationIfReference("memory", s.p.type[m]), s.heap[v][m])]
      [] OTHER -> v

\* Conversions of values.  What is no value of an enum, as an argument may be, is an error
\* wherever it is converted.
ConvertedValue(to, from, v) ==
    CASE to.category = "FixedBytes" /\ from.category = "FixedBytes" ->
            IF to.numBytes < from.numBytes THEN v \div 2 ^ ((from.numBytes - to.numBytes) * ByteBits)
            ELSE v * 2 ^ ((to.numBytes - from.numBytes) * ByteBits)
      [] OTHER -> Wrapped(v, to)

Conversion(s, to, from) ==
    CASE to.category = "Tuple" ->
            With(s.value, LAMBDA values :
                 InTurn(s, [i \in DOMAIN values |-> <<"given", <<values[i], to.components[i], from.components[i]>>>>]))
      [] isReference(to) /\ to.location = "memory" /\ from.location = "storage" ->
            Do("copied", s, <<from, ValueAt(s.storage, s.value)>>)
      [] "Enum" \in {to.category, from.category} ->
            With(IF to.category = "Enum" THEN to ELSE from, LAMBDA t :
                 Require(Give(s, ConvertedValue(to, from, s.value)), s.value \in ValuesOf(s.p, t), "invalid"))
      [] isReference(to) /\ ~(to.location = "memory" /\ from.location = "storage") -> s
      [] to.category \in {"None", "Mapping"} -> s
      [] OTHER -> Give(s, ConvertedValue(to, from, s.value))

\* What an assignment to storage leaves of a value: mappings are not copied, and what is
\* beyond the end of the source is zero.
RECURSIVE Overwritten(_, _, _, _, _)
Overwritten(p, to, from, v, old) ==
    CASE to.category = "Array" ->
            [i \in 0..((IF isDynamicallySized(to) THEN Length(v) ELSE to.length) - 1) |->
                IF i \notin DOMAIN v THEN ZeroOf(p, to.baseType)
                ELSE Overwritten(p, to.baseType, from.baseType, v[i],
                                 IF i \in DOMAIN old THEN old[i] ELSE ZeroOf(p, to.baseType))]
      [] to.category = "Struct" ->
            [m \in DOMAIN old |-> IF p.type[m].category = "Mapping" THEN old[m]
                                  ELSE Overwritten(p, p.type[m], p.type[m], v[m], old[m])]
      [] OTHER -> ConvertedValue(to, from, v)

\* delete leaves mappings alone.
RECURSIVE Cleared(_, _, _)
Cleared(p, t, old) ==
    CASE t.category = "Struct" -> [m \in DOMAIN old |-> Cleared(p, p.type[m], old[m])]
      [] t.category = "Mapping" -> old
      [] t.category = "Array" -> [i \in 0..(t.length - 1) |-> Cleared(p, t.baseType, old[i])]
      [] OTHER -> 0

-----------------------------------------------------------------------------
(* Places *)

Read(s, place, t) ==
    CASE place.kind = "local" ->
            IF IsPointer(t) /\ s.locals[place.key] = Nowhere THEN Astray(s) ELSE Give(s, s.locals[place.key])
      [] place.kind = "storage" -> Give(s, IF isValueType(t) THEN ValueAt(s.storage, place.path) ELSE place.path)
      [] place.kind = "memory" -> Give(s, s.heap[place.object][place.key])
      [] place.kind = "length" -> Give(s, Length(ValueAt(s.storage, place.path)))

Resized(s, place) ==
    [s EXCEPT !.storage = WithValueAt(@, place.path,
        ElementsFrom(ValueAt(@, place.path), s.value, ZeroOf(s.p, place.type.baseType)))]

\* s.value becomes the value of a place of type t.
Stored(s, place, t, from) ==
    CASE place.kind = "local" -> [s EXCEPT !.locals = (place.key :> s.value) @@ @]
      [] place.kind = "memory" -> [s EXCEPT !.heap[place.object][place.key] = s.value]
      [] place.kind = "length" -> Resized(s, place)
      [] place.kind = "storage" ->
            [s EXCEPT !.storage = WithValueAt(@, place.path,
                          Overwritten(s.p, t, from, Loaded(s, from, s.value), ValueAt(@, place.path))),
                      !.value = IF isValueType(t) THEN @ ELSE place.path]
      [] place.kind = "tuple" ->
            FoldLeft(LAMBDA r, i : IF place.places[i].kind = "none" THEN r
                                   ELSE Do("stored", Give(r, s.value[i]), <<place.places[i], t.components[i], from.components[i]>>),
                     s, Reverse([i \in DOMAIN place.places |-> i]))

Deleted(s, place, t) ==
    CASE place.kind = "storage" ->
            [s EXCEPT !.storage = WithValueAt(@, place.path, Cleared(s.p, t, ValueAt(@, place.path)))]
      [] place.kind = "length" -> Resized(Give(s, 0), place)
      [] OTHER -> AndThen(Do("zero", s, t), LAMBDA d : Stored(d, place, t, t))

\* A place is kept if it is assigned to and read otherwise.
AtPlace(s, id, place) ==
    IF id \in s.p.lValueRequested THEN [s EXCEPT !.place = place] ELSE Read(s, place, s.p.type[id])

-----------------------------------------------------------------------------
(* Operators *)

Bits(op, a, b) == CASE op = "|" -> a | b [] op = "&" -> a & b [] op = "^" -> a ^^ b

Shifted(op, a, n) ==
    CASE n >= WordBits -> IF op = ">>" /\ a < 0 THEN -1 ELSE 0
      [] n < WordBits -> IF op = "<<" THEN Product(a % 2 ^ WordBits, 2 ^ n) ELSE a \div 2 ^ n

\* Two values of the same type, unless for a shift
Operation(op, t, a, b) ==
    CASE op = "+" -> Wrapped(a + b, t)
      [] op = "-" -> Wrapped(a - b, t)
      [] op = "*" -> Wrapped(Product(a % 2 ^ WordBits, b % 2 ^ WordBits), t)
      [] op = "**" -> Wrapped(Exp(a, b), t)
      [] op = "/" -> Wrapped(SDiv(a, b), t)
      [] op = "%" -> a - b * SDiv(a, b)
      [] isBitOp(op) /\ ~isShiftOp(op) -> Wrapped(Bits(op, a % 2 ^ WordBits, b % 2 ^ WordBits), t)
      [] isShiftOp(op) -> Wrapped(Shifted(op, a, b), t)
      [] op = "==" -> Bool(a = b)
      [] op = "!=" -> Bool(a # b)
      [] op = "<" -> Bool(a < b)
      [] op = ">" -> Bool(a > b)
      [] op = "<=" -> Bool(a <= b)
      [] op = ">=" -> Bool(a >= b)

\* A division by zero and a shift by a negative amount are errors.
Operated(s, op, t, a, b) ==
    IF (op \in {"/", "%"} /\ b = 0) \/ (isShiftOp(op) /\ b < 0) THEN Stop(s, "invalid")
    ELSE Give(s, Operation(op, t, a, b))

Unary(op, t, v) ==
    CASE op = "!" -> 1 - v
      [] op = "-" -> Wrapped(-v, t)
      [] op = "~" -> Wrapped(-v - 1, t)

UnaryValue(s, id) ==
    LET n == s.p.nodes[id]
        t == s.p.type[id]
        Step(d, place) ==
            With(Read(d, place, t), LAMBDA old :
                 With(Operation(IF n.op = "++" THEN "+" ELSE "-", t, old.value, 1), LAMBDA new :
                      Give(Stored(Give(old, new), place, t, t), IF n.isPrefix THEN new ELSE old.value)))
    IN AndThen(Evaluated(s, n.sub), LAMBDA d :
               CASE n.op = "delete" -> Deleted(d, d.place, s.p.type[n.sub])
                 [] n.op \in {"++", "--"} -> Step(d, d.place)
                 [] OTHER -> Give(d, Unary(n.op, t, d.value)))

\* The right operand first; && and || the left one, which may decide.
BinaryValue(s, id) ==
    LET n == s.p.nodes[id]
        t == s.p.commonType[id]
        rightType == IF isShiftOp(n.op) THEN mobileType(s.p.type[n.right]) ELSE t
        Operands(r) == AndThen(ConvertedTo(Evaluated(r, n.left), t, s.p.type[n.left]), LAMBDA l :
                               Operated(l, n.op, t, l.value, r.value))
    IN IF n.op \in {"&&", "||"}
       THEN AndThen(Evaluated(s, n.left), LAMBDA l : IF l.value = Bool(n.op = "||") THEN l ELSE Evaluated(l, n.right))
       ELSE AndThen(ConvertedTo(Evaluated(s, n.right), rightType, s.p.type[n.right]), Operands)

\* The value first, then the place
AssignmentValue(s, id) ==
    LET n == s.p.nodes[id]
        t == s.p.type[n.left]
        op == IF n.op = "=" THEN "=" ELSE AssignmentToBinaryOp[n.op]
        from == IF op # "=" /\ isShiftOp(op) THEN mobileType(s.p.type[n.right])
                ELSE closestTemporaryType(s.p.type[n.right], t)
        Updated(d, v) == AndThen(With(Read(d, d.place, t), LAMBDA r : Operated(r, op, t, r.value, v)), LAMBDA u :
                                 Stored(u, d.place, t, t))
    IN AndThen(ConvertedTo(Evaluated(s, n.right), from, s.p.type[n.right]), LAMBDA v :
               AndThen(Evaluated(v, n.left), LAMBDA d :
                       IF op = "=" THEN Stored(Give(d, v.value), d.place, t, from) ELSE Updated(d, v.value)))

ConditionalValue(s, id) ==
    LET n == s.p.nodes[id]
    IN AndThen(Evaluated(s, n.condition), LAMBDA d :
               With(IF d.value = 1 THEN n.trueExpression ELSE n.falseExpression, LAMBDA e :
                    ConvertedTo(Evaluated(d, e), s.p.type[id], s.p.type[e])))

TuplePlace(s, components) ==
    FoldLeft(LAMBDA r, e :
                 With(IF e = 0 THEN [r EXCEPT !.place = [kind |-> "none"]] ELSE Evaluated(r, e), LAMBDA d :
                      [d EXCEPT !.place = [kind |-> "tuple", places |-> Append(r.place.places, @)]]),
             [s EXCEPT !.place = [kind |-> "tuple", places |-> << >>]], components)

TupleValue(s, id) ==
    LET components == s.p.nodes[id].components
        base == s.p.type[id].baseType
    IN CASE s.p.nodes[id].isInlineArray ->
                AndThen(InTurn(s, [i \in DOMAIN components |-> <<"argument", <<components[i], base>>>>]), LAMBDA d :
                        Allocated(d, ArrayOf(d.value)))
         [] ~s.p.nodes[id].isInlineArray /\ Len(components) = 1 -> Evaluated(s, components[1])
         [] OTHER -> IF id \in s.p.lValueRequested THEN TuplePlace(s, components)
                     ELSE InTurn(s, [i \in DOMAIN components |-> <<"expression", components[i]>>])

-----------------------------------------------------------------------------
(* Calls *)

\* The first function of the contracts that has the name and the parameters
FunctionIn(p, contracts, function) ==
    FirstIn(SelectSeq(FlattenSeq([i \in DOMAIN contracts |-> definedFunctions(p, contracts[i])]),
                      LAMBDA f : /\ p.nodes[f].name = p.nodes[function].name /\ ~p.nodes[f].isConstructor
                                 /\ SameParameters(p, f, function)))

ModifierIn(p, contracts, modifier) ==
    FirstIn(SelectSeq(FlattenSeq([i \in DOMAIN contracts |-> MembersOf(p, contracts[i], "ModifierDefinition")]),
                      LAMBDA m : p.nodes[m].name = p.nodes[modifier].name))

BasesOf(p) == p.bases[TheContract(p)]
BasesBehind(p, contract) ==
    SubSeq(BasesOf(p), 1 + CHOOSE i \in DOMAIN BasesOf(p) : BasesOf(p)[i] = contract, Len(BasesOf(p)))
BaseConstructor(p, contract) ==
    FirstIn(SelectSeq(FlattenSeq([i \in DOMAIN BasesBehind(p, contract) |-> definedFunctions(p, BasesBehind(p, contract)[i])]),
                      LAMBDA f : p.nodes[f].isConstructor))

\* A name means the most derived function, super the next one, and with the name of its
\* contract it is that one.
CalledFunction(p, e) ==
    LET n == p.nodes[e]
        t == p.type[n.expression]
    IN IF n.kind = "Identifier" THEN FunctionIn(p, BasesOf(p), p.ref[e])
       ELSE IF t.category = "Contract" THEN FunctionIn(p, BasesBehind(p, t.contract), p.ref[e])
       ELSE p.ref[e]

Bound(s, ids, values) == [s EXCEPT !.locals = [k \in {<<s.scope, d>> : d \in ToSet(ids)} |-> MemberMap(ids, values)[k[2]]] @@ @]

Arguments(s, ids, types) == InTurn(s, [i \in DOMAIN ids |-> <<"argument", <<ids[i], types[i]>>>>])

\* A function runs with variables of its own; its value is that of its return variables.
FunctionValue(s, function, values) ==
    LET n == s.p.nodes[function]
        entered == [s EXCEPT !.function = function, !.depth = 0, !.scope = 0, !.locals = << >>]
        Body(d) == Do("body", Bound(Bound(d, n.returnParameters, d.value), n.parameters, values), 0)
        Left(d) ==
            With([i \in DOMAIN n.returnParameters |-> d.locals[<<0, n.returnParameters[i]>>]], LAMBDA returned :
                 IF \E i \in DOMAIN returned : IsPointer(s.p.type[n.returnParameters[i]]) /\ returned[i] = Nowhere THEN Astray(d)
                 ELSE [d EXCEPT !.function = s.function, !.depth = s.depth, !.scope = s.scope, !.locals = s.locals, !.jump = "",
                           !.value = IF Len(returned) = 1 THEN returned[1] ELSE << >> \o returned])
    IN AndThen(AndThen(InTurn(entered, [i \in DOMAIN n.returnParameters |-> <<"zero", s.p.type[n.returnParameters[i]]>>]), Body),
               Left)

\* Constructors share their variables: arguments for a base are written in terms of the
\* parameters of the contract that gives them.
Constructed(s, function, values) ==
    LET n == s.p.nodes[function]
        base == BaseConstructor(s.p, s.p.scope[function])
        parameters == s.p.nodes[base].parameters
        given == s.p.nodes[s.p.baseArguments[TheContract(s.p)][base]].arguments
        Based(d) == IF base = 0 THEN d
                    ELSE IF parameters = << >> THEN Do("constructor", d, <<base, << >>>>)
                    ELSE AndThen(Arguments(d, given, TypesOf(s.p, parameters)), LAMBDA e : Do("constructor", e, <<base, e.value>>))
    IN AndThen(Based(Bound(s, n.parameters, values)), LAMBDA d :
               Do("body", [d EXCEPT !.function = function, !.depth = 0, !.jump = ""], 0))

\* The modifiers of the function are around its body.  A return leaves only what it is in.
Body(s) ==
    LET n == s.p.nodes[s.function]
        depth == s.depth + 1
        invocation == s.p.nodes[n.modifiers[depth]]
        modifier == s.p.nodes[ModifierIn(s.p, BasesOf(s.p), s.p.ref[invocation.name])]
        Modified(d) == Executed(Bound([d EXCEPT !.scope = depth, !.depth = depth], modifier.parameters, d.value), modifier.body)
        inner == CASE depth > Len(n.modifiers) -> Executed([s EXCEPT !.scope = 0, !.depth = depth], n.body)
                   [] depth <= Len(n.modifiers) ->
                        IF s.p.nodes[s.p.ref[invocation.name]].kind = "ContractDefinition" THEN Do("body", [s EXCEPT !.depth = depth], 0)
                        ELSE AndThen(Arguments([s EXCEPT !.scope = 0], invocation.arguments, TypesOf(s.p, modifier.parameters)), Modified)
    IN AndThen(inner, LAMBDA d : [d EXCEPT !.jump = "", !.scope = s.scope, !.depth = s.depth])

\* The words that encode values: first all heads, then what dynamic arrays refer to
RECURSIVE HeadOf(_, _, _)
HeadOf(p, t, v) ==
    IF t.category = "Array" THEN FlattenSeq([i \in 1..Length(v) |-> HeadOf(p, t.baseType, v[i - 1])]) ELSE <<WordFor(t, v)>>
EncodedWords(p, types, values) ==
    LET heads == Total([i \in DOMAIN types |-> calldataEncodedSize(p, types[i], TRUE)])
        Add(words, i) ==
            IF isDynamicallySized(types[i])
            THEN [head |-> Append(words.head, heads + WordBytes * Len(words.tail)),
                  tail |-> words.tail \o <<Length(values[i])>> \o HeadOf(p, types[i], values[i])]
            ELSE [words EXCEPT !.head = @ \o HeadOf(p, types[i], values[i])]
    IN With(FoldLeft(Add, [head |-> << >>, tail |-> << >>], [i \in DOMAIN types |-> i]), LAMBDA words :
            words.head \o words.tail)

\* Indexed arguments are topics, and are evaluated first, from the last one on.
Logged(s, n, t) ==
    LET event == s.p.nodes[t.declaration]
        all == [i \in DOMAIN n.arguments |-> i]
        indexed == SelectSeq(all, LAMBDA i : s.p.nodes[event.parameters[i]].isIndexed)
        others == SelectSeq(all, LAMBDA i : ~s.p.nodes[event.parameters[i]].isIndexed)
        Of(list, is) == [i \in DOMAIN is |-> list[is[i]]]
        types == Of(t.parameterTypes, others)
        signature == IF event.anonymous THEN << >> ELSE <<SignatureHash(externalSignature(s.p, t))>>
        Log(topics, d) ==
            [d EXCEPT !.logs = Append(@,
                [topics |-> signature \o [i \in DOMAIN indexed |-> WordFor(t.parameterTypes[indexed[i]], Reverse(topics.value)[i])],
                 data |-> EncodedWords(s.p, types, [i \in DOMAIN others |-> Loaded(d, InMemory(s.p, event.parameters)[others[i]], d.value[i])])])]
    IN AndThen(Arguments(s, Of(n.arguments, Reverse(indexed)), Of(t.parameterTypes, Reverse(indexed))), LAMBDA topics :
               AndThen(Arguments(topics, Of(n.arguments, others), Of(InMemory(s.p, event.parameters), others)), LAMBDA d :
                       Log(topics, d)))

Pushed(s, array, argument, t) ==
    LET base == t.parameterTypes[1]
        from == closestTemporaryType(s.p.type[argument], base)
        Added(d) ==
            With(ValueAt(d.storage, array), LAMBDA old :
                 [d EXCEPT !.storage = WithValueAt(@, array,
                                (Length(old) :> Overwritten(s.p, base, from, Loaded(d, from, d.value), ZeroOf(s.p, base))) @@ old),
                           !.value = Length(old) + 1])
    IN AndThen(ConvertedTo(Evaluated(s, argument), from, s.p.type[argument]), Added)

Popped(s, array) ==
    With(ValueAt(s.storage, array), LAMBDA old :
         IF Length(old) = 0 THEN Stop(s, "invalid")
         ELSE [s EXCEPT !.storage = WithValueAt(@, array, ElementsFrom(old, Length(old) - 1, 0))])

BuiltinValue(s, id, n, t) ==
    CASE t.kind = "Revert" -> Stop(s, "revert")
      [] t.kind \in {"Assert", "Require"} ->
            AndThen(Evaluated(s, n.arguments[1]), LAMBDA d :
                    Require(d, d.value = 1, IF t.kind = "Assert" THEN "invalid" ELSE "revert"))
      [] t.kind \in {"AddMod", "MulMod"} ->
            AndThen(Do("argument", s, <<n.arguments[3], uint256>>), LAMBDA m :
            AndThen(Require(m, m.value # 0, "invalid"), LAMBDA k :
            AndThen(Arguments(k, <<n.arguments[2], n.arguments[1]>>, <<uint256, uint256>>), LAMBDA d :
                    Give(d, IF t.kind = "AddMod" THEN (d.value[1] + d.value[2]) % m.value
                            ELSE ProductModulo(d.value[1], d.value[2], m.value)))))
      [] t.kind = "Event" -> Logged(s, n, t)
      [] t.kind = "ArrayPush" -> AndThen(Evaluated(s, n.expression), LAMBDA d : Pushed(d, d.value, n.arguments[1], t))
      [] t.kind = "ArrayPop" -> AndThen(Evaluated(s, n.expression), LAMBDA d : Popped(d, d.value))
      [] t.kind = "ObjectCreation" ->
            AndThen(Do("argument", s, <<n.arguments[1], uint256>>), LAMBDA d : NewObject(d, s.p.type[id], d.value))

CallValue(s, id) ==
    LET n == s.p.nodes[id]
        t == s.p.type[n.expression]
        struct == s.p.type[id].struct
        Made(d) == Allocated(d, MemberMap(memoryMembers(s.p, struct), d.value))
        Called(d) == Do("call", d, <<CalledFunction(s.p, n.expression), d.value>>)
    IN CASE s.p.callKind[id] = "TypeConversion" -> Do("argument", s, <<n.arguments[1], s.p.type[id]>>)
         [] s.p.callKind[id] = "StructConstructorCall" ->
                AndThen(Arguments(s, n.arguments, InMemory(s.p, memoryMembers(s.p, struct))), Made)
         [] OTHER -> IF t.kind = "Internal" THEN AndThen(Arguments(s, n.arguments, t.parameterTypes), Called)
                     ELSE BuiltinValue(s, id, n, t)

-----------------------------------------------------------------------------
(* Access *)

Variable(s, declaration, id) ==
    CASE <<s.scope, declaration>> \in DOMAIN s.locals -> AtPlace(s, id, [kind |-> "local", key |-> <<s.scope, declaration>>])
      [] <<s.scope, declaration>> \notin DOMAIN s.locals ->
            IF s.p.nodes[declaration].isConstant THEN Do("argument", s, <<s.p.nodes[declaration].value, s.p.type[declaration]>>)
            ELSE AtPlace(s, id, [kind |-> "storage", path |-> <<declaration>>])

\* A part of an object
PartOf(s, t, id, object, key) ==
    AtPlace(s, id, IF t.location = "storage" THEN [kind |-> "storage", path |-> Append(object, key)]
                   ELSE [kind |-> "memory", object |-> object, key |-> key])

MemberValue(s, id) ==
    LET n == s.p.nodes[id]
        t == s.p.type[n.expression]
        Named_(ids) == ids[IndexOfMember(s.p, ids, n.memberName)]
        ArrayPart(d) ==
            CASE n.memberName # "length" -> d
              [] n.memberName = "length" /\ t.location = "storage" /\ isDynamicallySized(t) ->
                    AtPlace(d, id, [kind |-> "length", path |-> d.value, type |-> t])
              [] OTHER -> Give(d, IF isDynamicallySized(t) THEN Length(d.heap[d.value]) ELSE t.length)
    IN CASE t.category = "Magic" -> Give(s, CASE n.memberName = "sender" -> s.message.sender
                                              [] n.memberName = "value" -> s.message.value
                                              [] n.memberName = "sig" -> s.message.selector)
         [] t.category = "TypeType" ->
                IF t.actualType.category = "Enum" THEN Give(s, IndexOfMember(s.p, s.p.nodes[t.actualType.enum].members, n.memberName) - 1)
                ELSE Variable(s, s.p.ref[id], id)
         [] t.category = "Struct" -> AndThen(Evaluated(s, n.expression), LAMBDA d :
                                             PartOf(d, t, id, d.value, Named_(s.p.nodes[t.struct].members)))
         [] t.category = "Array" -> AndThen(Evaluated(s, n.expression), ArrayPart)
         [] t.category = "FixedBytes" -> AndThen(Evaluated(s, n.expression), LAMBDA d : Give(d, t.numBytes))

ElementValue(s, id) ==
    LET n == s.p.nodes[id]
        t == s.p.type[n.base]
        keyType == IF t.category = "Mapping" THEN t.keyType ELSE uint256
        Size(d, b) == CASE t.category = "FixedBytes" -> t.numBytes
                        [] t.category = "Array" /\ t.location = "storage" -> Length(ValueAt(d.storage, b))
                        [] t.category = "Array" /\ t.location # "storage" -> Length(d.heap[b])
        ByteAt(v, i) == (v \div 2 ^ ((t.numBytes - 1 - i) * ByteBits)) % 2 ^ ByteBits
        Element(d, b, i) ==
            CASE t.category = "Mapping" -> AtPlace(d, id, [kind |-> "storage", path |-> Append(b, i)])
              [] t.category # "Mapping" ->
                    IF i >= Size(d, b) THEN Stop(d, "invalid")
                    ELSE IF t.category = "FixedBytes" THEN Give(d, ByteAt(b, i)) ELSE PartOf(d, t, id, b, i)
    IN AndThen(Evaluated(s, n.base), LAMBDA b :
               AndThen(Do("argument", b, <<n.index, keyType>>), LAMBDA d : Element(d, b.value, d.value)))

ExpressionValue(s, id) ==
    LET n == s.p.nodes[id]
        t == s.p.type[id]
        isFunction == t.category = "Function" /\ t.kind = "Internal" /\ n.kind \in {"Identifier", "MemberAccess"}
    IN CASE isFunction -> Give(s, CalledFunction(s.p, id))
         [] t.category = "RationalNumber" /\ n.kind \in {"Literal", "UnaryOperation", "BinaryOperation"} -> Give(s, t.value.num)
         [] t.category = "Bool" /\ n.kind = "Literal" -> Give(s, Bool(n.token = "true"))
         [] n.kind = "Conditional" -> ConditionalValue(s, id)
         [] n.kind = "Assignment" -> AssignmentValue(s, id)
         [] n.kind = "TupleExpression" -> TupleValue(s, id)
         [] n.kind = "UnaryOperation" /\ t.category # "RationalNumber" -> UnaryValue(s, id)
         [] n.kind = "BinaryOperation" /\ t.category # "RationalNumber" -> BinaryValue(s, id)
         [] n.kind = "FunctionCall" -> CallValue(s, id)
         [] n.kind = "MemberAccess" /\ ~isFunction -> MemberValue(s, id)
         [] n.kind = "IndexAccess" -> ElementValue(s, id)
         [] n.kind = "Identifier" /\ ~isFunction -> Variable(s, s.p.ref[id], id)

-----------------------------------------------------------------------------
(* Statements *)

\* A loop from its condition on; the body of a do loop has run once before.
Looped(s, condition, body, next_) ==
    LET Round_(d) ==
            With(Executed(d, body), LAMBDA e :
                 IF e.end # "" \/ e.jump \in {"break", "return"} THEN [e EXCEPT !.jump = IF @ = "break" THEN "" ELSE @]
                 ELSE With([e EXCEPT !.jump = ""], LAMBDA f :
                           Do("loop", IF next_ = 0 THEN f ELSE Executed(f, next_), <<condition, body, next_>>)))
    IN IF condition = 0 THEN Round_(s)
       ELSE AndThen(Evaluated(s, condition), LAMBDA d : IF d.value = 1 THEN Round_(d) ELSE d)

DoWhile(s, n) ==
    With(Executed(s, n.body), LAMBDA e :
         IF e.end # "" \/ e.jump \in {"break", "return"} THEN [e EXCEPT !.jump = IF @ = "break" THEN "" ELSE @]
         ELSE Looped([e EXCEPT !.jump = ""], n.condition, n.body, 0))

\* All variables are zero before the value is evaluated.
DeclaredVariables(s, n) ==
    LET variables == NotNull(n.variables)
        t == s.p.type[n.value]
        values == IF t.category = "Tuple" THEN t.components ELSE <<t>>
        declared == AndThen(InTurn(s, [i \in DOMAIN variables |-> <<"zero", s.p.type[variables[i]]>>]), LAMBDA d :
                            Bound(d, variables, d.value))
        Moved(d, list) ==
            FoldLeft(LAMBDA r, i :
                         IF n.variables[i] = 0 THEN r
                         ELSE AndThen(ConvertedTo(Give(r, list[i]), s.p.type[n.variables[i]], values[i]), LAMBDA e :
                                      Bound(e, <<n.variables[i]>>, <<e.value>>)),
                     d, Reverse([i \in DOMAIN n.variables |-> i]))
    IN IF n.value = 0 THEN declared
       ELSE AndThen(AndThen(declared, LAMBDA d : Evaluated(d, n.value)), LAMBDA d :
                    Moved(d, IF t.category = "Tuple" THEN d.value ELSE <<d.value>>))

Returned(s, id) ==
    LET e == s.p.nodes[id].expression
        parameters == s.p.nodes[s.p.returns[id]].returnParameters
        types == TypesOf(s.p, parameters)
        isTuple == s.p.type[e].category = "Tuple" \/ Len(types) # 1
    IN [IF e = 0 THEN s
        ELSE AndThen(ConvertedTo(Evaluated(s, e), IF isTuple THEN TupleType(types) ELSE types[1], s.p.type[e]), LAMBDA d :
                     Bound(d, parameters, IF isTuple THEN d.value ELSE <<d.value>>))
        EXCEPT !.jump = "return"]

StatementEffect(s, id) ==
    LET n == s.p.nodes[id]
    IN CASE n.kind = "Block" -> FoldLeft(LAMBDA d, t : Executed(d, t), s, n.statements)
         [] n.kind = "IfStatement" ->
                AndThen(Evaluated(s, n.condition), LAMBDA d :
                        IF d.value = 1 THEN Executed(d, n.trueBody)
                        ELSE IF n.falseBody # 0 THEN Executed(d, n.falseBody) ELSE d)
         [] n.kind = "WhileStatement" -> IF n.isDoWhile THEN DoWhile(s, n) ELSE Looped(s, n.condition, n.body, 0)
         [] n.kind = "ForStatement" ->
                AndThen(IF n.init = 0 THEN s ELSE Executed(s, n.init), LAMBDA d : Looped(d, n.condition, n.body, n.loop))
         [] n.kind = "Continue" -> [s EXCEPT !.jump = "continue"]
         [] n.kind = "Break" -> [s EXCEPT !.jump = "break"]
         [] n.kind = "Return" -> Returned(s, id)
         [] n.kind = "EmitStatement" -> Evaluated(s, n.call)
         [] n.kind = "VariableDeclarationStatement" -> DeclaredVariables(s, n)
         [] n.kind = "ExpressionStatement" -> Evaluated(s, n.expression)
         [] n.kind = "PlaceholderStatement" -> Do("body", s, 0)

Do(what, s, x) ==
    CASE s.end # "" -> s
      [] s.end = "" /\ what = "expression" -> ExpressionValue(s, x)
      [] s.end = "" /\ what = "statement" -> StatementEffect(s, x)
      [] s.end = "" /\ what = "argument" -> ConvertedTo(Evaluated(s, x[1]), x[2], s.p.type[x[1]])
      [] s.end = "" /\ what = "converted" -> Conversion(s, x[1], x[2])
      [] s.end = "" /\ what = "given" -> Conversion(Give(s, x[1]), x[2], x[3])
      [] s.end = "" /\ what = "zero" -> ZeroValueIn(s, x)
      [] s.end = "" /\ what = "copied" -> CopiedToMemory(s, x[1], x[2])
      [] s.end = "" /\ what = "stored" -> Stored(s, x[1], x[2], x[3])
      [] s.end = "" /\ what = "call" -> FunctionValue(s, x[1], x[2])
      [] s.end = "" /\ what = "constructor" -> Constructed(s, x[1], x[2])
      [] s.end = "" /\ what = "body" -> Body(s)
      [] s.end = "" /\ what = "loop" -> Looped(s, x[1], x[2], x[3])

-----------------------------------------------------------------------------
(* Messages *)

\* Arguments that are missing are refused, others cut to their types.
Decodable(types, words) == Len(words) >= Len(types)
ArgumentValues(p, types, words) == [i \in DOMAIN types |-> ValueFor(encodingType(p, types[i]), words[i])]

\* No value is sent to a function that is not payable.
Accepted(s, n) == Require(s, s.message.value = 0 \/ n.stateMutability = "payable", "revert")

\* State variables get their first values, those of bases before those of derived
\* contracts, then the constructors run.
Initialised(s, variable) ==
    LET n == s.p.nodes[variable]
        t == s.p.type[variable]
        from == closestTemporaryType(s.p.type[n.value], t)
    IN IF n.value = 0 THEN s
       ELSE AndThen(Do("argument", s, <<n.value, from>>), LAMBDA d :
                    Stored(d, [kind |-> "storage", path |-> <<variable>>], t, from))

Create(s) ==
    LET own == constructor(s.p, TheContract(s.p))
        base == BaseConstructor(s.p, TheContract(s.p))
        n == s.p.nodes[own]
        types == TypesOf(s.p, n.parameters)
        withState == FoldLeft(LAMBDA d, v : AndThen(d, LAMBDA e : Initialised(e, v)), s, StateVariables(s.p))
        Own(d) == IF ~Decodable(types, s.message.words) THEN Stop(d, "revert")
                  ELSE Do("constructor", d, <<own, ArgumentValues(s.p, types, s.message.words)>>)
    IN AndThen(withState, LAMBDA d :
               IF own # 0 THEN AndThen(Accepted(d, n), Own)
               ELSE AndThen(Require(d, s.message.value = 0, "revert"), LAMBDA e :
                    IF base = 0 THEN e
                    ELSE LET parameters == s.p.nodes[base].parameters
                             given == s.p.nodes[s.p.baseArguments[TheContract(s.p)][base]].arguments
                         IN IF parameters = << >> THEN Do("constructor", e, <<base, << >>>>)
                            ELSE AndThen(Arguments(e, given, TypesOf(s.p, parameters)), LAMBDA f : Do("constructor", f, <<base, f.value>>))))

\* A public variable is read with a key for every mapping and an index for every array
\* on the way.
RECURSIVE Accessed(_, _, _, _)
Accessed(s, t, path, values) ==
    CASE values = << >> ->
            With(ValueAt(s.storage, path), LAMBDA v :
                 Give(s, IF t.category = "Struct" THEN << >> \o [i \in DOMAIN AccessibleMembers(s.p, t.struct) |-> v[AccessibleMembers(s.p, t.struct)[i]]]
                         ELSE v))
      [] values # << >> /\ t.category = "Mapping" -> Accessed(s, t.valueType, Append(path, Head(values)), Tail(values))
      [] values # << >> /\ t.category = "Array" ->
            IF Head(values) >= Length(ValueAt(s.storage, path)) THEN Stop(s, "invalid")
            ELSE Accessed(s, t.baseType, Append(path, Head(values)), Tail(values))

AccessorCalled(s, variable, values) ==
    IF s.p.nodes[variable].isConstant THEN Do("argument", s, <<s.p.nodes[variable].value, s.p.type[variable]>>)
    ELSE Accessed(s, s.p.type[variable], <<variable>>, values)

ResultWords(s, t) ==
    LET types == t.returnParameterTypes
        values == IF Len(types) = 1 /\ AccessorValue(s.p.type[t.declaration]).category # "Struct" THEN <<s.value>> ELSE s.value
    IN EncodedWords(s.p, types, [i \in DOMAIN types |-> Loaded(s, types[i], values[i])])

Answered(s) ==
    LET called == SelectSeq(interfaceFunctionList(s.p, TheContract(s.p)),
                            LAMBDA t : SignatureHash(externalSignature(s.p, t)) = s.message.selector)
        t == called[1]
        n == s.p.nodes[t.declaration]
        fallback == fallbackFunction(s.p, TheContract(s.p))
        Run(d) == IF n.kind = "VariableDeclaration" THEN AccessorCalled(d, t.declaration, ArgumentValues(s.p, t.parameterTypes, s.message.words))
                  ELSE FunctionValue(d, t.declaration, ArgumentValues(s.p, t.parameterTypes, s.message.words))
    IN IF called # << >>
       THEN AndThen(AndThen(Require(Accepted(s, t), Decodable(t.parameterTypes, s.message.words), "revert"), Run), LAMBDA d :
                    Give(d, ResultWords(d, t)))
       ELSE IF fallback = 0 THEN Stop(s, "revert")
       ELSE AndThen(Accepted(s, s.p.nodes[fallback]), LAMBDA d : Give(FunctionValue(d, fallback, << >>), << >>))
=============================================================================
