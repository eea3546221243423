--------------------------- MODULE PolynomialTypes ---------------------------
(***************************************************************************)
(* The types of expressions and variables (Types.cpp): which conversions    *)
(* and operators they allow, their members, and their layout in storage, in *)
(* memory and in the data of a call.                                        *)
(*                                                                         *)
(* p is the program being analysed: its nodes, the types of its             *)
(* declarations (p.type) and the linearised bases of its contracts          *)
(* (p.bases).  Fixed point numbers, string literals, libraries and imported *)
(* modules are left out; a fraction has the type FixedPoint, which nothing  *)
(* converts to.                                                             *)
(***************************************************************************)
EXTENDS PolynomialAst, ContractLayout

CONSTANTS SelectorBytes,   \* 4: the bytes that select a function in the data of a call
          PrecisionBits    \* 4096: the bits a rational constant may have

AddressBytes == AddressBits \div ByteBits

NoType == [category |-> "None"]   \* the null pointer
Mutability == [pure |-> 0, view |-> 1, nonpayable |-> 2, payable |-> 3]
Dynamic == -1

AddressType(stateMutability) == [category |-> "Address", stateMutability |-> stateMutability]
IntegerType(numBytes, isSigned) == [category |-> "Integer", numBytes |-> numBytes, isSigned |-> isSigned]
RationalNumberType(value) == [category |-> "RationalNumber", value |-> value]
FixedPointType == [category |-> "FixedPoint"]
FixedBytesType(numBytes) == [category |-> "FixedBytes", numBytes |-> numBytes]
BoolType == [category |-> "Bool"]
ArrayType(location, isPointer, arrayKind, baseType, length) ==
    [category |-> "Array", location |-> location, isPointer |-> isPointer, arrayKind |-> arrayKind,
     baseType |-> baseType, length |-> length]
ContractType(contract, super) == [category |-> "Contract", contract |-> contract, super |-> super]
StructType(struct, location, isPointer) ==
    [category |-> "Struct", struct |-> struct, location |-> location, isPointer |-> isPointer]
EnumType(enum) == [category |-> "Enum", enum |-> enum]
TupleType(components) == [category |-> "Tuple", components |-> components]
FunctionType(parameterTypes, returnParameterTypes, kind, stateMutability, declaration) ==
    [category |-> "Function", parameterTypes |-> parameterTypes, returnParameterTypes |-> returnParameterTypes,
     kind |-> kind, stateMutability |-> stateMutability, declaration |-> declaration]
MappingType(keyType, valueType) == [category |-> "Mapping", keyType |-> keyType, valueType |-> valueType]
TypeType(actualType) == [category |-> "TypeType", actualType |-> actualType]
ModifierType(parameterTypes) == [category |-> "Modifier", parameterTypes |-> parameterTypes]
MagicType(kind) == [category |-> "Magic", kind |-> kind]

EmptyTuple == TupleType(<< >>)
uint256 == IntegerType(WordBytes, FALSE)

isByteArray(t) == t.arrayKind # "Ordinary"
isString(t) == t.arrayKind = "String"
isReference(t) == t.category \in {"Array", "Struct"}
isDynamicallySized(t) == t.category = "Array" /\ t.length = Dynamic

\* operator==: two functions are told apart by their types only.
Same(t, o) ==
    IF t.category = "Function" /\ o.category = "Function"
    THEN [t EXCEPT !.declaration = 0] = [o EXCEPT !.declaration = 0]
    ELSE t = o

-----------------------------------------------------------------------------
(* TypeProvider *)

ByteArrayType(location, isString_) ==
    ArrayType(location, TRUE, IF isString_ THEN "String" ELSE "Bytes", FixedBytesType(1), Dynamic)

\* The copy for another location takes the elements along, as references.
RECURSIVE withLocation(_, _, _)
withLocation(t, location, isPointer) ==
    IF t.location = location /\ t.isPointer = isPointer THEN t
    ELSE IF t.category = "Struct" THEN [t EXCEPT !.location = location, !.isPointer = isPointer]
    ELSE [t EXCEPT !.location = location, !.isPointer = isPointer,
                   !.baseType = IF isReference(@) THEN withLocation(@, location, FALSE) ELSE @]

withLocationIfReference(location, t) == IF isReference(t) THEN withLocation(t, location, FALSE) ELSE t

NewArrayType(location, baseType, length) ==
    ArrayType(location, TRUE, "Ordinary", withLocationIfReference(location, baseType), length)

fromElementaryTypeName(token) ==
    LET Sized(n) == IF n = 0 THEN WordBytes ELSE n
    IN CASE token \in DOMAIN SignedTypes -> IntegerType(Sized(SignedTypes[token]), TRUE)
         [] token \in DOMAIN UnsignedTypes -> IntegerType(Sized(UnsignedTypes[token]), FALSE)
         [] token \in DOMAIN FixedBytesTypes -> FixedBytesType(FixedBytesTypes[token])
         [] token = "address" -> AddressType("nonpayable")
         [] token = "bool" -> BoolType
         [] token \in {"bytes", "string"} -> ByteArrayType("storage", token = "string")

-----------------------------------------------------------------------------
(* Rational constants *)

RECURSIVE Gcd(_, _)
Gcd(a, b) == IF b = 0 THEN a ELSE Gcd(b, a % b)

Rational(n, d) ==
    With(Gcd(Magnitude(n), Magnitude(d)) * Sign(d), LAMBDA g :
        [num |-> SDiv(n, g), den |-> SDiv(d, g)])

isFractional(t) == t.value.den # 1

forLiteral(token) ==
    IF token \in {"true", "false"} THEN BoolType ELSE RationalNumberType(Rational(LiteralValue[token], 1))

mostSignificantBit(n) == CHOOSE k \in 0..30 : 2 ^ k <= n /\ n \div 2 ^ k < 2

bytesRequired(n) == IF n = 0 THEN 0 ELSE mostSignificantBit(n) \div ByteBits + 1

fitsPrecisionExp(base, exp) ==
    \/ base \in {0, 1}
    \/ exp * (mostSignificantBit(base) + 1) <= PrecisionBits

fitsPrecisionBase2(mantissa, exp) == mantissa = 0 \/ mostSignificantBit(mantissa) + exp + 1 <= PrecisionBits

minValue(t) == IF t.isSigned THEN -(2 ^ (t.numBytes * ByteBits - 1)) ELSE 0
maxValue(t) == 2 ^ (t.numBytes * ByteBits - (IF t.isSigned THEN 1 ELSE 0)) - 1

fitsIntegerType(value, t) == minValue(t) <= value /\ value <= maxValue(t)

\* The smallest integer type that has the value; a negative number counts as the
\* positive one that needs as many bits.
integerType(t) ==
    LET n == t.value.num
        positive == IF n < 0 THEN (-n - 1) * 2 ELSE n
    IN IF positive > Ones THEN NoType
       ELSE IntegerType(IF positive = 0 THEN 1 ELSE bytesRequired(positive), n < 0)

\* The word for a constant
literalValue(t, token) ==
    CASE t.category = "Bool" -> IF token = "true" THEN 1 ELSE 0
      [] t.category = "RationalNumber" -> Wrap(t.value.num)

\* Powers of integers; 0, 1 and -1 have no limit on the exponent.
RECURSIVE Power(_, _)
Power(b, n) == IF n = 0 THEN 1 ELSE b * Power(b, n - 1)

RationalPower(a, exp) ==
    LET n == Power(a.num, Magnitude(exp))
        d == Power(a.den, Magnitude(exp))
    IN CASE exp = 0 -> <<Rational(1, 1)>>
         [] exp # 0 /\ (a.num = 0 \/ a = Rational(1, 1)) -> <<a>>
         [] exp # 0 /\ a = Rational(-1, 1) -> <<Rational(IF Magnitude(exp) % 2 = 1 THEN -1 ELSE 1, 1)>>
         [] OTHER -> IF ~fitsPrecisionExp(Magnitude(a.num), Magnitude(exp))
                        \/ ~fitsPrecisionExp(a.den, Magnitude(exp))
                     THEN << >>
                     ELSE <<IF exp > 0 THEN Rational(n, d) ELSE Rational(d, n)>>

\* A negative number is shifted to the right by rounding down.
RationalShift(op, a, n) ==
    CASE n < 0 -> << >>
      [] n >= 0 /\ a.num = 0 -> <<a>>
      [] n >= 0 /\ a.num # 0 /\ op = "<<" ->
            IF fitsPrecisionBase2(Magnitude(a.num), n) THEN <<Rational(a.num * 2 ^ n, 1)>> ELSE << >>
      [] OTHER -> IF n > mostSignificantBit(Magnitude(a.num)) THEN <<Rational(IF a.num < 0 THEN -1 ELSE 0, 1)>>
                  ELSE <<Rational(a.num \div 2 ^ n, 1)>>

\* Bits of a number of any sign
TwosComplement(n) == n % 2 ^ (PrecisionBits + 2)
FromBits(n) == IF n >= 2 ^ (PrecisionBits + 1) THEN n - 2 ^ (PrecisionBits + 2) ELSE n

RationalBits(op, a, b) ==
    LET x == TwosComplement(a.num)
        y == TwosComplement(b.num)
    IN <<Rational(FromBits(CASE op = "|" -> x | y [] op = "^" -> x ^^ y [] op = "&" -> x & y), 1)>>

\* The value of a constant expression as a sequence: empty if there is none.
RationalValue(op, a, b) ==
    LET fractional == a.den # 1 \/ b.den # 1
    IN CASE op \in {"|", "^", "&"} -> IF fractional THEN << >> ELSE RationalBits(op, a, b)
         [] op = "+" -> <<Rational(a.num * b.den + b.num * a.den, a.den * b.den)>>
         [] op = "-" -> <<Rational(a.num * b.den - b.num * a.den, a.den * b.den)>>
         [] op = "*" -> <<Rational(a.num * b.num, a.den * b.den)>>
         [] op = "/" -> IF b.num = 0 THEN << >> ELSE <<Rational(a.num * b.den, a.den * b.num)>>
         [] op = "%" ->
                IF b.num = 0 THEN << >>
                ELSE LET quotient == SDiv(a.num * b.den, a.den * b.num)
                     IN <<Rational(a.num * b.den - quotient * b.num * a.den, a.den * b.den)>>
         [] op = "**" -> IF b.den # 1 THEN << >> ELSE RationalPower(a, b.num)
         [] op \in {"<<", ">>"} -> IF fractional THEN << >> ELSE RationalShift(op, a, b.num)
         [] OTHER -> << >>

\* After every operation numerator and denominator have to fit the precision.
RationalResult(op, a, b) ==
    With(RationalValue(op, a, b), LAMBDA value :
    LET Fits(n) == n = 0 \/ mostSignificantBit(Magnitude(n)) <= PrecisionBits
    IN IF value = << >> THEN NoType
       ELSE IF Fits(value[1].num) /\ Fits(value[1].den) THEN RationalNumberType(value[1]) ELSE NoType)

-----------------------------------------------------------------------------
(* Declarations (AST.cpp, AST.h) *)

Visibility == [private |-> 1, internal |-> 2, public |-> 3, external |-> 4]

visibility(n) ==
    IF n.kind \in {"FunctionDefinition", "VariableDeclaration"}
    THEN IF n.visibility # "default" THEN n.visibility
         ELSE IF n.kind = "VariableDeclaration" THEN "internal" ELSE "public"
    ELSE IF n.kind = "ModifierDefinition" THEN "internal" ELSE "public"

isPublic(n) == Visibility[visibility(n)] >= Visibility["public"]
isFallback(n) == n.kind = "FunctionDefinition" /\ ~n.isConstructor /\ n.name = ""
isOrdinary(n) == n.kind # "FunctionDefinition" \/ (~n.isConstructor /\ ~isFallback(n))
isVisibleInContract(n) == visibility(n) # "external" /\ isOrdinary(n)
isVisibleInDerivedContracts(n) ==
    \/ n.kind \in {"StructDefinition", "EnumDefinition", "EventDefinition"}
    \/ isVisibleInContract(n) /\ Visibility[visibility(n)] >= Visibility["internal"]
isPartOfExternalInterface(n) == isPublic(n) /\ isOrdinary(n)
isImplemented(n) == n.body # 0

\* The members of a contract of one kind, in the order of the source
MembersOf(p, contract, kind) ==
    SelectSeq(p.nodes[contract].subNodes, LAMBDA id : p.nodes[id].kind = kind)
definedFunctions(p, contract) == MembersOf(p, contract, "FunctionDefinition")
stateVariables(p, contract) == MembersOf(p, contract, "VariableDeclaration")

FirstIn(ids) == IF ids = << >> THEN 0 ELSE Head(ids)
constructor(p, contract) ==
    FirstIn(SelectSeq(definedFunctions(p, contract), LAMBDA f : p.nodes[f].isConstructor))

\* In all bases, the most derived contract first
InBases(p, contract, kind) ==
    FlattenSeq([i \in DOMAIN p.bases[contract] |-> MembersOf(p, p.bases[contract][i], kind)])

fallbackFunction(p, contract) ==
    FirstIn(SelectSeq(InBases(p, contract, "FunctionDefinition"), LAMBDA f : isFallback(p.nodes[f])))

isPayable(p, contract) ==
    LET f == fallbackFunction(p, contract) IN f # 0 /\ p.nodes[f].stateMutability = "payable"

TypesOf(p, ids) == << >> \o [i \in DOMAIN ids |-> p.type[ids[i]]]

FunctionTypeOf(p, id, isInternal) ==
    LET f == p.nodes[id]
    IN FunctionType(TypesOf(p, f.parameters), TypesOf(p, f.returnParameters),
                    IF isInternal THEN "Internal" ELSE "External",
                    IF isInternal /\ f.stateMutability = "payable" THEN "nonpayable" ELSE f.stateMutability, id)

EventTypeOf(p, id) == FunctionType(TypesOf(p, p.nodes[id].parameters), << >>, "Event", "nonpayable", id)

\* The type of an accessor: a parameter per mapping and array on the way to a value,
\* and of a struct all members but mappings and arrays.
RECURSIVE AccessorParameters(_), AccessorValue(_)
AccessorParameters(t) ==
    CASE t.category = "Mapping" -> <<t.keyType>> \o AccessorParameters(t.valueType)
      [] t.category = "Array" /\ ~isByteArray(t) -> <<uint256>> \o AccessorParameters(t.baseType)
      [] OTHER -> << >>
AccessorValue(t) ==
    CASE t.category = "Mapping" -> AccessorValue(t.valueType)
      [] t.category = "Array" /\ ~isByteArray(t) -> AccessorValue(t.baseType)
      [] OTHER -> t

AccessibleMembers(p, struct) ==
    SelectSeq(p.nodes[struct].members,
              LAMBDA m : /\ p.type[m].category # "Mapping"
                         /\ p.type[m].category = "Array" => isByteArray(p.type[m]))

AccessorTypeOf(p, id) ==
    LET value == AccessorValue(p.type[id])
        InMemory(t) == withLocationIfReference("memory", t)
    IN FunctionType(AccessorParameters(p.type[id]),
                    IF value.category = "Struct"
                    THEN [i \in DOMAIN AccessibleMembers(p, value.struct) |->
                             InMemory(p.type[AccessibleMembers(p, value.struct)[i]])]
                    ELSE <<InMemory(value)>>,
                    "External", "view", id)

\* type() of a declaration
TypeOfDeclaration(p, id) ==
    LET n == p.nodes[id]
    IN CASE n.kind = "ContractDefinition" -> TypeType(ContractType(id, FALSE))
         [] n.kind = "StructDefinition" -> TypeType(StructType(id, "storage", TRUE))
         [] n.kind = "EnumDefinition" -> TypeType(EnumType(id))
         [] n.kind = "EnumValue" -> EnumType(p.scope[id])
         [] n.kind = "FunctionDefinition" -> FunctionTypeOf(p, id, TRUE)
         [] n.kind = "EventDefinition" -> EventTypeOf(p, id)
         [] n.kind = "ModifierDefinition" -> ModifierType(TypesOf(p, n.parameters))
         [] OTHER -> p.type[id]

inheritableMembers(p, contract) ==
    LET Of(kind) == SelectSeq(MembersOf(p, contract, kind), LAMBDA id : isVisibleInDerivedContracts(p.nodes[id]))
    IN Of("FunctionDefinition") \o Of("VariableDeclaration") \o Of("StructDefinition") \o Of("EnumDefinition")
       \o Of("EventDefinition")

-----------------------------------------------------------------------------
(* Conversions *)

IntegerConverts(t, o) ==
    /\ o.category = "Integer" /\ o.numBytes >= t.numBytes
    /\ IF t.isSigned THEN o.isSigned ELSE ~o.isSigned \/ o.numBytes > t.numBytes

RationalConverts(t, o) ==
    CASE o.category = "Integer" -> ~isFractional(t) /\ fitsIntegerType(t.value.num, o)
      [] o.category = "FixedBytes" -> t.value.num = 0
      [] OTHER -> FALSE

\* A contract converts to its bases.
ContractConverts(p, t, o) ==
    \/ t = o
    \/ /\ o.category = "Contract"
       /\ LET bases == p.bases[t.contract]
          IN o.contract \in ToSet(IF t.super THEN Tail(bases) ELSE bases)

FunctionConverts(t, o) ==
    /\ o.category = "Function"
    /\ Same([t EXCEPT !.stateMutability = ""], [o EXCEPT !.stateMutability = ""])
    /\ ~(t.stateMutability # "payable" /\ o.stateMutability = "payable")
    /\ \/ t.stateMutability = "payable" /\ o.stateMutability = "nonpayable"
       \/ Mutability[t.stateMutability] <= Mutability[o.stateMutability]

\* Data goes to storage only by a copy, and to the data of a call never.
LocationConverts(t, o) ==
    /\ ~(o.location = "storage" /\ t.location # "storage" /\ o.isPointer)
    /\ ~(o.location = "calldata" /\ t.location # o.location)

StructConverts(t, o) == o.category = "Struct" /\ LocationConverts(t, o) /\ t.struct = o.struct

RECURSIVE isImplicitlyConvertibleTo(_, _, _)
\* A copy to storage converts each element; a reference needs the same elements.
ArrayConverts(p, t, o) ==
    /\ o.category = "Array" /\ t.arrayKind = o.arrayKind /\ LocationConverts(t, o)
    /\ IF o.location = "storage" /\ ~o.isPointer
       THEN /\ isImplicitlyConvertibleTo(p, t.baseType, o.baseType)
            /\ isDynamicallySized(o) \/ (~isDynamicallySized(t) /\ o.length >= t.length)
       ELSE /\ Same(withLocationIfReference(t.location, t.baseType), withLocationIfReference(t.location, o.baseType))
            /\ t.length = o.length

\* A component that is left out takes anything.
TupleConverts(p, t, o) ==
    /\ o.category = "Tuple" /\ Len(t.components) = Len(o.components)
    /\ \A i \in DOMAIN o.components :
           \/ o.components[i] = NoType
           \/ t.components[i] # NoType /\ isImplicitlyConvertibleTo(p, t.components[i], o.components[i])

isImplicitlyConvertibleTo(p, t, o) ==
    CASE t.category = "Address" ->
            o.category = "Address" /\ Mutability[o.stateMutability] <= Mutability[t.stateMutability]
      [] t.category = "Integer" -> IntegerConverts(t, o)
      [] t.category = "RationalNumber" -> RationalConverts(t, o)
      [] t.category = "FixedBytes" -> o.category = "FixedBytes" /\ o.numBytes >= t.numBytes
      [] t.category = "Contract" -> ContractConverts(p, t, o)
      [] t.category = "Array" -> ArrayConverts(p, t, o)
      [] t.category = "Struct" -> StructConverts(t, o)
      [] t.category = "Tuple" -> TupleConverts(p, t, o)
      [] t.category = "Function" -> FunctionConverts(t, o)
      [] t.category \in {"None", "FixedPoint"} -> FALSE
      [] OTHER -> t = o

RECURSIVE mobileType(_)
mobileType(t) ==
    CASE t.category = "RationalNumber" -> IF isFractional(t) THEN FixedPointType ELSE integerType(t)
      [] isReference(t) -> withLocation(t, t.location, TRUE)
      [] t.category = "Tuple" ->
            LET mobile == [i \in DOMAIN t.components |-> mobileType(t.components[i])]
            IN IF \E i \in DOMAIN mobile : mobile[i] = NoType /\ t.components[i] # NoType THEN NoType
               ELSE TupleType(mobile)
      [] OTHER -> t

RECURSIVE isExplicitlyConvertibleTo(_, _, _)
isExplicitlyConvertibleTo(p, t, o) ==
    \/ isImplicitlyConvertibleTo(p, t, o)
    \/ CASE t.category = "Address" ->
                \/ o.category = "Contract" /\ (t.stateMutability = "payable" \/ ~isPayable(p, o.contract))
                \/ o.category = "Integer"
                \/ o.category = "FixedBytes" /\ o.numBytes = AddressBytes
         [] t.category = "Integer" ->
                \/ o.category \in {"Integer", "Address", "Contract", "Enum", "FixedPoint"}
                \/ o.category = "FixedBytes" /\ o.numBytes = t.numBytes
         [] t.category = "RationalNumber" ->
                /\ o.category # "FixedBytes"
                /\ mobileType(t) # NoType /\ isExplicitlyConvertibleTo(p, mobileType(t), o)
         [] t.category = "FixedBytes" ->
                \/ o.category = "Integer" /\ o.numBytes = t.numBytes
                \/ o.category = "Address" /\ t.numBytes = AddressBytes
                \/ o.category \in {"FixedBytes", "FixedPoint"}
         [] t.category = "Contract" ->
                o.category = "Address" /\ (isPayable(p, t.contract) \/ o.stateMutability # "payable")
         [] t.category = "Array" ->
                o.category = "Array" /\ o.location = t.location /\ isByteArray(t) /\ isByteArray(o)
         [] t.category = "Enum" -> o.category = "Integer"
         [] t.category = "Function" -> o.category = "Function" \/ (t.kind = "External" /\ o = AddressType("nonpayable"))
         [] OTHER -> FALSE

commonType(p, a, b) ==
    IF a = NoType \/ b = NoType THEN NoType
    ELSE With(SelectSeq(<<[to |-> mobileType(a), from |-> b], [to |-> mobileType(b), from |-> a]>>,
                        LAMBDA c : c.to # NoType /\ isImplicitlyConvertibleTo(p, c.from, c.to)),
              LAMBDA found : IF found = << >> THEN NoType ELSE found[1].to)

-----------------------------------------------------------------------------
(* Operators: the type of the result, NoType if there is none *)

ReferenceUnary(t) == IF t.location = "memory" \/ (t.location = "storage" /\ ~t.isPointer) THEN EmptyTuple ELSE NoType

RationalUnary(op, t) ==
    CASE op = "~" /\ ~isFractional(t) -> RationalNumberType(Rational(-t.value.num - 1, 1))
      [] op = "+" -> t
      [] op = "-" -> RationalNumberType(Rational(-t.value.num, t.value.den))
      [] OTHER -> NoType

unaryOperatorResult(op, t) ==
    CASE t.category = "RationalNumber" -> RationalUnary(op, t)
      [] op = "delete" /\ (t.category \in {"Address", "Integer", "FixedBytes", "Bool", "Enum", "Function"}
                           \/ (t.category = "Contract" /\ ~t.super)) -> EmptyTuple
      [] op = "delete" /\ isReference(t) -> ReferenceUnary(t)
      [] op \in {"-", "++", "--", "~"} /\ t.category = "Integer" -> t
      [] op = "~" /\ t.category = "FixedBytes" -> t
      [] op = "!" /\ t.category = "Bool" -> t
      [] OTHER -> NoType

isValidShiftAndAmountType(o) ==
    \/ o.category = "Integer"
    \/ o.category = "RationalNumber" /\ ~isFractional(o) /\ integerType(o) # NoType /\ ~integerType(o).isSigned

IntegerBinary(t, op, o, common) ==
    IF o.category \notin {"RationalNumber", "FixedPoint", "Integer"} THEN NoType
    ELSE IF isShiftOp(op) THEN IF isValidShiftAndAmountType(o) THEN t ELSE NoType
    ELSE IF isBooleanOp(op) \/ common = NoType THEN NoType
    ELSE IF op = "**" /\ common.isSigned THEN NoType
    ELSE common

FixedBytesBinary(t, op, o, common) ==
    IF isShiftOp(op) THEN IF isValidShiftAndAmountType(o) THEN t ELSE NoType
    ELSE IF common.category = "FixedBytes" /\ (isCompareOp(op) \/ isBitOp(op)) THEN common
    ELSE NoType

\* A constant and an integer are combined in their common type; two constants are
\* computed, and compared in their mobile types.
RationalBinary(p, t, op, o, common) ==
    CASE o.category = "Integer" -> IF common = NoType THEN NoType ELSE IntegerBinary(common, op, o, common)
      [] o.category = "RationalNumber" /\ isCompareOp(op) ->
            IF mobileType(t).category = "Integer" /\ mobileType(o).category = "Integer"
            THEN commonType(p, mobileType(t), mobileType(o)) ELSE NoType
      [] o.category = "RationalNumber" /\ ~isCompareOp(op) -> RationalResult(op, t.value, o.value)
      [] OTHER -> NoType

FunctionBinary(t, op, o, common) ==
    IF o.category = "Function" /\ op \in {"==", "!="} /\ t.kind = "Internal" /\ o.kind = "Internal" THEN common ELSE NoType

binaryOperatorResult(p, t, op, o) ==
    With(commonType(p, t, o), LAMBDA common :
        CASE t.category = "Integer" -> IntegerBinary(t, op, o, common)
          [] t.category = "RationalNumber" -> RationalBinary(p, t, op, o, common)
          [] t.category = "FixedBytes" -> FixedBytesBinary(t, op, o, common)
          [] t.category = "Bool" -> IF o.category = "Bool" /\ op \in {"==", "!=", "&&", "||"} THEN o ELSE NoType
          [] t.category = "Function" -> FunctionBinary(t, op, o, common)
          [] t.category \in {"Address", "Contract", "Enum"} -> IF isCompareOp(op) THEN common ELSE NoType
          [] OTHER -> NoType)

-----------------------------------------------------------------------------
(* Sizes *)

EnumBytes(p, t) ==
    LET elements == Len(p.nodes[t.enum].members)
    IN IF elements <= 1 THEN 1 ELSE bytesRequired(elements - 1)

storageBytes(p, t) ==
    CASE t.category \in {"Address", "Contract"} -> AddressBytes
      [] t.category \in {"Integer", "FixedBytes"} -> t.numBytes
      [] t.category = "Bool" -> 1
      [] t.category = "Enum" -> EnumBytes(p, t)
      [] OTHER -> WordBytes

EnumSize(p, t) == Len(p.nodes[t.enum].members)

\* The values of a type, as numbers
ValuesOf(p, t) ==
    CASE t.category = "Integer" -> minValue(t)..maxValue(t)
      [] t.category = "FixedBytes" -> 0..(2 ^ (t.numBytes * ByteBits) - 1)
      [] t.category = "Bool" -> {0, 1}
      [] t.category = "Enum" -> 0..(EnumSize(p, t) - 1)
      [] t.category \in {"Address", "Contract"} -> 0..(2 ^ AddressBits - 1)

canBeStored(t) == t.category \notin {"Tuple", "TypeType", "Modifier", "Magic"}
isValueType(t) ==
    \/ t.category \in {"Address", "Integer", "FixedBytes", "Bool", "Enum", "Function"}
    \/ t.category = "Contract" /\ ~t.super
leftAligned(t) == t.category = "FixedBytes"
dataStoredIn(t, location) ==
    \/ isReference(t) /\ t.location = location
    \/ t.category = "Mapping" /\ location = "storage"

RECURSIVE canLiveOutsideStorage(_)
canLiveOutsideStorage(t) ==
    CASE t.category = "Array" -> canLiveOutsideStorage(t.baseType)
      [] t.category = "Contract" -> ~t.super
      [] t.category = "Function" -> t.kind \in {"Internal", "External"}
      [] OTHER -> t.category \notin {"Mapping", "Tuple", "TypeType", "Modifier"}

RECURSIVE storageSize(_, _)
computeOffsets(p, types) ==
    storageOffsets([i \in DOMAIN types |-> [bytes |-> storageBytes(p, types[i]), size |-> storageSize(p, types[i])]],
                   WordBytes)

ArrayStorageSize(p, t) ==
    LET bytes == storageBytes(p, t.baseType)
        perSlot == WordBytes \div bytes
    IN With(IF bytes < WordBytes THEN (t.length + perSlot - 1) \div perSlot
            ELSE t.length * storageSize(p, t.baseType), LAMBDA size :
        IF isDynamicallySized(t) \/ size = 0 THEN 1 ELSE size)

StructStorageSize(p, struct) ==
    With(computeOffsets(p, TypesOf(p, p.nodes[struct].members)).size, LAMBDA size :
        IF size = 0 THEN 1 ELSE size)

storageSize(p, t) ==
    CASE t.category = "Array" -> ArrayStorageSize(p, t)
      [] t.category = "Struct" -> StructStorageSize(p, t.struct)
      [] OTHER -> 1

\* The state variables of a contract and its bases, the most basic first, each with
\* its slot and the byte in it
contractStateVariables(p, contract) ==
    LET all == FlattenSeq([i \in DOMAIN p.bases[contract] |-> stateVariables(p, Reverse(p.bases[contract])[i])])
        variables == SelectSeq(all, LAMBDA v : ~p.nodes[v].isConstant)
    IN With(computeOffsets(p, TypesOf(p, variables)), LAMBDA layout :
        [i \in DOMAIN variables |-> <<variables[i], layout.offsets[i][1], layout.offsets[i][2]>>])

Round(bytes) == ((bytes + WordBytes - 1) \div WordBytes) * WordBytes

RECURSIVE calldataEncodedSize(_, _, _)
ArrayEncodedSize(p, t, padded) ==
    LET size == t.length * (IF isByteArray(t) THEN 1 ELSE calldataEncodedSize(p, t.baseType, TRUE))
    IN IF isDynamicallySized(t) THEN WordBytes ELSE IF padded THEN Round(size) ELSE size

\* 0 if a member cannot be encoded; outside storage there are no such members.
StructEncodedSize(p, t) ==
    LET all == p.nodes[t.struct].members
        members == IF t.location = "storage" THEN all ELSE SelectSeq(all, LAMBDA m : canLiveOutsideStorage(p.type[m]))
        sizes == [i \in DOMAIN members |-> calldataEncodedSize(p, p.type[members[i]], TRUE)]
    IN IF \E i \in DOMAIN sizes : sizes[i] = 0 THEN 0 ELSE FoldLeft(LAMBDA a, b : a + b, 0, sizes)

calldataEncodedSize(p, t, padded) ==
    CASE t.category = "Array" -> ArrayEncodedSize(p, t, padded)
      [] t.category = "Struct" -> StructEncodedSize(p, t)
      [] isValueType(t) /\ t.category # "Function" -> IF padded THEN WordBytes ELSE storageBytes(p, t)
      [] OTHER -> 0

memoryHeadSize(p, t) == IF isReference(t) THEN WordBytes ELSE calldataEncodedSize(p, t, TRUE)
ArrayMemorySize(p, t) == t.length * memoryHeadSize(p, t.baseType)
memoryStride(p, t) == IF isByteArray(t) THEN 1 ELSE memoryHeadSize(p, t.baseType)
calldataStride(p, t) == IF isByteArray(t) THEN 1 ELSE calldataEncodedSize(p, t.baseType, TRUE)
hasSimpleZeroValueInMemory(t) == ~isReference(t) /\ t.category \notin {"Function", "Tuple"}

memoryMembers(p, struct) == SelectSeq(p.nodes[struct].members, LAMBDA m : canLiveOutsideStorage(p.type[m]))

\* The sum, by counting
Total(sizes) == Cardinality(UNION {{i} \X (1..sizes[i]) : i \in DOMAIN sizes})
                - Cardinality(UNION {{i} \X (1..(-sizes[i])) : i \in DOMAIN sizes})
StructMemorySize(p, struct) ==
    Total([i \in DOMAIN memoryMembers(p, struct) |-> memoryHeadSize(p, p.type[memoryMembers(p, struct)[i]])])

IndexOfMember(p, members, name) == CHOOSE i \in DOMAIN members : p.nodes[members[i]].name = name

memoryOffsetOfMember(p, struct, name) ==
    LET members == memoryMembers(p, struct)
    IN Total([i \in 1..(IndexOfMember(p, members, name) - 1) |-> memoryHeadSize(p, p.type[members[i]])])

storageOffsetsOfMember(p, struct, name) ==
    LET members == p.nodes[struct].members
    IN computeOffsets(p, TypesOf(p, members)).offsets[IndexOfMember(p, members, name)]

RECURSIVE sizeOnStack(_)
sizeOnStack(t) ==
    CASE t.category = "Array" -> IF t.location = "calldata" /\ isDynamicallySized(t) THEN 2 ELSE 1
      [] t.category = "Contract" -> IF t.super THEN 0 ELSE 1
      [] t.category = "Tuple" -> Total([i \in DOMAIN t.components |-> sizeOnStack(t.components[i])])
      [] t.category = "Function" -> IF t.kind = "External" THEN 2
                                    ELSE IF t.kind \in {"Internal", "ArrayPush", "ArrayPop"} THEN 1 ELSE 0
      [] t.category \in {"None", "TypeType", "Modifier", "Magic"} -> 0
      [] OTHER -> 1

closestTemporaryType(t, target) ==
    LET Closest(c, o) == IF dataStoredIn(o, "storage") THEN mobileType(c) ELSE o
    IN IF t.category = "Tuple"
       THEN TupleType([i \in DOMAIN target.components |->
                IF t.components[i] = NoType \/ target.components[i] = NoType THEN NoType
                ELSE Closest(t.components[i], target.components[i])])
       ELSE Closest(t, target)

-----------------------------------------------------------------------------
(* Types in the interface of a contract *)

encodingType(p, t) ==
    CASE t.category \in {"Address", "Integer", "FixedBytes", "Bool"} -> t
      [] t.category = "Contract" -> AddressType(IF isPayable(p, t.contract) THEN "payable" ELSE "nonpayable")
      [] t.category = "Enum" -> IntegerType(EnumBytes(p, t), FALSE)
      [] t.category = "Array" -> IF t.location = "storage" THEN uint256 ELSE withLocation(t, "memory", TRUE)
      [] t.category = "Struct" -> IF t.location = "storage" THEN uint256 ELSE t
      [] t.category = "Mapping" -> uint256
      [] OTHER -> NoType

RECURSIVE ElementType(_), StructsBelow(_, _)
ElementType(t) == IF t.category = "Array" THEN ElementType(t.baseType) ELSE t

\* The structs that structs have as members, in arrays too
StructsIn(p, structs) ==
    LET types == {ElementType(p.type[m]) : m \in UNION {ToSet(p.nodes[s].members) : s \in structs}}
    IN {t.struct : t \in {u \in types : u.category = "Struct"}}
StructsBelow(p, structs) ==
    IF StructsIn(p, structs) \subseteq structs THEN structs
    ELSE StructsBelow(p, structs \cup StructsIn(p, structs))

\* Whether a struct contains itself
recursive(p, struct) == struct \in StructsBelow(p, StructsIn(p, {struct}))

RECURSIVE interfaceType(_, _)
interfaceType(p, t) ==
    CASE t.category \in {"Address", "Integer", "FixedBytes", "Bool", "Contract", "Enum"} ->
            IF t.category = "Contract" /\ t.super THEN NoType ELSE encodingType(p, t)
      [] t.category = "Array" ->
            IF interfaceType(p, t.baseType) = NoType THEN NoType
            ELSE IF isByteArray(t) THEN withLocation(t, "memory", TRUE)
            ELSE NewArrayType("memory", interfaceType(p, t.baseType), t.length)
      [] t.category = "Struct" ->
            IF recursive(p, t.struct)
               \/ \E m \in ToSet(p.nodes[t.struct].members) : interfaceType(p, ElementType(p.type[m])) = NoType
            THEN NoType ELSE withLocation(t, "memory", TRUE)
      [] OTHER -> NoType

\* Structs are not encoded, unless with the second version of the encoder.
fullEncodingType(p, t) ==
    LET mobile == mobileType(t)
    IN With(IF mobile = NoType THEN NoType ELSE interfaceType(p, mobile), LAMBDA external :
        With(IF external = NoType THEN NoType ELSE encodingType(p, external), LAMBDA encoding :
         IF ElementType(encoding).category = "Struct" THEN NoType ELSE encoding))

RECURSIVE isDynamicallyEncoded(_, _)
isDynamicallyEncoded(p, t) ==
    CASE t.category = "Array" -> isDynamicallySized(t) \/ isDynamicallyEncoded(p, t.baseType)
      [] t.category = "Struct" -> \E m \in ToSet(memoryMembers(p, t.struct)) : isDynamicallyEncoded(p, p.type[m])
      [] OTHER -> FALSE

transformParametersToExternal(p, types) == [i \in DOMAIN types |-> interfaceType(p, types[i])]

\* The type in the interface; NoType if a parameter cannot be part of it
interfaceFunctionType(p, t) ==
    With(transformParametersToExternal(p, t.parameterTypes), LAMBDA parameters :
    With(transformParametersToExternal(p, t.returnParameterTypes), LAMBDA returned :
        IF NoType \in ToSet(parameters) \cup ToSet(returned)
           \/ (p.nodes[t.declaration].kind = "VariableDeclaration" /\ returned = << >>)
        THEN NoType
        ELSE [t EXCEPT !.parameterTypes = parameters, !.returnParameterTypes = returned]))

\* A signature as what it is written from
externalSignature(p, t) ==
    <<p.nodes[t.declaration].name, transformParametersToExternal(p, t.parameterTypes)>>

\* The functions that can be called from outside, the most derived of each signature
interfaceFunctionList(p, contract) ==
    LET Candidates(c) ==
            [i \in DOMAIN definedFunctions(p, c) |-> FunctionTypeOf(p, definedFunctions(p, c)[i], FALSE)]
            \o [i \in DOMAIN stateVariables(p, c) |-> AccessorTypeOf(p, stateVariables(p, c)[i])]
        all == FlattenSeq([i \in DOMAIN p.bases[contract] |-> Candidates(p.bases[contract][i])])
        external == SelectSeq(all, LAMBDA t : /\ isPartOfExternalInterface(p.nodes[t.declaration])
                                              /\ interfaceFunctionType(p, t) # NoType)
    IN FoldLeft(LAMBDA list, t : IF \E i \in DOMAIN list : externalSignature(p, list[i]) = externalSignature(p, t)
                                 THEN list ELSE Append(list, t),
                << >>, external)

hasEqualParameterTypes(t, o) ==
    /\ Len(t.parameterTypes) = Len(o.parameterTypes)
    /\ \A i \in DOMAIN t.parameterTypes : Same(t.parameterTypes[i], o.parameterTypes[i])

canTakeArguments(p, t, arguments) ==
    /\ Len(arguments) = Len(t.parameterTypes)
    /\ \A i \in DOMAIN arguments : isImplicitlyConvertibleTo(p, arguments[i], t.parameterTypes[i])

-----------------------------------------------------------------------------
(* Members: their names, types and declarations *)

Member(name, type, declaration) == [name |-> name, type |-> type, declaration |-> declaration]
MembersNamed(p, ids, TypeOf(_)) == [i \in DOMAIN ids |-> Member(p.nodes[ids[i]].name, TypeOf(ids[i]), ids[i])]
Simple(name, type) == <<Member(name, type, 0)>>

ArrayMembers(t) ==
    IF isString(t) THEN << >>
    ELSE Simple("length", uint256)
         \o IF isDynamicallySized(t) /\ t.location = "storage" /\ ~isByteArray(t)
            THEN Simple("push", FunctionType(<<t.baseType>>, <<uint256>>, "ArrayPush", "nonpayable", 0))
                 \o Simple("pop", FunctionType(<< >>, << >>, "ArrayPop", "nonpayable", 0))
            ELSE << >>

\* super: the most derived of the functions of the bases with the same parameters.
SuperMembers(p, contract) ==
    LET functions == FlattenSeq([i \in 1..(Len(p.bases[contract]) - 1) |->
                         definedFunctions(p, p.bases[contract][i + 1])])
        usable == SelectSeq(functions, LAMBDA f : isVisibleInDerivedContracts(p.nodes[f]) /\ isImplemented(p.nodes[f]))
        all == MembersNamed(p, usable, LAMBDA f : FunctionTypeOf(p, f, TRUE))
    IN FoldLeft(LAMBDA list, m : IF \E i \in DOMAIN list : /\ list[i].name = m.name
                                                           /\ hasEqualParameterTypes(list[i].type, m.type)
                                 THEN list ELSE Append(list, m),
                << >>, all)

ContractMembers(p, t) ==
    IF t.super THEN SuperMembers(p, t.contract)
    ELSE With(interfaceFunctionList(p, t.contract), LAMBDA list :
             [i \in DOMAIN list |-> Member(p.nodes[list[i].declaration].name, list[i], list[i].declaration)])

\* Outside of storage a struct lacks the members that cannot live there.
StructTypeMembers(p, t) ==
    MembersNamed(p, IF t.location = "storage" THEN p.nodes[t.struct].members ELSE memoryMembers(p, t.struct),
                 LAMBDA m : withLocationIfReference(t.location, p.type[m]))

\* Of a base all that is inherited, of another contract its structs and enums
TypeTypeMembers(p, t, scope) ==
    LET actual == t.actualType
    IN CASE actual.category = "Contract" /\ scope # 0 /\ actual.contract \in ToSet(p.bases[scope]) ->
                MembersNamed(p, inheritableMembers(p, actual.contract), LAMBDA id : TypeOfDeclaration(p, id))
         [] actual.category = "Contract" /\ ~(scope # 0 /\ actual.contract \in ToSet(p.bases[scope])) ->
                MembersNamed(p, MembersOf(p, actual.contract, "StructDefinition")
                                \o MembersOf(p, actual.contract, "EnumDefinition"),
                             LAMBDA id : TypeOfDeclaration(p, id))
         [] actual.category = "Enum" -> MembersNamed(p, p.nodes[actual.enum].members, LAMBDA id : actual)
         [] OTHER -> << >>

MagicMembers(t) ==
    CASE t.kind = "Message" ->
            Simple("sender", AddressType("payable")) \o Simple("value", uint256)
            \o Simple("sig", FixedBytesType(SelectorBytes))
      [] t.kind = "Block" -> Simple("number", uint256) \o Simple("timestamp", uint256)
      [] t.kind = "Transaction" -> Simple("origin", AddressType("payable"))

nativeMembers(p, t, scope) ==
    CASE t.category = "Array" -> ArrayMembers(t)
      [] t.category = "FixedBytes" -> Simple("length", IntegerType(1, FALSE))
      [] t.category = "Contract" -> ContractMembers(p, t)
      [] t.category = "Struct" -> StructTypeMembers(p, t)
      [] t.category = "TypeType" -> TypeTypeMembers(p, t, scope)
      [] t.category = "Magic" -> MagicMembers(t)
      [] t.category = "Function" /\ t.kind = "External" -> Simple("selector", FixedBytesType(SelectorBytes))
      [] OTHER -> << >>

=============================================================================
