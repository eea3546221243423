---------------------------- MODULE LinkerObject ----------------------------
(***************************************************************************)
(* LinkerObject: bytecode with the places where addresses of libraries are *)
(* to be filled in.  CompilerStack assigns the object that was assembled   *)
(* for a contract and links it with the addresses that it knows, perhaps   *)
(* of some libraries only and perhaps again later.                         *)
(*                                                                         *)
(* linkReferences maps the number of bytes before such a place to the      *)
(* library, which is named by a file and a name in it; an address is a     *)
(* sequence of bytes.                                                      *)
(***************************************************************************)
EXTENDS Integers, Sequences, FiniteSetsExt, TLAPS

CONSTANTS
    AddressSize,     \* bytes in an address (h160): 20
    Addresses        \* the maps from libraries to addresses that link may be given

ASSUME LinkerAssumption ==
    /\ AddressSize \in Nat \ {0}
    /\ \A addresses \in Addresses : \A library \in DOMAIN addresses :
          DOMAIN addresses[library] = 1..AddressSize

VARIABLES
    object,          \* the linker object of CompilerStack's contract
    unlinked,        \* that object as it was assembled
    given            \* the addresses passed to link since

linkerVars == <<object, unlinked, given>>

EmptyObject == [bytecode |-> << >>, linkReferences |-> [p \in {} |-> ""]]

\* Mutant of appendObject: the references of the other object stay where they are.
appendObjectUnmoved(obj, other) ==
    [bytecode |-> obj.bytecode \o other.bytecode,
     linkReferences |-> [p \in DOMAIN obj.linkReferences \cup DOMAIN other.linkReferences |->
        IF p \in DOMAIN other.linkReferences THEN other.linkReferences[p]
        ELSE obj.linkReferences[p]]]

\* The references of the other object move behind the code.
appendObject(obj, other) ==
    LET base == Len(obj.bytecode)
        moved == {base + p : p \in DOMAIN other.linkReferences}
    IN [bytecode |-> obj.bytecode \o other.bytecode,
        linkReferences |-> [p \in DOMAIN obj.linkReferences \cup moved |->
            IF p \in moved THEN other.linkReferences[p - base] ELSE obj.linkReferences[p]]]

\* The address given for a library, by its full name or by its name alone.
matchLibrary(library, addresses) ==
    CASE library \in DOMAIN addresses -> <<addresses[library]>>
      [] library \notin DOMAIN addresses /\ library.file # "" ->
            LET short == [file |-> "", name |-> library.name]
            IN IF short \in DOMAIN addresses THEN <<addresses[short]>> ELSE << >>
      [] OTHER -> << >>

\* The bytes of the address that is copied to position p
Place(p) == (p + 1)..(p + AddressSize)

\* The code after the addresses have been copied to the positions in found, one
\* after the other: where two overlap the later one stays.
copyAddresses(obj, found, addresses) ==
    [n \in DOMAIN obj.bytecode |->
        LET here == {p \in found : n \in Place(p)}
            last == Max(here)
        IN IF here = {} THEN obj.bytecode[n]
           ELSE matchLibrary(obj.linkReferences[last], addresses)[1][n - last]]

\* Mutant of link: forgets the references that remain.
linkForgetting(obj, addresses) ==
    LET refs == obj.linkReferences
        found == {p \in DOMAIN refs : matchLibrary(refs[p], addresses) # << >>}
    IN [bytecode |-> copyAddresses(obj, found, addresses),
        linkReferences |-> IF found = {} THEN refs ELSE [p \in {} |-> ""]]

link(obj, addresses) ==
    LET refs == obj.linkReferences
        found == {p \in DOMAIN refs : matchLibrary(refs[p], addresses) # << >>}
    IN [bytecode |-> copyAddresses(obj, found, addresses),
        linkReferences |-> [p \in DOMAIN refs \ found |-> refs[p]]]

\* The places of the references are in the code, and no two overlap.
WellFormed(obj) ==
    /\ \A p \in DOMAIN obj.linkReferences : p \in Nat /\ Place(p) \subseteq DOMAIN obj.bytecode
    /\ \A p, q \in DOMAIN obj.linkReferences : p < q => p + AddressSize <= q

-----------------------------------------------------------------------------

LinkerInit ==
    /\ object = EmptyObject
    /\ unlinked = EmptyObject
    /\ given = << >>

AssignObject(obj) ==
    /\ object' = obj
    /\ unlinked' = obj
    /\ given' = << >>

LinkObject(addresses) ==
    /\ object' = link(object, addresses)
    /\ given' = Append(given, addresses)
    /\ UNCHANGED unlinked

LinkerNext ==
    \/ WellFormed(object') /\ AssignObject(object')
    \/ \E addresses \in Addresses : LinkObject(addresses)

\* What the object promises, whatever is assembled and linked: the objects that
\* Assembly::assemble returns are well formed, and nothing but link changes them.
LinkerSpec == LinkerInit /\ [][LinkerNext]_linkerVars

\* Call k of link is the first that knew the library.
FirstKnowing(library, k) ==
    /\ k \in DOMAIN given
    /\ matchLibrary(library, given[k]) # << >>
    /\ \A j \in 1..(k - 1) : matchLibrary(library, given[j]) = << >>

\* At every place where the assembled code, its subassemblies included, refers to a
\* library, the linked code has the address from the first call of link that knew
\* it, and still has the reference if none did; it has no other change.
LinkedWhereKnown ==
    LET refs == unlinked.linkReferences
        open == object.linkReferences
    IN /\ DOMAIN open \subseteq DOMAIN refs
       /\ \A p \in DOMAIN refs :
             \/ /\ p \in DOMAIN open /\ open[p] = refs[p]
                /\ \A k \in DOMAIN given : matchLibrary(refs[p], given[k]) = << >>
             \/ /\ p \notin DOMAIN open
                /\ \E k \in DOMAIN given :
                      /\ FirstKnowing(refs[p], k)
                      /\ \A n \in 1..AddressSize :
                            object.bytecode[p + n] = matchLibrary(refs[p], given[k])[1][n]
       /\ DOMAIN object.bytecode = DOMAIN unlinked.bytecode
       /\ \A n \in DOMAIN object.bytecode :
             \/ object.bytecode[n] = unlinked.bytecode[n]
             \/ \E p \in DOMAIN refs \ DOMAIN open : n \in Place(p)

-----------------------------------------------------------------------------
(***************************************************************************)
(* The proofs.  However many objects are assigned and however often each   *)
(* is linked, the linked code differs from the assembled one only by the   *)
(* addresses that the first call of link that knew the library was given.  *)
(*                                                                         *)
(* The invariant needs beside LinkedWhereKnown that the object was well    *)
(* formed when it was assigned: where the places of two references overlap *)
(* the address that is copied later overwrites the earlier one.            *)
(***************************************************************************)

LinkedInv ==
    /\ WellFormed(unlinked)
    /\ given \in Seq(Addresses)
    /\ LinkedWhereKnown

-----------------------------------------------------------------------------

(* LinkerObject::append moves the references of the other object behind the code:  *)
(* two well formed objects make a well formed one.                                 *)
THEOREM AppendKeepsWellFormed ==
    ASSUME NEW Byte, NEW obj, NEW other,
           obj.bytecode \in Seq(Byte), other.bytecode \in Seq(Byte),
           WellFormed(obj), WellFormed(other)
    PROVE  WellFormed(appendObject(obj, other))
<1> DEFINE base == Len(obj.bytecode)
           own == DOMAIN obj.linkReferences
           others == DOMAIN other.linkReferences
           moved == {base + p : p \in others}
           all == appendObject(obj, other)
<1>1. AddressSize \in Nat \ {0}
  BY LinkerAssumption DEF LinkerAssumption
<1>2. /\ base \in Nat
      /\ DOMAIN obj.bytecode = 1..base
      /\ Len(other.bytecode) \in Nat
      /\ DOMAIN other.bytecode = 1..Len(other.bytecode)
      /\ DOMAIN (obj.bytecode \o other.bytecode) = 1..(base + Len(other.bytecode))
  OBVIOUS
<1>3. /\ DOMAIN all.linkReferences = own \cup moved
      /\ DOMAIN all.bytecode = 1..(base + Len(other.bytecode))
  BY <1>2 DEF appendObject
<1>4. ASSUME NEW p \in own  PROVE  p \in Nat /\ p + AddressSize <= base
  <2>1. p \in Nat /\ Place(p) \subseteq 1..base
    BY <1>2 DEF WellFormed
  <2>2. p + AddressSize \in Place(p)
    BY <1>1, <2>1 DEF Place
  <2> QED  BY <1>1, <1>2, <2>1, <2>2
<1>5. ASSUME NEW p \in others
      PROVE  p \in Nat /\ p + AddressSize <= Len(other.bytecode)
  <2>1. p \in Nat /\ Place(p) \subseteq 1..Len(other.bytecode)
    BY <1>2 DEF WellFormed
  <2>2. p + AddressSize \in Place(p)
    BY <1>1, <2>1 DEF Place
  <2> QED  BY <1>1, <1>2, <2>1, <2>2
<1>6. /\ \A p, q \in own : p < q => p + AddressSize <= q
      /\ \A p, q \in others : p < q => p + AddressSize <= q
  BY DEF WellFormed
<1> HIDE DEF base, own, others, all
<1>7. ASSUME NEW p \in own \cup moved
      PROVE  p \in Nat /\ Place(p) \subseteq 1..(base + Len(other.bytecode))
  BY <1>1, <1>2, <1>4, <1>5 DEF Place
<1>8. ASSUME NEW p \in own \cup moved, NEW q \in own \cup moved, p < q
      PROVE  p + AddressSize <= q
  <2>1. CASE p \in own /\ q \in own
    BY <1>6, <1>8, <2>1
  <2>2. CASE p \in own /\ q \in moved
    BY <1>1, <1>2, <1>4, <1>5, <2>2
  <2>3. CASE p \in moved /\ q \in own
    BY <1>1, <1>2, <1>4, <1>5, <1>8, <2>3
  <2>4. CASE p \in moved /\ q \in moved
    <3>1. PICK r \in others, s \in others : p = base + r /\ q = base + s
      BY <2>4
    <3>2. r < s
      BY <1>2, <1>5, <1>8, <3>1
    <3> QED  BY <1>1, <1>2, <1>5, <1>6, <3>1, <3>2
  <2> QED  BY <2>1, <2>2, <2>3, <2>4
<1> QED
  BY <1>3, <1>7, <1>8 DEF WellFormed, all

(* Where the places of references do not overlap, a byte belongs to one at most. *)
LEMMA OnePlace ==
    ASSUME NEW refs, \A p \in refs : p \in Nat,
           \A p, q \in refs : p < q => p + AddressSize <= q,
           NEW p \in refs, NEW q \in refs, NEW n, n \in Place(p), n \in Place(q)
    PROVE  p = q
BY LinkerAssumption DEF LinkerAssumption, Place

LEMMA MaxOfOne == ASSUME NEW p \in Nat  PROVE  Max({p}) = p
BY DEF Max

(* What LinkerObject::link does to a well formed object: the addresses are copied *)
(* whole to the places of the libraries it finds, and nothing else changes.       *)
LEMMA LinkFacts ==
    ASSUME NEW obj, NEW addresses,
           NEW refs, DOMAIN obj.linkReferences \subseteq refs,
           \A p \in refs : p \in Nat /\ Place(p) \subseteq DOMAIN obj.bytecode,
           \A p, q \in refs : p < q => p + AddressSize <= q
    PROVE  LET open == obj.linkReferences
               found == {p \in DOMAIN open : matchLibrary(open[p], addresses) # << >>}
               linked == link(obj, addresses)
           IN /\ DOMAIN linked.linkReferences = DOMAIN open \ found
              /\ \A p \in DOMAIN open \ found : linked.linkReferences[p] = open[p]
              /\ DOMAIN linked.bytecode = DOMAIN obj.bytecode
              /\ \A p \in found : \A n \in 1..AddressSize :
                    linked.bytecode[p + n] = matchLibrary(open[p], addresses)[1][n]
              /\ \A n \in DOMAIN obj.bytecode :
                    (\A p \in found : n \notin Place(p)) =>
                        linked.bytecode[n] = obj.bytecode[n]
<1> DEFINE open == obj.linkReferences
           found == {p \in DOMAIN open : matchLibrary(open[p], addresses) # << >>}
           code == copyAddresses(obj, found, addresses)
           Here(n) == {p \in found : n \in Place(p)}
<1>1. /\ link(obj, addresses).bytecode = code
      /\ link(obj, addresses).linkReferences = [p \in DOMAIN open \ found |-> open[p]]
  BY DEF link
<1>2. /\ DOMAIN code = DOMAIN obj.bytecode
      /\ \A n \in DOMAIN obj.bytecode : code[n] =
            IF Here(n) = {} THEN obj.bytecode[n]
            ELSE matchLibrary(open[Max(Here(n))], addresses)[1][n - Max(Here(n))]
  BY DEF copyAddresses
<1>3. found \subseteq refs
  OBVIOUS
<1> HIDE DEF open, found, code
<1>4. ASSUME NEW p \in found, NEW n \in 1..AddressSize
      PROVE  code[p + n] = matchLibrary(open[p], addresses)[1][n]
  <2>1. p \in Nat /\ p + n \in Place(p) /\ p + n \in DOMAIN obj.bytecode
    BY <1>3, LinkerAssumption DEF LinkerAssumption, Place
  <2>2. \A q \in found : p + n \in Place(q) => q = p
    BY <1>3, <2>1, OnePlace
  <2>3. Here(p + n) = {p}
    BY <2>1, <2>2
  <2>4. Max(Here(p + n)) = p /\ Here(p + n) # {}
    BY <2>1, <2>3, MaxOfOne
  <2>5. (p + n) - p = n
    BY <2>1, LinkerAssumption DEF LinkerAssumption
  <2> HIDE DEF Here
  <2> QED  BY <1>2, <2>1, <2>4, <2>5
<1>5. ASSUME NEW n \in DOMAIN obj.bytecode, \A p \in found : n \notin Place(p)
      PROVE  code[n] = obj.bytecode[n]
  <2>1. Here(n) = {}
    BY <1>5
  <2> QED  BY <1>2, <2>1
<1>6. /\ DOMAIN [p \in DOMAIN open \ found |-> open[p]] = DOMAIN open \ found
      /\ \A p \in DOMAIN open \ found : [r \in DOMAIN open \ found |-> open[r]][p] = open[p]
  OBVIOUS
<1> QED
  BY <1>1, <1>2, <1>4, <1>5, <1>6 DEF open, found

-----------------------------------------------------------------------------

LEMMA LinkedInvInit == LinkerInit => LinkedInv
<1> SUFFICES ASSUME LinkerInit  PROVE LinkedInv
  OBVIOUS
<1>1. DOMAIN EmptyObject.linkReferences = {} /\ DOMAIN EmptyObject.bytecode = {}
  BY DEF EmptyObject
<1>2. given \in Seq(Addresses)
  BY DEF LinkerInit
<1> QED
  BY <1>1, <1>2 DEF LinkerInit, LinkedInv, LinkedWhereKnown, WellFormed

LEMMA AssignKeepsLinkedInv ==
    ASSUME WellFormed(object'), AssignObject(object')  PROVE  LinkedInv'
<1>1. unlinked' = object' /\ given' = << >>
  BY DEF AssignObject
<1>2. WellFormed(unlinked)'
  BY <1>1 DEF WellFormed, Place
<1>3. given' \in Seq(Addresses) /\ DOMAIN given' = {}
  BY <1>1
<1> QED
  BY <1>1, <1>2, <1>3 DEF LinkedInv, LinkedWhereKnown

LEMMA LinkKeepsLinkedInv ==
    ASSUME LinkedInv, NEW addresses \in Addresses, LinkObject(addresses)
    PROVE  LinkedInv'
<1> DEFINE refs == unlinked.linkReferences
           open == object.linkReferences
           found == {p \in DOMAIN open : matchLibrary(open[p], addresses) # << >>}
           new == object'.linkReferences
           code == object.bytecode
           newCode == object'.bytecode
           last == Len(given) + 1
<1>1. object' = link(object, addresses) /\ unlinked' = unlinked
      /\ given' = Append(given, addresses)
  BY DEF LinkObject
<1>2. /\ given \in Seq(Addresses)
      /\ Len(given) \in Nat
      /\ DOMAIN given = 1..Len(given)
      /\ given' \in Seq(Addresses)
      /\ DOMAIN given' = 1..last
      /\ given'[last] = addresses
      /\ \A k \in DOMAIN given : given'[k] = given[k]
  BY <1>1 DEF LinkedInv
<1>3. /\ WellFormed(unlinked)
      /\ DOMAIN open \subseteq DOMAIN refs
      /\ DOMAIN code = DOMAIN unlinked.bytecode
      /\ \A n \in DOMAIN code :
             \/ code[n] = unlinked.bytecode[n]
             \/ \E p \in DOMAIN refs \ DOMAIN open : n \in Place(p)
  BY DEF LinkedInv, LinkedWhereKnown
<1>4. ASSUME NEW p \in DOMAIN refs
      PROVE  \/ /\ p \in DOMAIN open /\ open[p] = refs[p]
                /\ \A k \in DOMAIN given : matchLibrary(refs[p], given[k]) = << >>
             \/ /\ p \notin DOMAIN open
                /\ \E k \in DOMAIN given :
                      /\ FirstKnowing(refs[p], k)
                      /\ \A n \in 1..AddressSize :
                            code[p + n] = matchLibrary(refs[p], given[k])[1][n]
  BY DEF LinkedInv, LinkedWhereKnown
<1>5. /\ \A p \in DOMAIN refs : p \in Nat /\ Place(p) \subseteq DOMAIN code
      /\ \A p, q \in DOMAIN refs : p < q => p + AddressSize <= q
  BY <1>3 DEF WellFormed
<1>6. /\ DOMAIN new = DOMAIN open \ found
      /\ \A p \in DOMAIN open \ found : new[p] = open[p]
      /\ DOMAIN newCode = DOMAIN code
      /\ \A p \in found : \A n \in 1..AddressSize :
            newCode[p + n] = matchLibrary(open[p], addresses)[1][n]
      /\ \A n \in DOMAIN code :
            (\A p \in found : n \notin Place(p)) => newCode[n] = code[n]
  <2> DEFINE linked == link(object, addresses)
  <2>1. /\ DOMAIN linked.linkReferences = DOMAIN open \ found
        /\ \A p \in DOMAIN open \ found : linked.linkReferences[p] = open[p]
        /\ DOMAIN linked.bytecode = DOMAIN code
        /\ \A p \in found : \A n \in 1..AddressSize :
              linked.bytecode[p + n] = matchLibrary(open[p], addresses)[1][n]
        /\ \A n \in DOMAIN code :
              (\A p \in found : n \notin Place(p)) => linked.bytecode[n] = code[n]
    <3> DEFINE places == DOMAIN refs
    <3>1. /\ DOMAIN open \subseteq places
          /\ \A p \in places : p \in Nat /\ Place(p) \subseteq DOMAIN code
          /\ \A p, q \in places : p < q => p + AddressSize <= q
      BY <1>3, <1>5
    <3> HIDE DEF places
    <3> QED  BY <3>1, LinkFacts, Zenon
  <2>2. new = linked.linkReferences /\ newCode = linked.bytecode
    BY <1>1
  <2> HIDE DEF linked, new, newCode, open, code, found
  <2> QED  BY <2>1, <2>2
<1>7. found \subseteq DOMAIN open /\ \A p \in DOMAIN open :
            p \in found <=> matchLibrary(open[p], addresses) # << >>
  OBVIOUS
<1>8. AddressSize \in Nat \ {0}
  BY LinkerAssumption DEF LinkerAssumption
<1>9. /\ unlinked'.linkReferences = refs
      /\ unlinked'.bytecode = unlinked.bytecode
  BY <1>1
<1> HIDE DEF refs, open, found, new, code, newCode
<1>10. ASSUME NEW p \in DOMAIN refs
       PROVE  \/ /\ p \in DOMAIN new /\ new[p] = refs[p]
                 /\ \A k \in DOMAIN given' : matchLibrary(refs[p], given'[k]) = << >>
              \/ /\ p \notin DOMAIN new
                 /\ \E k \in DOMAIN given' :
                       /\ FirstKnowing(refs[p], k)'
                       /\ \A n \in 1..AddressSize :
                             newCode[p + n] = matchLibrary(refs[p], given'[k])[1][n]
  <2>1. CASE p \in found
    <3>1. /\ open[p] = refs[p] /\ p \notin DOMAIN new
          /\ \A k \in DOMAIN given : matchLibrary(refs[p], given[k]) = << >>
      BY <1>4, <1>6, <1>7, <2>1
    <3>2. PICK k \in DOMAIN given' : k = last
      BY <1>2
    <3>3. matchLibrary(refs[p], given'[k]) # << >>
      BY <1>2, <1>7, <2>1, <3>1, <3>2
    <3>4. \A j \in 1..(k - 1) : matchLibrary(refs[p], given'[j]) = << >>
      BY <1>2, <3>1, <3>2
    <3>5. FirstKnowing(refs[p], k)'
      BY <1>9, <3>3, <3>4 DEF FirstKnowing, refs
    <3>6. \A n \in 1..AddressSize :
              newCode[p + n] = matchLibrary(refs[p], given'[k])[1][n]
      BY <1>2, <1>6, <2>1, <3>1, <3>2
    <3> QED  BY <3>1, <3>5, <3>6
  <2>2. CASE p \in DOMAIN open /\ p \notin found
    <3>1. /\ open[p] = refs[p] /\ p \in DOMAIN new /\ new[p] = refs[p]
          /\ \A k \in DOMAIN given : matchLibrary(refs[p], given[k]) = << >>
      BY <1>4, <1>6, <2>2
    <3>2. matchLibrary(refs[p], addresses) = << >>
      BY <1>7, <2>2, <3>1
    <3>3. ASSUME NEW k \in DOMAIN given'
          PROVE  matchLibrary(refs[p], given'[k]) = << >>
      <4>1. k = last \/ k \in DOMAIN given
        BY <1>2
      <4> QED  BY <1>2, <3>1, <3>2, <4>1
    <3> QED  BY <3>1, <3>3
  <2>3. CASE p \notin DOMAIN open
    <3>1. PICK k \in DOMAIN given :
              /\ FirstKnowing(refs[p], k)
              /\ \A n \in 1..AddressSize :
                    code[p + n] = matchLibrary(refs[p], given[k])[1][n]
      BY <1>4, <2>3
    <3>2. p \notin DOMAIN new /\ k \in DOMAIN given' /\ given'[k] = given[k]
      BY <1>2, <1>6, <2>3
    <3>3. FirstKnowing(refs[p], k)'
      <4>1. /\ matchLibrary(refs[p], given[k]) # << >>
            /\ \A j \in 1..(k - 1) : matchLibrary(refs[p], given[j]) = << >>
        BY <3>1 DEF FirstKnowing
      <4>2. \A j \in 1..(k - 1) : given'[j] = given[j]
        BY <1>2
      <4>3. /\ matchLibrary(refs[p], given'[k]) # << >>
            /\ \A j \in 1..(k - 1) : matchLibrary(refs[p], given'[j]) = << >>
        BY <3>2, <4>1, <4>2
      <4> QED  BY <1>9, <3>2, <4>3 DEF FirstKnowing, refs
    <3>4. ASSUME NEW n \in 1..AddressSize
          PROVE  newCode[p + n] = code[p + n]
      <4>1. p \in Nat /\ p + n \in Place(p) /\ p + n \in DOMAIN code
        BY <1>5, <1>8 DEF Place
      <4>2. \A q \in found : p + n \notin Place(q)
        BY <1>3, <1>5, <1>7, <2>3, <4>1, OnePlace
      <4> QED  BY <1>6, <4>1, <4>2
    <3> QED  BY <3>1, <3>2, <3>3, <3>4
  <2> QED  BY <1>7, <2>1, <2>2, <2>3
<1>11. ASSUME NEW n \in DOMAIN newCode
       PROVE  \/ newCode[n] = unlinked.bytecode[n]
              \/ \E p \in DOMAIN refs \ DOMAIN new : n \in Place(p)
  <2>1. CASE \E p \in found : n \in Place(p)
    BY <1>3, <1>6, <1>7, <2>1
  <2>2. CASE \A p \in found : n \notin Place(p)
    <3>1. newCode[n] = code[n] /\ n \in DOMAIN code
      BY <1>6, <2>2
    <3> QED  BY <1>3, <1>6, <3>1
  <2> QED  BY <2>1, <2>2
<1>12. DOMAIN new \subseteq DOMAIN refs /\ DOMAIN newCode = DOMAIN unlinked.bytecode
  BY <1>3, <1>6
<1>13. LinkedWhereKnown'
  BY <1>9, <1>10, <1>11, <1>12 DEF LinkedWhereKnown, refs, new, newCode, Place
<1>14. WellFormed(unlinked)'
  BY <1>1, <1>3 DEF WellFormed, Place
<1> QED
  BY <1>2, <1>13, <1>14 DEF LinkedInv

-----------------------------------------------------------------------------

(* LinkerObject::link: at every place where the assembled code refers to a library *)
(* the linked code has the address from the first call of link that knew it, and   *)
(* still has the reference if none did; it has no other change.                    *)
THEOREM LinkedWhereKnownHolds == LinkerSpec => []LinkedWhereKnown
<1>1. LinkerInit => LinkedInv
  BY LinkedInvInit
<1>2. LinkedInv /\ [LinkerNext]_linkerVars => LinkedInv'
  <2> SUFFICES ASSUME LinkedInv, [LinkerNext]_linkerVars  PROVE LinkedInv'
    OBVIOUS
  <2>1. CASE WellFormed(object') /\ AssignObject(object')
    BY <2>1, AssignKeepsLinkedInv
  <2>2. CASE \E addresses \in Addresses : LinkObject(addresses)
    BY <2>2, LinkKeepsLinkedInv
  <2>3. CASE UNCHANGED linkerVars
    BY <2>3 DEF linkerVars, LinkedInv, LinkedWhereKnown, FirstKnowing, WellFormed, Place
  <2> QED  BY <2>1, <2>2, <2>3 DEF LinkerNext
<1>3. LinkedInv => LinkedWhereKnown
  BY DEF LinkedInv
<1> QED  BY <1>1, <1>2, <1>3, PTL DEF LinkerSpec

=============================================================================
