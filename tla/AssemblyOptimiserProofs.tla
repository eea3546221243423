----------------------- MODULE AssemblyOptimiserProofs -----------------------
(***************************************************************************)
(* Proofs about AssemblyOptimiser for all assemblies: whatever rounds of   *)
(* JumpdestRemover, PeepholeOptimiser and BlockDeduplicator run, no PushTag *)
(* of an assembly's own tag loses its tag, and the replacements of the     *)
(* deduplicator lead back in the code.                                     *)
(*                                                                         *)
(* Two of the passes are recursive functions over the items.  What they    *)
(* compute is proved by induction in the form of SetInduction, a statement *)
(* about sets that the provers can instantiate.                            *)
(***************************************************************************)
EXTENDS AssemblyOptimiser, WellFoundedInduction, SequenceTheorems, TLAPS

\* A set of natural numbers has a least element.
LEMMA LeastElement ==
    ASSUME NEW T \in SUBSET Nat, T # {}
    PROVE  \E x \in T : \A y \in T : x <= y
<1>1. IsWellFoundedOn(OpToRel(<, Nat), Nat)
  BY NatLessThanWellFounded, Zenon
<1>2. OpToRel(<, Nat) = {ss \in Nat \X Nat : ss[1] < ss[2]}
  BY Zenon DEF OpToRel
<1>3. IsWellFoundedOn({ss \in Nat \X Nat : ss[1] < ss[2]}, Nat)
  BY <1>1, <1>2, Zenon
<1>4. PICK x \in T : \A y \in T : ~ (<<y, x>> \in {ss \in Nat \X Nat : ss[1] < ss[2]})
  BY <1>3, WFMin, Zenon
<1>5. \A y \in T : ~ (y < x)
  <2> TAKE y \in T
  <2>1. y \in Nat /\ x \in Nat
    OBVIOUS
  <2> QED
    BY <1>4, <2>1
<1> QED
  BY <1>5

LEMMA MinIsLeast ==
    ASSUME NEW T \in SUBSET Nat, T # {}
    PROVE  Min(T) \in T /\ \A y \in T : Min(T) <= y
<1>1. \E x \in T : \A y \in T : x <= y
  BY LeastElement
<1> QED
  BY <1>1, Zenon DEF Min

\* Induction over the natural numbers, for a set.
LEMMA SetInduction ==
    ASSUME NEW S \in SUBSET Nat, 0 \in S, \A n \in S : n + 1 \in S
    PROVE  S = Nat
<1> SUFFICES ASSUME Nat \ S # {} PROVE FALSE
  OBVIOUS
<1>1. PICK x \in Nat \ S : \A y \in Nat \ S : x <= y
  BY LeastElement
<1>2. x # 0
  OBVIOUS
<1>3. x - 1 \in Nat /\ x - 1 < x /\ (x - 1) + 1 = x
  BY <1>2
<1>4. x - 1 \in S
  BY <1>1, <1>3
<1> QED
  BY <1>3, <1>4

-----------------------------------------------------------------------------
(* JumpdestRemover: what KeepsTags keeps. *)

\* One step of the recursion in KeepsTags: what is kept up to position i, if f
\* is what is kept up to the positions before.
KeptUpTo(code, references, f, i) ==
    IF i = 0 THEN << >>
    ELSE IF code[i].type = "Tag" => code[i].data \in references
         THEN Append(f[i - 1], code[i])
         ELSE f[i - 1]

LEMMA KeptExists ==
    ASSUME NEW code, NEW references, NEW n \in Nat
    PROVE  \E f : f = [i \in 0..n |-> KeptUpTo(code, references, f, i)]
<1> DEFINE S == {m \in Nat : \E f : f = [i \in 0..m |-> KeptUpTo(code, references, f, i)]}
<1>1. 0 \in S
  <2> DEFINE f == [i \in 0..0 |-> << >>]
  <2>1. f = [i \in 0..0 |-> KeptUpTo(code, references, f, i)]
    BY DEF KeptUpTo
  <2> QED
    BY <2>1
<1>2. ASSUME NEW m \in S PROVE m + 1 \in S
  <2>1. PICK f : f = [i \in 0..m |-> KeptUpTo(code, references, f, i)]
    OBVIOUS
  <2> DEFINE last == KeptUpTo(code, references, f, m + 1)
             g == [i \in 0..(m + 1) |-> IF i \in 0..m THEN f[i] ELSE last]
  <2>2. \A i \in 0..m : g[i] = f[i] /\ f[i] = KeptUpTo(code, references, f, i)
    BY <2>1
  <2>3. \A i \in 0..m : KeptUpTo(code, references, g, i) = KeptUpTo(code, references, f, i)
    <3> TAKE i \in 0..m
    <3>1. CASE i = 0
      BY <3>1 DEF KeptUpTo
    <3>2. CASE i # 0
      <4>1. i - 1 \in 0..m
        BY <3>2
      <4>2. g[i - 1] = f[i - 1]
        BY <4>1, <2>2
      <4> QED
        BY <4>2 DEF KeptUpTo
    <3> QED
      BY <3>1, <3>2
  <2>4. g[m + 1] = last /\ KeptUpTo(code, references, g, m + 1) = last
    <3>1. g[m + 1] = last
      OBVIOUS
    <3>2. g[(m + 1) - 1] = f[(m + 1) - 1]
      BY <2>2
    <3> QED
      BY <3>1, <3>2 DEF KeptUpTo
  <2>5. \A i \in 0..(m + 1) : g[i] = KeptUpTo(code, references, g, i)
    <3> TAKE i \in 0..(m + 1)
    <3>1. i \in 0..m \/ i = m + 1
      OBVIOUS
    <3> HIDE DEF g, last
    <3> QED
      BY <2>2, <2>3, <2>4, <3>1
  <2>6. g = [i \in 0..(m + 1) |-> KeptUpTo(code, references, g, i)]
    BY <2>5
  <2> HIDE DEF g
  <2> QED
    BY <2>6
<1> QED
  <2> HIDE DEF S
  <2>1. S = Nat
    BY <1>1, <1>2, SetInduction DEF S
  <2> QED
    BY <2>1 DEF S

\* KeepsTags keeps every item but the tags that are not referenced, and neither
\* adds nor repeats a tag.
LEMMA KeepsTagsFacts ==
    ASSUME NEW code \in Seq(AssemblyItems), NEW references
    PROVE  /\ KeepsTags(code, references) \in Seq(AssemblyItems)
           /\ \A k \in DOMAIN KeepsTags(code, references) : \E i \in DOMAIN code :
                 KeepsTags(code, references)[k] = code[i]
           /\ \A i \in DOMAIN code : (code[i].type = "Tag" => code[i].data \in references) =>
                 \E k \in DOMAIN KeepsTags(code, references) :
                    KeepsTags(code, references)[k] = code[i]
           /\ \A k \in DOMAIN KeepsTags(code, references) :
                 KeepsTags(code, references)[k].type = "Tag" =>
                    KeepsTags(code, references)[k].data \in references
           /\ UniqueTags(code) => UniqueTags(KeepsTags(code, references))
<1> DEFINE n == Len(code)
           Kept(s, m) ==
             /\ s \in Seq(AssemblyItems)
             /\ \A k \in DOMAIN s : \E i \in 1..m : s[k] = code[i]
             /\ \A i \in 1..m : (code[i].type = "Tag" => code[i].data \in references) =>
                   \E k \in DOMAIN s : s[k] = code[i]
             /\ \A k \in DOMAIN s : s[k].type = "Tag" => s[k].data \in references
             /\ UniqueTags(code) => UniqueTags(s)
<1>1. n \in Nat /\ DOMAIN code = 1..n /\ \A i \in 1..n : code[i] \in AssemblyItems
  OBVIOUS
<1>2. PICK f : /\ f = [i \in 0..n |-> KeptUpTo(code, references, f, i)]
               /\ KeepsTags(code, references) = f[n]
  <2> DEFINE g == CHOOSE f : f = [i \in 0..n |-> KeptUpTo(code, references, f, i)]
  <2>1. KeepsTags(code, references) = g[n]
    BY Zenon DEF KeepsTags, KeptUpTo
  <2>2. g = [i \in 0..n |-> KeptUpTo(code, references, g, i)]
    BY <1>1, KeptExists, Zenon
  <2> HIDE DEF g
  <2> QED
    BY <2>1, <2>2
<1> DEFINE S == {m \in Nat : m <= n => Kept(f[m], m)}
<1>3. 0 \in S
  <2>1. f[0] = << >>
    BY <1>1, <1>2 DEF KeptUpTo
  <2>2. << >> \in Seq(AssemblyItems) /\ DOMAIN << >> = {} /\ 1..0 = {}
    OBVIOUS
  <2>3. Kept(f[0], 0)
    BY <2>1, <2>2 DEF UniqueTags
  <2> QED
    BY <2>3
<1>4. ASSUME NEW m \in S PROVE m + 1 \in S
  <2> SUFFICES ASSUME m + 1 <= n PROVE Kept(f[m + 1], m + 1)
    OBVIOUS
  <2>1. m \in Nat /\ m + 1 \in 1..n /\ m + 1 \in 0..n /\ (m + 1) - 1 = m /\ m + 1 # 0
    BY <1>1
  <2>2. Kept(f[m], m) /\ code[m + 1] \in AssemblyItems
    BY <1>1, <2>1
  <2>3. f[m + 1] = IF code[m + 1].type = "Tag" => code[m + 1].data \in references
                   THEN Append(f[m], code[m + 1]) ELSE f[m]
    <3>1. f[m + 1] = KeptUpTo(code, references, f, m + 1)
      BY <1>2, <2>1
    <3> QED
      BY <2>1, <3>1 DEF KeptUpTo
  <2>4. \A i \in 1..(m + 1) : i \in 1..m \/ i = m + 1
    BY <2>1
  <2>5. CASE code[m + 1].type = "Tag" => code[m + 1].data \in references
    <3> DEFINE s == f[m]
               t == Append(s, code[m + 1])
    <3>1. s \in Seq(AssemblyItems) /\ t \in Seq(AssemblyItems) /\ Len(t) = Len(s) + 1
          /\ (\A k \in 1..Len(s) : t[k] = s[k]) /\ t[Len(s) + 1] = code[m + 1]
          /\ DOMAIN s = 1..Len(s) /\ DOMAIN t = 1..(Len(s) + 1) /\ Len(s) \in Nat
      BY <2>2
    <3>2. f[m + 1] = t
      BY <2>3, <2>5
    <3> HIDE DEF s, t
    <3>3. \A k \in DOMAIN t : \E i \in 1..(m + 1) : t[k] = code[i]
      <4> TAKE k \in DOMAIN t
      <4>1. k \in DOMAIN s \/ k = Len(s) + 1
        BY <3>1
      <4>2. CASE k \in DOMAIN s
        <5>1. PICK i \in 1..m : s[k] = code[i]
          BY <2>2, <4>2 DEF s
        <5>2. i \in 1..(m + 1) /\ t[k] = s[k]
          BY <2>1, <3>1, <4>2
        <5> QED
          BY <5>1, <5>2
      <4>3. CASE k = Len(s) + 1
        BY <2>1, <3>1, <4>3
      <4> QED
        BY <4>1, <4>2, <4>3
    <3>4. ASSUME NEW i \in 1..(m + 1), code[i].type = "Tag" => code[i].data \in references
          PROVE  \E k \in DOMAIN t : t[k] = code[i]
      <4>1. CASE i \in 1..m
        <5>1. PICK k \in DOMAIN s : s[k] = code[i]
          BY <2>2, <3>4, <4>1 DEF s
        <5> QED
          BY <3>1, <5>1
      <4>2. CASE i = m + 1
        BY <3>1, <4>2
      <4> QED
        BY <2>4, <4>1, <4>2
    <3>5. \A k \in DOMAIN t : t[k].type = "Tag" => t[k].data \in references
      <4> TAKE k \in DOMAIN t
      <4>1. k \in DOMAIN s \/ k = Len(s) + 1
        BY <3>1
      <4>2. CASE k \in DOMAIN s
        BY <2>2, <3>1, <4>2 DEF s
      <4>3. CASE k = Len(s) + 1
        BY <2>5, <3>1, <4>3
      <4> QED
        BY <4>1, <4>2, <4>3
    <3>6. ASSUME UniqueTags(code) PROVE UniqueTags(t)
      <4>1. ASSUME NEW k \in DOMAIN s, s[k].type = "Tag", code[m + 1].type = "Tag",
                   s[k].data = code[m + 1].data
            PROVE  FALSE
        <5>1. PICK i \in 1..m : s[k] = code[i]
          BY <2>2, <4>1 DEF s
        <5>2. i \in DOMAIN code /\ m + 1 \in DOMAIN code /\ i # m + 1
          BY <1>1, <2>1
        <5> QED
          BY <3>6, <4>1, <5>1, <5>2 DEF UniqueTags
      <4>2. UniqueTags(s)
        BY <2>2, <3>6 DEF s
      <4> SUFFICES ASSUME NEW k \in DOMAIN t, NEW l \in DOMAIN t, t[k].type = "Tag",
                          t[l].type = "Tag", t[k].data = t[l].data
                   PROVE  k = l
        BY DEF UniqueTags
      <4>3. (k \in DOMAIN s /\ t[k] = s[k]) \/ (k = Len(s) + 1 /\ t[k] = code[m + 1])
        BY <3>1
      <4>4. (l \in DOMAIN s /\ t[l] = s[l]) \/ (l = Len(s) + 1 /\ t[l] = code[m + 1])
        BY <3>1
      <4> QED
        BY <4>1, <4>2, <4>3, <4>4 DEF UniqueTags
    <3> QED
      BY <3>1, <3>2, <3>3, <3>4, <3>5, <3>6
  <2>6. CASE ~ (code[m + 1].type = "Tag" => code[m + 1].data \in references)
    <3>1. f[m + 1] = f[m]
      BY <2>3, <2>6
    <3>2. \A k \in DOMAIN f[m] : \E i \in 1..(m + 1) : f[m][k] = code[i]
      <4> TAKE k \in DOMAIN f[m]
      <4>1. PICK i \in 1..m : f[m][k] = code[i]
        BY <2>2
      <4>2. i \in 1..(m + 1)
        BY <2>1
      <4> QED
        BY <4>1, <4>2
    <3> QED
      BY <2>2, <2>4, <2>6, <3>1, <3>2
  <2> QED
    BY <2>5, <2>6
<1>5. S = Nat
  <2> HIDE DEF S
  <2> QED
    BY <1>3, <1>4, SetInduction DEF S
<1>6. Kept(f[n], n)
  BY <1>1, <1>5
<1> QED
  BY <1>1, <1>2, <1>6

-----------------------------------------------------------------------------
(* PeepholeOptimiser: what a method does to tags. *)

\* Rewrite r of the items w consumes at least one of them, keeps the tags it
\* consumes, adds no tag and no reference to one, and puts at most one tag in
\* their place.
KeepsTagsOf(w, r) ==
    /\ r.width \in 1..Len(w)
    /\ r.out \in Seq(AssemblyItems)
    /\ \A k \in 1..r.width : w[k].type = "Tag" => \E m \in DOMAIN r.out : r.out[m] = w[k]
    /\ \A m \in DOMAIN r.out : r.out[m].type \in {"Tag", "PushTag"} =>
          \E k \in 1..r.width : r.out[m] = w[k]
    /\ \A m, l \in DOMAIN r.out : r.out[m].type = "Tag" /\ r.out[l].type = "Tag" => m = l

\* The number of operands is known of every instruction.
LEMMA InstructionArgs ==
    ASSUME NEW i \in DOMAIN InstructionInfo
    PROVE  InstructionInfo[i].args \in Nat
BY DEF InstructionInfo, Info

LEMMA OperationItems ==
    /\ Operation("POP") \in AssemblyItems /\ Operation("POP").type = "Operation"
    /\ Operation("DUP1") \in AssemblyItems /\ Operation("DUP1").type = "Operation"
    /\ Operation("LT") \in AssemblyItems /\ Operation("LT").type = "Operation"
    /\ Operation("GT") \in AssemblyItems /\ Operation("GT").type = "Operation"
BY DEF Operation, Item, AssemblyItems, InstructionInfo, Info

LEMMA PushPopKeepsTags ==
    ASSUME NEW w \in Seq(AssemblyItems), w # << >>, NEW r \in PushPop(w)
    PROVE  KeepsTagsOf(w, r)
<1>1. /\ Len(w) >= 2 /\ w[1].type # "Tag" /\ w[2].type # "Tag"
      /\ r = [width |-> 2, out |-> << >>]
  BY DEF PushPop, Rewrite, Is
<1>2. \A k \in 1..2 : k = 1 \/ k = 2
  OBVIOUS
<1> QED
  BY <1>1, <1>2 DEF KeepsTagsOf

LEMMA OpPopKeepsTags ==
    ASSUME NEW w \in Seq(AssemblyItems), w # << >>, NEW r \in OpPop(w)
    PROVE  KeepsTagsOf(w, r)
<1> DEFINE args == InstructionInfo[w[1].instruction].args
           pops == [j \in 1..args |-> Operation("POP")]
<1>1. /\ Len(w) >= 2 /\ w[1].type = "Operation" /\ w[2].type = "Operation"
      /\ r = [width |-> 2, out |-> pops]
  BY DEF OpPop, Rewrite, Is
<1>2. \A k \in 1..2 : k = 1 \/ k = 2
  OBVIOUS
<1>3. args \in Nat
  <2>1. w[1] \in AssemblyItems
    BY <1>1
  <2>2. w[1].instruction \in DOMAIN InstructionInfo
    BY <1>1, <2>1 DEF AssemblyItems
  <2> QED
    BY <2>2, InstructionArgs
<1> HIDE DEF args
<1>4. pops \in Seq(AssemblyItems) /\ DOMAIN pops = 1..args
      /\ \A m \in DOMAIN pops : pops[m].type = "Operation"
  BY <1>3, OperationItems
<1> HIDE DEF pops
<1> QED
  BY <1>1, <1>2, <1>4 DEF KeepsTagsOf

LEMMA DoublePushKeepsTags ==
    ASSUME NEW w \in Seq(AssemblyItems), w # << >>, NEW r \in DoublePush(w)
    PROVE  KeepsTagsOf(w, r)
<1>1. /\ Len(w) >= 2 /\ w[1].type = "Push" /\ w[2].type = "Push"
      /\ r = [width |-> 2, out |-> <<w[1], Operation("DUP1")>>]
  BY DEF DoublePush, Rewrite
<1>2. \A k \in 1..2 : k = 1 \/ k = 2
  OBVIOUS
<1>3. w[1] \in AssemblyItems
  BY <1>1
<1> QED
  BY <1>1, <1>2, <1>3, OperationItems DEF KeepsTagsOf

LEMMA DoubleSwapKeepsTags ==
    ASSUME NEW w \in Seq(AssemblyItems), w # << >>, NEW r \in DoubleSwap(w)
    PROVE  KeepsTagsOf(w, r)
<1>1. /\ Len(w) >= 2 /\ w[1].type # "Tag" /\ w[2].type # "Tag"
      /\ r = [width |-> 2, out |-> << >>]
  BY DEF DoubleSwap, Rewrite, Is
<1>2. \A k \in 1..2 : k = 1 \/ k = 2
  OBVIOUS
<1> QED
  BY <1>1, <1>2 DEF KeepsTagsOf

LEMMA CommutativeSwapKeepsTags ==
    ASSUME NEW w \in Seq(AssemblyItems), w # << >>, NEW r \in CommutativeSwap(w)
    PROVE  KeepsTagsOf(w, r)
<1>1. /\ Len(w) >= 2 /\ w[1].type # "Tag" /\ w[2].type # "Tag"
      /\ r = [width |-> 2, out |-> <<w[2]>>]
  BY DEF CommutativeSwap, Rewrite, Is, isCommutativeOperation
<1>2. \A k \in 1..2 : k = 1 \/ k = 2
  OBVIOUS
<1>3. w[2] \in AssemblyItems
  BY <1>1
<1> QED
  BY <1>1, <1>2, <1>3 DEF KeepsTagsOf

LEMMA SwapComparisonKeepsTags ==
    ASSUME NEW w \in Seq(AssemblyItems), w # << >>, NEW r \in SwapComparison(w)
    PROVE  KeepsTagsOf(w, r)
<1>1. /\ Len(w) >= 2 /\ w[1].type # "Tag" /\ w[2].type # "Tag"
      /\ w[2].instruction \in {"LT", "GT"}
      /\ r = [width |-> 2, out |-> <<Operation(swappableOps[w[2].instruction])>>]
  BY DEF SwapComparison, Rewrite, Is, swappableOps
<1>2. \A k \in 1..2 : k = 1 \/ k = 2
  OBVIOUS
<1>3. swappableOps[w[2].instruction] \in {"LT", "GT"}
  BY <1>1 DEF swappableOps
<1>4. PICK item \in AssemblyItems : item.type = "Operation" /\ r = [width |-> 2, out |-> <<item>>]
  BY <1>1, <1>3, OperationItems
<1> QED
  BY <1>1, <1>2, <1>4 DEF KeepsTagsOf

LEMMA IsZeroIsZeroJumpIKeepsTags ==
    ASSUME NEW w \in Seq(AssemblyItems), w # << >>, NEW r \in IsZeroIsZeroJumpI(w)
    PROVE  KeepsTagsOf(w, r)
<1>1. /\ Len(w) >= 4 /\ \A k \in 1..4 : w[k].type # "Tag"
      /\ r = [width |-> 4, out |-> <<w[3], w[4]>>]
  BY DEF IsZeroIsZeroJumpI, Rewrite, Is
<1>2. w[3] \in AssemblyItems /\ w[4] \in AssemblyItems
  BY <1>1
<1> QED
  BY <1>1, <1>2 DEF KeepsTagsOf

LEMMA JumpToNextKeepsTags ==
    ASSUME NEW w \in Seq(AssemblyItems), w # << >>, NEW r \in JumpToNext(w)
    PROVE  KeepsTagsOf(w, r)
<1>1. /\ Len(w) >= 3 /\ w[1].type # "Tag" /\ w[2].type # "Tag" /\ w[3].type = "Tag"
      /\ \/ r = [width |-> 3, out |-> <<Operation("POP"), w[3]>>]
         \/ r = [width |-> 3, out |-> <<w[3]>>]
  BY DEF JumpToNext, Rewrite, Is
<1>2. \A k \in 1..3 : k = 1 \/ k = 2 \/ k = 3
  OBVIOUS
<1>3. w[3] \in AssemblyItems
  BY <1>1
<1>4. CASE r = [width |-> 3, out |-> <<Operation("POP"), w[3]>>]
  <2>1. /\ r.width = 3 /\ r.out \in Seq(AssemblyItems) /\ DOMAIN r.out = 1..2
        /\ r.out[1].type = "Operation" /\ r.out[2] = w[3]
    BY <1>3, <1>4, OperationItems
  <2> QED
    BY <1>1, <1>2, <2>1 DEF KeepsTagsOf
<1>5. CASE r = [width |-> 3, out |-> <<w[3]>>]
  <2>1. r.width = 3 /\ r.out \in Seq(AssemblyItems) /\ DOMAIN r.out = 1..1 /\ r.out[1] = w[3]
    BY <1>3, <1>5
  <2> QED
    BY <1>1, <1>2, <2>1 DEF KeepsTagsOf
<1> QED
  BY <1>1, <1>4, <1>5

\* Unreachable code is removed up to the next tag and no further.
LEMMA UnreachableCodeKeepsTags ==
    ASSUME NEW w \in Seq(AssemblyItems), w # << >>, NEW r \in UnreachableCode(w)
    PROVE  KeepsTagsOf(w, r)
<1> DEFINE tags == {k \in DOMAIN w : w[k].type = "Tag"}
           width == IF tags = {} THEN Len(w) ELSE Min(tags) - 1
<1>1. width > 1 /\ w[1].type = "Operation" /\ r = [width |-> width, out |-> <<w[1]>>]
  BY DEF UnreachableCode, Rewrite, EndsBlock, Is
<1>2. Len(w) \in Nat /\ DOMAIN w = 1..Len(w) /\ Len(w) >= 1 /\ w[1] \in AssemblyItems
  OBVIOUS
<1>3. width \in 1..Len(w) /\ \A k \in 1..width : w[k].type # "Tag"
  <2>1. CASE tags = {}
    BY <1>2, <2>1
  <2>2. CASE tags # {}
    <3>1. tags \in SUBSET Nat
      BY <1>2
    <3>2. Min(tags) \in tags /\ \A y \in tags : Min(tags) <= y
      BY <2>2, <3>1, MinIsLeast
    <3>3. width = Min(tags) - 1 /\ Min(tags) \in 1..Len(w)
      BY <1>2, <2>2, <3>2
    <3>4. width \in 1..Len(w)
      <4> HIDE DEF width
      <4> QED
        BY <1>1, <1>2, <3>3
    <3>5. \A k \in 1..width : k \in DOMAIN w /\ ~ (Min(tags) <= k)
      <4> HIDE DEF width, tags
      <4> QED
        BY <1>2, <3>3, <3>4
    <3> QED
      BY <3>2, <3>4, <3>5
  <2> QED
    BY <2>1, <2>2
<1> HIDE DEF width
<1>4. r.width = width /\ r.out = <<w[1]>>
  BY <1>1
<1> QED
  BY <1>1, <1>2, <1>3, <1>4 DEF KeepsTagsOf

LEMMA TagConjunctionsKeepsTags ==
    ASSUME NEW w \in Seq(AssemblyItems), w # << >>, NEW r \in TagConjunctions(w)
    PROVE  KeepsTagsOf(w, r)
<1>1. /\ Len(w) >= 3 /\ w[1].type = "PushTag" /\ w[2].type # "Tag" /\ w[3].type # "Tag"
      /\ r = [width |-> 3, out |-> <<w[1]>>]
  BY DEF TagConjunctions, Rewrite, Is
<1>2. \A k \in 1..3 : k = 1 \/ k = 2 \/ k = 3
  OBVIOUS
<1>3. w[1] \in AssemblyItems
  BY <1>1
<1> QED
  BY <1>1, <1>2, <1>3 DEF KeepsTagsOf

LEMMA TruthyAndKeepsTags ==
    ASSUME NEW w \in Seq(AssemblyItems), w # << >>, NEW r \in TruthyAnd(w)
    PROVE  KeepsTagsOf(w, r)
<1>1. /\ Len(w) >= 3 /\ w[1].type # "Tag" /\ w[2].type # "Tag" /\ w[3].type # "Tag"
      /\ r = [width |-> 3, out |-> << >>]
  BY DEF TruthyAnd, Rewrite, Is
<1>2. \A k \in 1..3 : k = 1 \/ k = 2 \/ k = 3
  OBVIOUS
<1> QED
  BY <1>1, <1>2 DEF KeepsTagsOf

LEMMA IdentityKeepsTags ==
    ASSUME NEW w \in Seq(AssemblyItems), w # << >>, NEW r \in Identity(w)
    PROVE  KeepsTagsOf(w, r)
<1>1. r = [width |-> 1, out |-> <<w[1]>>]
  BY DEF Identity, Rewrite
<1>2. w[1] \in AssemblyItems /\ Len(w) \in Nat /\ Len(w) >= 1 /\ \A k \in 1..1 : k = 1
  OBVIOUS
<1> QED
  BY <1>1, <1>2 DEF KeepsTagsOf

\* Whatever method applies first, the rewrite keeps the tags.
LEMMA ApplyMethodsKeepsTags ==
    ASSUME NEW w \in Seq(AssemblyItems), w # << >>
    PROVE  KeepsTagsOf(w, applyMethods(w))
<1> DEFINE attempts == Attempts(w)
           applicable == {k \in DOMAIN attempts : attempts[k] # {}}
           first == CHOOSE k \in DOMAIN attempts :
                       attempts[k] # {} /\ \A j \in 1..(k - 1) : attempts[j] = {}
<1>1. DOMAIN attempts = 1..12 /\ attempts[12] = Identity(w)
  BY DEF Attempts
<1>2. attempts[12] # {}
  BY <1>1 DEF Identity, Rewrite
<1>3. PICK k \in applicable : \A j \in applicable : k <= j
  <2>1. applicable \in SUBSET Nat /\ applicable # {}
    <3> HIDE DEF attempts
    <3> QED
      BY <1>1, <1>2
  <2> QED
    BY <2>1, LeastElement
<1>4. first \in DOMAIN attempts /\ attempts[first] # {}
  <2> HIDE DEF attempts
  <2>1. k \in 1..12 /\ attempts[k] # {}
    BY <1>1, <1>3
  <2>2. \A j \in 1..(k - 1) : attempts[j] = {}
    <3> TAKE j \in 1..(k - 1)
    <3>1. j \in 1..12 /\ ~ (k <= j)
      BY <2>1
    <3> QED
      BY <1>1, <1>3, <3>1
  <2> QED
    BY <1>1, <2>1, <2>2
<1>5. applyMethods(w) \in attempts[first]
  <2>1. applyMethods(w) = CHOOSE r \in attempts[first] : TRUE
    BY DEF applyMethods
  <2> HIDE DEF attempts, first
  <2> QED
    BY <1>4, <2>1
<1>6. \E method \in {PushPop(w), OpPop(w), DoublePush(w), DoubleSwap(w), CommutativeSwap(w),
                     SwapComparison(w), IsZeroIsZeroJumpI(w), JumpToNext(w),
                     UnreachableCode(w), TagConjunctions(w), TruthyAnd(w), Identity(w)} :
          applyMethods(w) \in method
  <2> HIDE DEF first
  <2>1. first \in 1..12
    BY <1>1, <1>4
  <2> QED
    BY <1>5, <2>1 DEF Attempts
<1> HIDE DEF attempts, first
<1> QED
  BY <1>6, PushPopKeepsTags, OpPopKeepsTags, DoublePushKeepsTags, DoubleSwapKeepsTags,
     CommutativeSwapKeepsTags, SwapComparisonKeepsTags, IsZeroIsZeroJumpIKeepsTags,
     JumpToNextKeepsTags, UnreachableCodeKeepsTags, TagConjunctionsKeepsTags,
     TruthyAndKeepsTags, IdentityKeepsTags

-----------------------------------------------------------------------------
(* PeepholeOptimiser: what a pass does to tags. *)

\* One step of the recursion in OnePass: what becomes of the items from position
\* i on, if f is what becomes of those behind.
RewrittenFrom(code, f, i) ==
    IF i > Len(code) THEN << >>
    ELSE LET rewrite == applyMethods(SubSeq(code, i, Len(code)))
         IN rewrite.out \o f[i + rewrite.width]

\* The window at position i.
LEMMA Window ==
    ASSUME NEW code \in Seq(AssemblyItems), NEW i \in 1..Len(code)
    PROVE  LET w == SubSeq(code, i, Len(code)) IN
           /\ w \in Seq(AssemblyItems) /\ w # << >>
           /\ Len(w) = Len(code) - i + 1
           /\ \A k \in 1..Len(w) : w[k] = code[i + k - 1]
           /\ KeepsTagsOf(w, applyMethods(w))
<1> DEFINE w == SubSeq(code, i, Len(code))
<1>1. /\ Len(code) \in Int /\ i \in Int /\ i >= 1 /\ i <= Len(code)
      /\ \A k \in i..Len(code) : code[k] \in AssemblyItems
  OBVIOUS
<1>2. /\ w \in Seq(AssemblyItems)
      /\ Len(w) = Len(code) - i + 1
      /\ \A k \in 1..Len(w) : w[k] = code[i + k - 1]
  BY <1>1, SubSeqProperties
<1> HIDE DEF w
<1>3. w # << >>
  <2>1. Len(w) # 0 /\ Len(<< >>) = 0
    BY <1>1, <1>2
  <2> QED
    BY <2>1
<1>4. KeepsTagsOf(w, applyMethods(w))
  BY <1>2, <1>3, ApplyMethodsKeepsTags
<1> QED
  BY <1>2, <1>3, <1>4 DEF w

\* A step of the recursion reads f behind i only.
LEMMA RewrittenFromReadsBehind ==
    ASSUME NEW code \in Seq(AssemblyItems), NEW i \in 1..(Len(code) + 1), NEW f, NEW g,
           \A j \in (i + 1)..(Len(code) + 1) : f[j] = g[j]
    PROVE  RewrittenFrom(code, f, i) = RewrittenFrom(code, g, i)
<1>1. CASE i > Len(code)
  BY <1>1 DEF RewrittenFrom
<1>2. CASE ~ (i > Len(code))
  <2> DEFINE r == applyMethods(SubSeq(code, i, Len(code)))
  <2>1. Len(code) \in Nat /\ i \in 1..Len(code)
    BY <1>2
  <2>2. r.width \in 1..(Len(code) - i + 1)
    BY <2>1, Window DEF KeepsTagsOf
  <2> HIDE DEF r
  <2>3. i + r.width \in (i + 1)..(Len(code) + 1)
    BY <2>1, <2>2
  <2>4. f[i + r.width] = g[i + r.width]
    BY <2>3
  <2> QED
    BY <1>2, <2>4 DEF RewrittenFrom, r
<1> QED
  BY <1>1, <1>2

LEMMA RewrittenExists ==
    ASSUME NEW code \in Seq(AssemblyItems)
    PROVE  \E f : f = [i \in 1..(Len(code) + 1) |-> RewrittenFrom(code, f, i)]
<1> DEFINE n == Len(code)
           S == {k \in Nat : k <= n =>
                   \E f : f = [i \in (n + 1 - k)..(n + 1) |-> RewrittenFrom(code, f, i)]}
<1>1. n \in Nat
  OBVIOUS
<1>2. 0 \in S
  <2> DEFINE f == [i \in (n + 1)..(n + 1) |-> << >>]
  <2>1. \A i \in (n + 1)..(n + 1) : RewrittenFrom(code, f, i) = << >>
    BY <1>1 DEF RewrittenFrom
  <2>2. f = [i \in (n + 1 - 0)..(n + 1) |-> RewrittenFrom(code, f, i)]
    BY <1>1, <2>1
  <2> HIDE DEF f
  <2> QED
    BY <2>2
<1>3. ASSUME NEW k \in S PROVE k + 1 \in S
  <2> SUFFICES ASSUME k + 1 <= n
               PROVE  \E f : f = [i \in (n + 1 - (k + 1))..(n + 1) |-> RewrittenFrom(code, f, i)]
    OBVIOUS
  <2>1. k \in Nat /\ k <= n
    BY <1>1
  <2>2. PICK f : f = [i \in (n + 1 - k)..(n + 1) |-> RewrittenFrom(code, f, i)]
    BY <2>1
  <2> DEFINE j == n - k
             first == RewrittenFrom(code, f, j)
             g == [i \in j..(n + 1) |-> IF i = j THEN first ELSE f[i]]
  <2>3. /\ j \in 1..n /\ n + 1 - (k + 1) = j /\ n + 1 - k = j + 1
        /\ \A i \in j..(n + 1) : i \in 1..(n + 1) /\ (i = j \/ i \in (j + 1)..(n + 1))
    BY <1>1, <2>1
  <2> HIDE DEF j
  <2>4. \A i \in (j + 1)..(n + 1) : g[i] = f[i]
    BY <1>1, <2>3
  <2>5. ASSUME NEW i \in j..(n + 1)
        PROVE  RewrittenFrom(code, g, i) = RewrittenFrom(code, f, i)
    <3>1. \A m \in (i + 1)..(Len(code) + 1) : g[m] = f[m]
      BY <1>1, <2>3, <2>4
    <3>2. i \in 1..(Len(code) + 1)
      BY <2>3
    <3> HIDE DEF g
    <3> QED
      BY <3>1, <3>2, RewrittenFromReadsBehind
  <2>6. ASSUME NEW i \in j..(n + 1)
        PROVE  g[i] = RewrittenFrom(code, g, i)
    <3>1. CASE i = j
      BY <2>5, <3>1
    <3>2. CASE i \in (j + 1)..(n + 1)
      <4>1. f[i] = RewrittenFrom(code, f, i)
        BY <2>2, <2>3, <3>2
      <4> QED
        BY <2>4, <2>5, <3>2, <4>1
    <3> QED
      BY <2>3, <3>1, <3>2
  <2>7. g = [i \in j..(n + 1) |-> RewrittenFrom(code, g, i)]
    BY <2>6
  <2> HIDE DEF g
  <2> QED
    BY <2>3, <2>7
<1>4. n \in S
  <2> HIDE DEF S
  <2>1. S = Nat
    BY <1>2, <1>3, SetInduction DEF S
  <2> QED
    BY <1>1, <2>1
<1>5. n + 1 - n = 1 /\ n <= n
  BY <1>1
<1> QED
  BY <1>4, <1>5

\* A pass keeps every tag, and adds no tag and no reference to one, and repeats no tag.
LEMMA OnePassFacts ==
    ASSUME NEW code \in Seq(AssemblyItems)
    PROVE  /\ OnePass(code) \in Seq(AssemblyItems)
           /\ \A i \in DOMAIN code : code[i].type = "Tag" =>
                 \E m \in DOMAIN OnePass(code) : OnePass(code)[m] = code[i]
           /\ \A m \in DOMAIN OnePass(code) : OnePass(code)[m].type \in {"Tag", "PushTag"} =>
                 \E i \in DOMAIN code : OnePass(code)[m] = code[i]
           /\ UniqueTags(code) => UniqueTags(OnePass(code))
<1> DEFINE n == Len(code)
           Good(s, j) ==
             /\ s \in Seq(AssemblyItems)
             /\ \A i \in j..n : code[i].type = "Tag" => \E m \in DOMAIN s : s[m] = code[i]
             /\ \A m \in DOMAIN s : s[m].type \in {"Tag", "PushTag"} =>
                   \E i \in j..n : s[m] = code[i]
             /\ UniqueTags(code) => UniqueTags(s)
<1>1. n \in Nat /\ DOMAIN code = 1..n
  OBVIOUS
<1>2. PICK f : /\ f = [i \in 1..(n + 1) |-> RewrittenFrom(code, f, i)]
               /\ OnePass(code) = f[1]
  <2> DEFINE g == CHOOSE f : f = [i \in 1..(n + 1) |-> RewrittenFrom(code, f, i)]
  <2>1. OnePass(code) = g[1]
    BY Zenon DEF OnePass, RewrittenFrom
  <2>2. g = [i \in 1..(n + 1) |-> RewrittenFrom(code, g, i)]
    BY RewrittenExists, Zenon
  <2> HIDE DEF g
  <2> QED
    BY <2>1, <2>2
<1>3. ASSUME NEW j \in 1..n, \A i \in (j + 1)..(n + 1) : Good(f[i], i)
      PROVE  Good(f[j], j)
  <2> DEFINE w == SubSeq(code, j, n)
             r == applyMethods(w)
             rest == f[j + r.width]
             s == r.out \o rest
  <2>1. /\ \A k \in 1..Len(w) : w[k] = code[j + k - 1]
        /\ Len(w) = n - j + 1
        /\ KeepsTagsOf(w, r)
    BY Window
  <2> HIDE DEF w, r
  <2>2. j \in Nat /\ r.width \in 1..(n - j + 1) /\ r.out \in Seq(AssemblyItems)
    BY <2>1 DEF KeepsTagsOf
  <2>3. Good(rest, j + r.width)
    <3>1. j + r.width \in (j + 1)..(n + 1)
      BY <1>1, <2>2
    <3> QED
      BY <1>3, <3>1
  <2>4. f[j] = s
    <3>1. j \in 1..(n + 1) /\ ~ (j > n)
      BY <1>1
    <3>2. f[j] = RewrittenFrom(code, f, j)
      BY <1>2, <3>1
    <3> QED
      BY <3>1, <3>2 DEF RewrittenFrom, r, w
  <2> HIDE DEF rest
  <2>5. /\ s \in Seq(AssemblyItems) /\ DOMAIN s = 1..(Len(r.out) + Len(rest))
        /\ DOMAIN r.out = 1..Len(r.out) /\ DOMAIN rest = 1..Len(rest)
        /\ Len(r.out) \in Nat /\ Len(rest) \in Nat
        /\ \A m \in 1..Len(r.out) : s[m] = r.out[m]
        /\ \A m \in 1..Len(rest) : s[Len(r.out) + m] = rest[m]
    <3> DEFINE out == r.out
    <3>1. out \in Seq(AssemblyItems) /\ rest \in Seq(AssemblyItems)
      BY <2>2, <2>3
    <3> HIDE DEF out, Good
    <3>2. /\ out \o rest \in Seq(AssemblyItems) /\ DOMAIN (out \o rest) = 1..(Len(out) + Len(rest))
          /\ DOMAIN out = 1..Len(out) /\ DOMAIN rest = 1..Len(rest)
          /\ Len(out) \in Nat /\ Len(rest) \in Nat
      BY <3>1
    <3>3. /\ \A m \in 1..Len(out) : (out \o rest)[m] = out[m]
          /\ \A m \in 1..Len(rest) : (out \o rest)[Len(out) + m] = rest[m]
      BY <3>1
    <3> QED
      BY <3>2, <3>3 DEF out
  <2> HIDE DEF s
  <2>6. ASSUME NEW i \in j..n, code[i].type = "Tag"
        PROVE  \E m \in DOMAIN s : s[m] = code[i]
    <3>1. CASE i < j + r.width
      <4>1. i - j + 1 \in 1..r.width /\ i - j + 1 \in 1..Len(w) /\ j + (i - j + 1) - 1 = i
        BY <1>1, <2>1, <2>2, <3>1
      <4>2. w[i - j + 1] = code[i]
        BY <2>1, <4>1
      <4>3. PICK m \in DOMAIN r.out : r.out[m] = code[i]
        BY <2>1, <2>6, <4>1, <4>2 DEF KeepsTagsOf
      <4>4. m \in DOMAIN s
        BY <2>5
      <4> QED
        BY <2>5, <4>3, <4>4
    <3>2. CASE ~ (i < j + r.width)
      <4>1. i \in (j + r.width)..n
        BY <1>1, <2>2, <3>2
      <4>2. PICK m \in DOMAIN rest : rest[m] = code[i]
        BY <2>3, <2>6, <4>1
      <4>3. /\ m \in 1..Len(rest) /\ Len(r.out) \in Nat /\ Len(rest) \in Nat
            /\ DOMAIN s = 1..(Len(r.out) + Len(rest))
        BY <2>5
      <4>4. Len(r.out) + m \in DOMAIN s
        BY <4>3
      <4> QED
        BY <2>5, <4>2, <4>4
    <3> QED
      BY <3>1, <3>2
  <2>7. ASSUME NEW m \in DOMAIN s, s[m].type \in {"Tag", "PushTag"}
        PROVE  \E i \in j..n : s[m] = code[i]
    <3>1. CASE m \in DOMAIN r.out
      <4>1. s[m] = r.out[m]
        BY <2>5, <3>1
      <4>2. PICK k \in 1..r.width : r.out[m] = w[k]
        BY <2>1, <2>7, <3>1, <4>1 DEF KeepsTagsOf
      <4>3. k \in 1..Len(w) /\ j + k - 1 \in j..n
        BY <1>1, <2>1, <2>2
      <4> QED
        BY <2>1, <4>1, <4>2, <4>3
    <3>2. CASE m \notin DOMAIN r.out
      <4>1. m - Len(r.out) \in DOMAIN rest /\ Len(r.out) + (m - Len(r.out)) = m
        BY <2>5, <3>2
      <4>2. s[m] = rest[m - Len(r.out)]
        BY <2>5, <4>1
      <4>3. PICK i \in (j + r.width)..n : rest[m - Len(r.out)] = code[i]
        BY <2>3, <2>7, <4>1, <4>2
      <4>4. i \in j..n
        BY <1>1, <2>2
      <4> QED
        BY <4>2, <4>3, <4>4
    <3> QED
      BY <3>1, <3>2
  <2>8. ASSUME UniqueTags(code) PROVE UniqueTags(s)
    <3> SUFFICES ASSUME NEW m \in DOMAIN s, NEW l \in DOMAIN s, s[m].type = "Tag",
                        s[l].type = "Tag", s[m].data = s[l].data
                 PROVE  m = l
      BY DEF UniqueTags
    <3>1. ASSUME NEW a \in DOMAIN r.out, NEW b \in DOMAIN rest, r.out[a].type = "Tag",
                 rest[b].type = "Tag", r.out[a].data = rest[b].data
          PROVE  FALSE
      <4>1. PICK k \in 1..r.width : r.out[a] = w[k]
        BY <2>1, <3>1 DEF KeepsTagsOf
      <4>2. k \in 1..Len(w) /\ j + k - 1 \in 1..n /\ j + k - 1 < j + r.width
        BY <1>1, <2>1, <2>2
      <4>3. w[k] = code[j + k - 1]
        BY <2>1, <4>2
      <4>4. PICK i \in (j + r.width)..n : rest[b] = code[i]
        BY <2>3, <3>1
      <4>5. i \in 1..n /\ i # j + k - 1
        BY <1>1, <2>2, <4>2
      <4> QED
        BY <1>1, <2>8, <3>1, <4>1, <4>2, <4>3, <4>4, <4>5 DEF UniqueTags
    <3>2. \A k \in DOMAIN s : \/ k \in DOMAIN r.out /\ s[k] = r.out[k]
                             \/ /\ k - Len(r.out) \in DOMAIN rest
                                /\ s[k] = rest[k - Len(r.out)]
      <4> TAKE k \in DOMAIN s
      <4>1. CASE k \in DOMAIN r.out
        BY <2>5, <4>1
      <4>2. CASE k \notin DOMAIN r.out
        <5> DEFINE a == Len(r.out)
                   b == Len(rest)
        <5>1. /\ a \in Nat /\ b \in Nat /\ k \in 1..(a + b) /\ k \notin 1..a
              /\ DOMAIN rest = 1..b
          BY <2>5, <4>2
        <5> HIDE DEF a, b
        <5>2. k - a \in 1..b /\ a + (k - a) = k
          BY <5>1
        <5>3. \A i \in 1..b : s[a + i] = rest[i]
          BY <2>5 DEF a, b
        <5> QED
          BY <5>1, <5>2, <5>3 DEF a
      <4> QED
        BY <4>1, <4>2
    <3>3. UniqueTags(rest)
      BY <2>3, <2>8
    <3>4. CASE m \in DOMAIN r.out /\ l \in DOMAIN r.out
      <4>1. s[m] = r.out[m] /\ s[l] = r.out[l]
        BY <2>5, <3>4
      <4> QED
        BY <2>1, <3>4, <4>1 DEF KeepsTagsOf
    <3>5. CASE /\ m - Len(r.out) \in DOMAIN rest /\ s[m] = rest[m - Len(r.out)]
               /\ l - Len(r.out) \in DOMAIN rest /\ s[l] = rest[l - Len(r.out)]
      <4>1. m - Len(r.out) = l - Len(r.out)
        BY <3>3, <3>5 DEF UniqueTags
      <4>2. m \in Nat /\ l \in Nat /\ Len(r.out) \in Nat
        BY <2>5
      <4> QED
        BY <4>1, <4>2
    <3> QED
      BY <3>1, <3>2, <3>4, <3>5
  <2> QED
    BY <2>4, <2>5, <2>6, <2>7, <2>8
<1> DEFINE S == {k \in Nat : k <= n => \A i \in (n + 1 - k)..(n + 1) : Good(f[i], i)}
<1>4. 0 \in S
  <2>1. f[n + 1] = << >>
    BY <1>1, <1>2 DEF RewrittenFrom
  <2>2. << >> \in Seq(AssemblyItems) /\ DOMAIN << >> = {} /\ (n + 1)..n = {}
    BY <1>1
  <2>3. Good(f[n + 1], n + 1)
    BY <2>1, <2>2 DEF UniqueTags
  <2>4. \A i \in (n + 1 - 0)..(n + 1) : i = n + 1
    BY <1>1
  <2> HIDE DEF Good
  <2> QED
    BY <2>3, <2>4
<1> HIDE DEF Good
<1>5. ASSUME NEW k \in S PROVE k + 1 \in S
  <2> SUFFICES ASSUME k + 1 <= n, NEW i \in (n + 1 - (k + 1))..(n + 1)
               PROVE  Good(f[i], i)
    OBVIOUS
  <2>0. k \in Nat /\ (k <= n => \A m \in (n + 1 - k)..(n + 1) : Good(f[m], m))
    OBVIOUS
  <2> HIDE DEF S, n
  <2>1. k \in Nat /\ k <= n /\ n - k \in 1..n /\ n + 1 - k = (n - k) + 1
        /\ (i = n - k \/ i \in (n + 1 - k)..(n + 1))
    BY <1>1, <2>0
  <2>2. \A m \in (n + 1 - k)..(n + 1) : Good(f[m], m)
    BY <2>0, <2>1
  <2>3. Good(f[n - k], n - k)
    BY <1>3, <2>1, <2>2
  <2> QED
    BY <2>1, <2>2, <2>3
<1>6. S = Nat
  <2> HIDE DEF S
  <2> QED
    BY <1>4, <1>5, SetInduction DEF S
<1>7. Good(f[1], 1)
  <2>1. n \in S /\ n + 1 - n = 1 /\ 1 \in 1..(n + 1) /\ n <= n
    BY <1>1, <1>6
  <2> QED
    BY <2>1
<1>8. Good(OnePass(code), 1)
  BY <1>2, <1>7
<1> QED
  BY <1>1, <1>8 DEF Good

-----------------------------------------------------------------------------
(* The passes on code whose own references have positions. *)

\* Code in which every PushTag of an own tag comes with the tag.
Closed(code) ==
    /\ code \in Seq(AssemblyItems)
    /\ referencedTags(code, 0) \subseteq Tags(code)

\* The replacements lead from tags of the code to tags that stand before them.
LeadBack(code, replacements) ==
    \A t \in DOMAIN replacements : \E i, j \in DOMAIN code :
        /\ i < j
        /\ code[i].type = "Tag" /\ code[i].data = replacements[t]
        /\ code[j].type = "Tag" /\ code[j].data = t

\* Closed, item by item.
LEMMA ClosedByItem ==
    ASSUME NEW code
    PROVE  referencedTags(code, 0) \subseteq Tags(code)
             <=> \A i \in DOMAIN code : code[i].type = "PushTag" /\ code[i].sub = 0 =>
                    \E j \in DOMAIN code : code[j].type = "Tag" /\ code[j].data = code[i].data
<1>1. \A t : t \in Tags(code) <=> \E j \in DOMAIN code : code[j].type = "Tag" /\ code[j].data = t
  BY DEF Tags
<1>2. \A t : t \in referencedTags(code, 0) <=>
               \E i \in DOMAIN code : code[i].type = "PushTag" /\ code[i].sub = 0 /\ code[i].data = t
  BY DEF referencedTags
<1>3. ASSUME referencedTags(code, 0) \subseteq Tags(code),
             NEW i \in DOMAIN code, code[i].type = "PushTag", code[i].sub = 0
      PROVE  \E j \in DOMAIN code : code[j].type = "Tag" /\ code[j].data = code[i].data
  <2>1. code[i].data \in referencedTags(code, 0)
    BY <1>2, <1>3
  <2> QED
    BY <1>1, <1>3, <2>1
<1>4. ASSUME \A i \in DOMAIN code : code[i].type = "PushTag" /\ code[i].sub = 0 =>
                \E j \in DOMAIN code : code[j].type = "Tag" /\ code[j].data = code[i].data,
             NEW t \in referencedTags(code, 0)
      PROVE  t \in Tags(code)
  BY <1>1, <1>2, <1>4
<1> QED
  BY <1>3, <1>4

\* The jumpdest remover keeps the tags that the code pushes, whatever outside is.
LEMMA KeepsTagsClosed ==
    ASSUME NEW code, Closed(code), NEW references
    PROVE  /\ Closed(KeepsTags(code, referencedTags(code, 0) \cup references))
           /\ UniqueTags(code) =>
                 UniqueTags(KeepsTags(code, referencedTags(code, 0) \cup references))
<1> DEFINE all == referencedTags(code, 0) \cup references
           kept == KeepsTags(code, all)
<1> HIDE DEF all
<1>1. code \in Seq(AssemblyItems) /\ referencedTags(code, 0) \subseteq Tags(code)
  BY DEF Closed
<1>2. /\ kept \in Seq(AssemblyItems)
      /\ \A k \in DOMAIN kept : \E i \in DOMAIN code : kept[k] = code[i]
      /\ \A i \in DOMAIN code : (code[i].type = "Tag" => code[i].data \in all) =>
            \E k \in DOMAIN kept : kept[k] = code[i]
      /\ UniqueTags(code) => UniqueTags(kept)
  BY <1>1, KeepsTagsFacts
<1> HIDE DEF kept
<1>3. ASSUME NEW k \in DOMAIN kept, kept[k].type = "PushTag", kept[k].sub = 0
      PROVE  \E m \in DOMAIN kept : kept[m].type = "Tag" /\ kept[m].data = kept[k].data
  <2>1. PICK i \in DOMAIN code : kept[k] = code[i]
    BY <1>2
  <2>2. code[i].data \in referencedTags(code, 0)
    BY <1>3, <2>1 DEF referencedTags
  <2>3. PICK j \in DOMAIN code : code[j].type = "Tag" /\ code[j].data = code[i].data
    BY <1>1, <2>2 DEF Tags
  <2>4. PICK m \in DOMAIN kept : kept[m] = code[j]
    BY <1>2, <2>2, <2>3 DEF all
  <2> QED
    BY <2>1, <2>3, <2>4
<1>4. referencedTags(kept, 0) \subseteq Tags(kept)
  BY <1>3, ClosedByItem
<1> QED
  BY <1>2, <1>4 DEF Closed, kept, all

\* A pass of the peephole optimiser keeps the tags that the code pushes.
LEMMA OnePassClosed ==
    ASSUME NEW code, Closed(code)
    PROVE  Closed(OnePass(code)) /\ (UniqueTags(code) => UniqueTags(OnePass(code)))
<1> DEFINE new == OnePass(code)
<1>1. code \in Seq(AssemblyItems) /\ referencedTags(code, 0) \subseteq Tags(code)
  BY DEF Closed
<1>2. /\ new \in Seq(AssemblyItems)
      /\ \A i \in DOMAIN code : code[i].type = "Tag" => \E m \in DOMAIN new : new[m] = code[i]
      /\ \A m \in DOMAIN new : new[m].type \in {"Tag", "PushTag"} =>
            \E i \in DOMAIN code : new[m] = code[i]
      /\ UniqueTags(code) => UniqueTags(new)
  BY <1>1, OnePassFacts
<1> HIDE DEF new
<1>3. ASSUME NEW k \in DOMAIN new, new[k].type = "PushTag", new[k].sub = 0
      PROVE  \E m \in DOMAIN new : new[m].type = "Tag" /\ new[m].data = new[k].data
  <2>1. PICK i \in DOMAIN code : new[k] = code[i]
    BY <1>2, <1>3
  <2>2. code[i].data \in referencedTags(code, 0)
    BY <1>3, <2>1 DEF referencedTags
  <2>3. PICK j \in DOMAIN code : code[j].type = "Tag" /\ code[j].data = code[i].data
    BY <1>1, <2>2 DEF Tags
  <2>4. PICK m \in DOMAIN new : new[m] = code[j]
    BY <1>2, <2>3
  <2> QED
    BY <2>1, <2>3, <2>4
<1>4. referencedTags(new, 0) \subseteq Tags(new)
  BY <1>3, ClosedByItem
<1> QED
  BY <1>2, <1>4 DEF Closed, new

\* A replacement of tags changes the data of PushTags and nothing else.
LEMMA ReplacementFacts ==
    ASSUME NEW code \in Seq(AssemblyItems), NEW replacements, NEW sub,
           \A t \in DOMAIN replacements : replacements[t] \in Nat
    PROVE  LET new == applyTagReplacement(code, replacements, sub)
           IN /\ new \in Seq(AssemblyItems)
              /\ DOMAIN new = DOMAIN code
              /\ \A i \in DOMAIN code :
                    /\ new[i].type = code[i].type
                    /\ new[i].sub = code[i].sub
                    /\ \/ new[i] = code[i]
                       \/ /\ code[i].type = "PushTag" /\ code[i].sub = sub
                          /\ code[i].data \in DOMAIN replacements
                          /\ new[i].data = replacements[code[i].data]
<1> DEFINE new == applyTagReplacement(code, replacements, sub)
           Replaced(i) == /\ code[i].type = "PushTag" /\ code[i].sub = sub
                          /\ code[i].data \in DOMAIN replacements
<1>1. /\ DOMAIN new = DOMAIN code
      /\ \A i \in DOMAIN code : new[i] = IF Replaced(i)
            THEN [code[i] EXCEPT !.data = replacements[code[i].data]] ELSE code[i]
  BY DEF applyTagReplacement
<1> HIDE DEF new
<1>2. ASSUME NEW i \in DOMAIN code
      PROVE  /\ new[i] \in AssemblyItems
             /\ new[i].type = code[i].type
             /\ new[i].sub = code[i].sub
             /\ \/ new[i] = code[i]
                \/ Replaced(i) /\ new[i].data = replacements[code[i].data]
  <2>1. code[i] \in AssemblyItems
    OBVIOUS
  <2>2. CASE Replaced(i)
    <3> DEFINE value == replacements[code[i].data]
    <3>1. value \in Nat /\ new[i] = [code[i] EXCEPT !.data = value]
      BY <1>1, <2>2
    <3> HIDE DEF value
    <3>2. /\ new[i] \in AssemblyItems /\ new[i].type = code[i].type
          /\ new[i].sub = code[i].sub /\ new[i].data = value
      BY <2>1, <3>1 DEF AssemblyItems
    <3> QED
      BY <2>2, <3>2 DEF value
  <2>3. CASE ~ Replaced(i)
    BY <1>1, <2>1, <2>3
  <2> QED
    BY <2>2, <2>3
<1>3. new \in Seq(AssemblyItems)
  <2>1. DOMAIN code = 1..Len(code) /\ Len(code) \in Nat
    OBVIOUS
  <2>2. new = [i \in 1..Len(code) |-> new[i]]
    BY <1>1, <2>1 DEF new, applyTagReplacement
  <2> QED
    BY <1>2, <2>1, <2>2
<1> QED
  BY <1>1, <1>2, <1>3 DEF new

\* Deduplication leads every own reference to a tag that has a position.
LEMMA OwnReplacementClosed ==
    ASSUME NEW code, Closed(code), NEW replacements, LeadBack(code, replacements)
    PROVE  /\ Closed(applyTagReplacement(code, replacements, 0))
           /\ LeadBack(applyTagReplacement(code, replacements, 0), replacements)
           /\ UniqueTags(code) => UniqueTags(applyTagReplacement(code, replacements, 0))
<1> DEFINE new == applyTagReplacement(code, replacements, 0)
<1>1. code \in Seq(AssemblyItems) /\ referencedTags(code, 0) \subseteq Tags(code)
  BY DEF Closed
<1>2. \A i \in DOMAIN code : code[i].type = "PushTag" /\ code[i].sub = 0 =>
         \E j \in DOMAIN code : code[j].type = "Tag" /\ code[j].data = code[i].data
  BY <1>1, ClosedByItem
<1>3. \A t \in DOMAIN replacements : replacements[t] \in Nat
  <2> TAKE t \in DOMAIN replacements
  <2>1. PICK i \in DOMAIN code : code[i].data = replacements[t]
    BY DEF LeadBack
  <2>2. code[i] \in AssemblyItems
    BY <1>1
  <2> QED
    BY <2>1, <2>2 DEF AssemblyItems
<1>4. /\ new \in Seq(AssemblyItems)
      /\ DOMAIN new = DOMAIN code
      /\ \A i \in DOMAIN code :
            /\ new[i].type = code[i].type
            /\ new[i].sub = code[i].sub
            /\ \/ new[i] = code[i]
               \/ /\ code[i].type = "PushTag" /\ code[i].sub = 0
                  /\ code[i].data \in DOMAIN replacements
                  /\ new[i].data = replacements[code[i].data]
  BY <1>1, <1>3, ReplacementFacts
<1> HIDE DEF new
<1>5. \A i \in DOMAIN code : code[i].type = "Tag" => new[i] = code[i]
  BY <1>4
<1>6. LeadBack(new, replacements)
  <2> SUFFICES ASSUME NEW t \in DOMAIN replacements
               PROVE  \E i, j \in DOMAIN new :
                         /\ i < j
                         /\ new[i].type = "Tag" /\ new[i].data = replacements[t]
                         /\ new[j].type = "Tag" /\ new[j].data = t
    BY DEF LeadBack
  <2>1. PICK i \in DOMAIN code, j \in DOMAIN code :
           /\ i < j
           /\ code[i].type = "Tag" /\ code[i].data = replacements[t]
           /\ code[j].type = "Tag" /\ code[j].data = t
    BY DEF LeadBack
  <2>2. new[i] = code[i] /\ new[j] = code[j]
    BY <1>5, <2>1
  <2> QED
    BY <1>4, <2>1, <2>2
<1>7. ASSUME NEW i \in DOMAIN new, new[i].type = "PushTag", new[i].sub = 0
      PROVE  \E j \in DOMAIN new : new[j].type = "Tag" /\ new[j].data = new[i].data
  <2>1. i \in DOMAIN code
    BY <1>4
  <2>2. CASE new[i] = code[i]
    <3>1. PICK j \in DOMAIN code : code[j].type = "Tag" /\ code[j].data = code[i].data
      BY <1>2, <1>7, <2>1, <2>2
    <3> QED
      BY <1>4, <1>5, <2>2, <3>1
  <2>3. CASE code[i].data \in DOMAIN replacements /\ new[i].data = replacements[code[i].data]
    <3>1. PICK j \in DOMAIN code : code[j].type = "Tag" /\ code[j].data = new[i].data
      BY <2>3 DEF LeadBack
    <3> QED
      BY <1>4, <1>5, <3>1
  <2> QED
    BY <1>4, <2>1, <2>2, <2>3
<1>8. referencedTags(new, 0) \subseteq Tags(new)
  BY <1>7, ClosedByItem
<1>9. UniqueTags(code) => UniqueTags(new)
  BY <1>4, <1>5 DEF UniqueTags
<1> QED
  BY <1>4, <1>6, <1>8, <1>9 DEF Closed, new

\* Replacing tags of a sub-assembly leaves the references to own tags alone.
LEMMA ForeignReplacementClosed ==
    ASSUME NEW code, Closed(code), NEW replacements,
           \A t \in DOMAIN replacements : replacements[t] \in Nat
    PROVE  /\ Closed(applyTagReplacement(code, replacements, Sub))
           /\ UniqueTags(code) => UniqueTags(applyTagReplacement(code, replacements, Sub))
<1> DEFINE new == applyTagReplacement(code, replacements, Sub)
<1>1. code \in Seq(AssemblyItems) /\ referencedTags(code, 0) \subseteq Tags(code)
  BY DEF Closed
<1>2. \A i \in DOMAIN code : code[i].type = "PushTag" /\ code[i].sub = 0 =>
         \E j \in DOMAIN code : code[j].type = "Tag" /\ code[j].data = code[i].data
  BY <1>1, ClosedByItem
<1>3. /\ new \in Seq(AssemblyItems)
      /\ DOMAIN new = DOMAIN code
      /\ \A i \in DOMAIN code :
            /\ new[i].type = code[i].type
            /\ new[i].sub = code[i].sub
            /\ \/ new[i] = code[i]
               \/ /\ code[i].type = "PushTag" /\ code[i].sub = Sub
                  /\ code[i].data \in DOMAIN replacements
                  /\ new[i].data = replacements[code[i].data]
  BY <1>1, ReplacementFacts
<1> HIDE DEF new
<1>4. ASSUME NEW i \in DOMAIN new, new[i].type = "PushTag", new[i].sub = 0
      PROVE  \E j \in DOMAIN new : new[j].type = "Tag" /\ new[j].data = new[i].data
  <2>1. i \in DOMAIN code /\ new[i] = code[i]
    BY <1>3, <1>4 DEF Sub
  <2>2. PICK j \in DOMAIN code : code[j].type = "Tag" /\ code[j].data = code[i].data
    BY <1>2, <1>4, <2>1
  <2>3. new[j] = code[j]
    BY <1>3, <2>2
  <2> QED
    BY <1>3, <2>1, <2>2, <2>3
<1>5. referencedTags(new, 0) \subseteq Tags(new)
  BY <1>4, ClosedByItem
<1>6. UniqueTags(code) => UniqueTags(new)
  <2>1. \A i \in DOMAIN code : new[i].type = "Tag" => new[i] = code[i]
    BY <1>3
  <2> QED
    BY <1>3, <2>1 DEF UniqueTags
<1> QED
  BY <1>3, <1>5, <1>6 DEF Closed, new

\* The first of the equal blocks stands before the others.
LEMMA SeenBeforeLeadsBack ==
    ASSUME NEW code \in Seq(AssemblyItems)
    PROVE  LeadBack(code, SeenBefore(code))
<1> DEFINE positions == {i \in DOMAIN code : code[i].type = "Tag"}
           equals(i) == {j \in positions : j <= i /\ Block(code, j) = Block(code, i)}
           duplicates == {i \in positions : Min(equals(i)) # i}
           first(t) == CHOOSE i \in duplicates : code[i].data = t
<1>1. SeenBefore(code) = [t \in {code[i].data : i \in duplicates} |->
                              code[Min(equals(first(t)))].data]
  BY Zenon DEF SeenBefore
<1>2. ASSUME NEW i \in duplicates
      PROVE  Min(equals(i)) \in positions /\ Min(equals(i)) < i
  <2>1. i \in positions /\ Min(equals(i)) # i /\ i \in Nat
    OBVIOUS
  <2>2. equals(i) \in SUBSET Nat /\ i \in equals(i)
    BY <2>1
  <2>3. Min(equals(i)) \in equals(i)
    BY <2>2, MinIsLeast
  <2> HIDE DEF duplicates
  <2>4. Min(equals(i)) \in positions /\ Min(equals(i)) <= i /\ Min(equals(i)) \in Nat
    BY <2>2, <2>3
  <2> QED
    BY <2>1, <2>4
<1> SUFFICES ASSUME NEW t \in {code[i].data : i \in duplicates}
             PROVE  \E i, j \in DOMAIN code :
                       /\ i < j
                       /\ code[i].type = "Tag" /\ code[i].data = SeenBefore(code)[t]
                       /\ code[j].type = "Tag" /\ code[j].data = t
  BY <1>1 DEF LeadBack
<1>3. first(t) \in duplicates /\ code[first(t)].data = t
  OBVIOUS
<1>4. SeenBefore(code)[t] = code[Min(equals(first(t)))].data
  BY <1>1
<1>5. first(t) \in positions /\ Min(equals(first(t))) \in positions
      /\ Min(equals(first(t))) < first(t)
  BY <1>2, <1>3
<1> HIDE DEF first, equals
<1> QED
  BY <1>3, <1>4, <1>5

\* Replacements of a later iteration, put before those of the earlier ones.
LEMMA MergedLeadBack ==
    ASSUME NEW code, NEW new, NEW old, LeadBack(code, new), LeadBack(code, old)
    PROVE  LeadBack(code, Merged(new, old))
  BY DEF LeadBack, Merged

-----------------------------------------------------------------------------
(* The inductive invariant. *)

\* The own references need positions in both assemblies, because optimising one
\* leaves the other as it is; the replacements collected so far must lead back in
\* the items of the running level, because the next iteration applies them all;
\* and they are gone when those items can lose tags.
IInv ==
    /\ level \in {"sub", "outer"}
    /\ assembly \in [sub : Seq(AssemblyItems), outer : Seq(AssemblyItems)]
    /\ \A l \in {"sub", "outer"} : UniqueTags(assembly[l])
    /\ OwnReferencesHavePositions
    /\ ReplacementsGoBackwards
    /\ step \notin {"deduplicate", "deduplicated"} => replacedTags = NoMap
    /\ \A t \in DOMAIN tagReplacements : tagReplacements[t] \in Nat

\* What IInv says of the assemblies.
LEMMA IInvClosed ==
    ASSUME level \in {"sub", "outer"},
           assembly \in [sub : Seq(AssemblyItems), outer : Seq(AssemblyItems)]
    PROVE  /\ OwnReferencesHavePositions <=> Closed(assembly.sub) /\ Closed(assembly.outer)
           /\ ReplacementsGoBackwards <=> LeadBack(items, replacedTags)
<1>1. assembly["sub"] = assembly.sub /\ assembly["outer"] = assembly.outer
      /\ assembly.sub \in Seq(AssemblyItems) /\ assembly.outer \in Seq(AssemblyItems)
  OBVIOUS
<1>2. OwnReferencesHavePositions <=> Closed(assembly.sub) /\ Closed(assembly.outer)
  BY <1>1 DEF OwnReferencesHavePositions, Closed
<1>3. ReplacementsGoBackwards <=> LeadBack(items, replacedTags)
  BY Zenon DEF ReplacementsGoBackwards, LeadBack
<1> QED
  BY <1>2, <1>3

\* An action that changes the items of the running level, if at all, keeps what
\* IInv says of the assemblies, provided the new items are closed.
LEMMA NewItems ==
    ASSUME IInv, NEW code, Closed(code), UniqueTags(code)
    PROVE  LET new == [assembly EXCEPT ![level] = code]
           IN /\ new \in [sub : Seq(AssemblyItems), outer : Seq(AssemblyItems)]
              /\ \A l \in {"sub", "outer"} : referencedTags(new[l], 0) \subseteq Tags(new[l])
              /\ \A l \in {"sub", "outer"} : UniqueTags(new[l])
              /\ new[level] = code
  BY DEF IInv, Closed, OwnReferencesHavePositions

LEMMA ItemsClosed ==
    ASSUME IInv
    PROVE  Closed(items) /\ UniqueTags(items) /\ LeadBack(items, replacedTags)
<1>1. level \in {"sub", "outer"} /\ assembly \in [sub : Seq(AssemblyItems), outer : Seq(AssemblyItems)]
  BY DEF IInv
<1>2. Closed(assembly.sub) /\ Closed(assembly.outer) /\ LeadBack(items, replacedTags)
  BY <1>1, IInvClosed DEF IInv
<1>3. UniqueTags(items)
  BY <1>1 DEF IInv, items
<1> QED
  BY <1>1, <1>2, <1>3 DEF items

\* Nothing has been replaced: nothing can lead anywhere else.
LEMMA NothingReplaced ==
    ASSUME replacedTags = NoMap
    PROVE  ReplacementsGoBackwards
  BY DEF ReplacementsGoBackwards, NoMap

LEMMA InitIInv == Init => IInv
<1> SUFFICES ASSUME Init PROVE IInv
  OBVIOUS
<1>1. PICK case \in Cases : original = case.assembly
  BY DEF Init
<1>2. assembly = case.assembly
  BY <1>1 DEF Init
<1>3. /\ assembly \in [sub : Seq(AssemblyItems), outer : Seq(AssemblyItems)]
      /\ \A l \in {"sub", "outer"} : UniqueTags(assembly[l])
      /\ OwnReferencesHavePositions
  BY <1>2, CasesAssumption DEF OwnReferencesHavePositions
<1>4. replacedTags = NoMap /\ tagReplacements = NoMap /\ level = "sub"
  BY DEF Init
<1>5. ReplacementsGoBackwards
  BY <1>4, NothingReplaced
<1> QED
  BY <1>3, <1>4, <1>5 DEF IInv, NoMap

LEMMA RemoveJumpdestsIInv == IInv /\ RemoveJumpdests => IInv'
<1> SUFFICES ASSUME IInv, RemoveJumpdests PROVE IInv'
  OBVIOUS
<1> DEFINE kept == KeepsTags(items, referencedTags(items, 0) \cup outside)
<1>1. /\ level' = level /\ replacedTags' = replacedTags /\ tagReplacements' = tagReplacements
      /\ step = "jumpdest"
      /\ assembly' = [assembly EXCEPT ![level] = kept] \/ assembly' = assembly
  BY Zenon DEF RemoveJumpdests
<1>2. Closed(kept) /\ UniqueTags(kept)
  BY ItemsClosed, KeepsTagsClosed
<1> HIDE DEF kept
<1>3. /\ assembly' \in [sub : Seq(AssemblyItems), outer : Seq(AssemblyItems)]
      /\ \A l \in {"sub", "outer"} : UniqueTags(assembly'[l])
      /\ OwnReferencesHavePositions'
  <2>1. CASE assembly' = [assembly EXCEPT ![level] = kept]
    BY <1>2, <2>1, NewItems DEF OwnReferencesHavePositions
  <2>2. CASE assembly' = assembly
    BY <2>2 DEF IInv, OwnReferencesHavePositions
  <2> QED
    BY <1>1, <2>1, <2>2
<1>4. replacedTags' = NoMap
  BY <1>1 DEF IInv
<1>5. ReplacementsGoBackwards'
  BY <1>4 DEF ReplacementsGoBackwards, NoMap
<1> QED
  BY <1>1, <1>3, <1>4, <1>5 DEF IInv

LEMMA PeepholeIInv == IInv /\ Peephole => IInv'
<1> SUFFICES ASSUME IInv, Peephole PROVE IInv'
  OBVIOUS
<1> DEFINE optimised == OnePass(items)
<1>1. /\ level' = level /\ replacedTags' = replacedTags /\ tagReplacements' = tagReplacements
      /\ step = "peephole"
      /\ assembly' = [assembly EXCEPT ![level] = optimised] \/ assembly' = assembly
  BY Zenon DEF Peephole
<1>2. Closed(optimised) /\ UniqueTags(optimised)
  BY ItemsClosed, OnePassClosed
<1> HIDE DEF optimised
<1>3. /\ assembly' \in [sub : Seq(AssemblyItems), outer : Seq(AssemblyItems)]
      /\ \A l \in {"sub", "outer"} : UniqueTags(assembly'[l])
      /\ OwnReferencesHavePositions'
  <2>1. CASE assembly' = [assembly EXCEPT ![level] = optimised]
    BY <1>2, <2>1, NewItems DEF OwnReferencesHavePositions
  <2>2. CASE assembly' = assembly
    BY <2>2 DEF IInv, OwnReferencesHavePositions
  <2> QED
    BY <1>1, <2>1, <2>2
<1>4. replacedTags' = NoMap
  BY <1>1 DEF IInv
<1>5. ReplacementsGoBackwards'
  BY <1>4 DEF ReplacementsGoBackwards, NoMap
<1> QED
  BY <1>1, <1>3, <1>4, <1>5 DEF IInv

LEMMA DeduplicateIterationIInv == IInv /\ DeduplicateIteration => IInv'
<1> SUFFICES ASSUME IInv, DeduplicateIteration PROVE IInv'
  OBVIOUS
<1> DEFINE replaced == Merged(SeenBefore(items), replacedTags)
           unified == applyTagReplacement(items, replaced, 0)
<1>1. /\ level' = level /\ tagReplacements' = tagReplacements
      /\ step = "deduplicate" /\ step' \in {"deduplicate", "deduplicated"}
      /\ replacedTags' = replaced
      /\ assembly' = [assembly EXCEPT ![level] = unified]
  <2>1. /\ level' = level /\ tagReplacements' = tagReplacements /\ step = "deduplicate"
        /\ replacedTags' = replaced /\ assembly' = [assembly EXCEPT ![level] = unified]
        /\ step' = step \/ step' = "deduplicated"
    BY Zenon DEF DeduplicateIteration
  <2> QED
    BY <2>1
<1>2. /\ Closed(items) /\ UniqueTags(items) /\ items \in Seq(AssemblyItems)
      /\ LeadBack(items, replacedTags)
  BY ItemsClosed DEF Closed
<1>3. LeadBack(items, SeenBefore(items))
  BY <1>2, SeenBeforeLeadsBack
<1>4. LeadBack(items, replaced)
  BY <1>2, <1>3, MergedLeadBack
<1> HIDE DEF replaced
<1>5. Closed(unified) /\ UniqueTags(unified) /\ LeadBack(unified, replaced)
  BY <1>2, <1>4, OwnReplacementClosed
<1> HIDE DEF unified
<1>6. /\ assembly' \in [sub : Seq(AssemblyItems), outer : Seq(AssemblyItems)]
      /\ \A l \in {"sub", "outer"} : UniqueTags(assembly'[l])
      /\ OwnReferencesHavePositions'
      /\ items' = unified
  BY <1>1, <1>5, NewItems DEF OwnReferencesHavePositions, items
<1>7. ReplacementsGoBackwards'
  BY <1>1, <1>5, <1>6 DEF ReplacementsGoBackwards, LeadBack
<1> QED
  BY <1>1, <1>6, <1>7 DEF IInv

LEMMA DeduplicatedIInv == IInv /\ Deduplicated => IInv'
<1> SUFFICES ASSUME IInv, Deduplicated PROVE IInv'
  OBVIOUS
<1>1. /\ level' = level /\ assembly' = assembly /\ replacedTags' = NoMap
      /\ tagReplacements' = tagReplacements
         \/ tagReplacements' = Merged(replacedTags, tagReplacements)
  BY Zenon DEF Deduplicated
<1>2. \A t \in DOMAIN replacedTags : replacedTags[t] \in Nat
  <2> TAKE t \in DOMAIN replacedTags
  <2>1. items \in Seq(AssemblyItems) /\ LeadBack(items, replacedTags)
    BY ItemsClosed DEF Closed
  <2>2. PICK i \in DOMAIN items : items[i].data = replacedTags[t]
    BY <2>1 DEF LeadBack
  <2>3. items[i] \in AssemblyItems
    BY <2>1
  <2> QED
    BY <2>2, <2>3 DEF AssemblyItems
<1>3. \A t \in DOMAIN tagReplacements' : tagReplacements'[t] \in Nat
  BY <1>1, <1>2 DEF IInv, Merged
<1>4. OwnReferencesHavePositions' /\ ReplacementsGoBackwards'
  BY <1>1 DEF IInv, OwnReferencesHavePositions, ReplacementsGoBackwards, NoMap
<1> QED
  BY <1>1, <1>3, <1>4 DEF IInv

LEMMA EndRoundIInv == IInv /\ EndRound => IInv'
<1> SUFFICES ASSUME IInv, EndRound PROVE IInv'
  OBVIOUS
<1>1. step = "end" /\ replacedTags' = replacedTags /\ replacedTags = NoMap
  BY DEF EndRound, IInv
<1>2. ReplacementsGoBackwards'
  BY <1>1 DEF ReplacementsGoBackwards, NoMap
<1>3. CASE UNCHANGED <<assembly, level, outside, tagReplacements>>
  BY <1>1, <1>2, <1>3 DEF IInv, OwnReferencesHavePositions
<1>4. CASE /\ level' = "outer"
           /\ assembly' = [assembly EXCEPT
                 !.outer = applyTagReplacement(assembly.outer, tagReplacements, Sub)]
           /\ tagReplacements' = NoMap
  <2> DEFINE outer == applyTagReplacement(assembly.outer, tagReplacements, Sub)
  <2>1. assembly \in [sub : Seq(AssemblyItems), outer : Seq(AssemblyItems)]
    BY DEF IInv
  <2>2. Closed(assembly.sub) /\ Closed(assembly.outer)
    BY <2>1, IInvClosed DEF IInv
  <2>3. Closed(outer) /\ UniqueTags(assembly.sub) /\ UniqueTags(outer)
    BY <2>2, ForeignReplacementClosed DEF IInv
  <2> HIDE DEF outer
  <2>4. assembly' = [assembly EXCEPT !.outer = outer]
    BY <1>4 DEF outer
  <2>5. assembly' = [sub |-> assembly.sub, outer |-> outer]
    BY <2>1, <2>4
  <2>6. /\ assembly' \in [sub : Seq(AssemblyItems), outer : Seq(AssemblyItems)]
        /\ \A l \in {"sub", "outer"} : UniqueTags(assembly'[l])
        /\ OwnReferencesHavePositions'
    BY <2>2, <2>3, <2>5 DEF Closed, OwnReferencesHavePositions
  <2> QED
    BY <1>1, <1>2, <1>4, <2>6 DEF IInv, NoMap
<1> QED
  BY <1>3, <1>4 DEF EndRound

LEMMA AssembleIInv == IInv /\ Assemble => IInv'
<1> SUFFICES ASSUME IInv, Assemble PROVE IInv'
  OBVIOUS
<1>1. /\ UNCHANGED <<assembly, level, tagReplacements, replacedTags>>
      /\ step = "assemble"
  BY DEF Assemble
<1> QED
  BY <1>1 DEF IInv, OwnReferencesHavePositions, ReplacementsGoBackwards, items

LEMMA StutterIInv == IInv /\ UNCHANGED vars => IInv'
  BY DEF IInv, OwnReferencesHavePositions, ReplacementsGoBackwards, items, vars

\* Whatever assemblies and settings, the invariant holds in every state.
THEOREM AssemblyInvariant == Spec => []IInv
<1>1. IInv /\ [Next]_vars => IInv'
  BY RemoveJumpdestsIInv, PeepholeIInv, DeduplicateIterationIInv, DeduplicatedIInv,
     EndRoundIInv, AssembleIInv, StutterIInv DEF Next, Terminated
<1> QED
  BY InitIInv, <1>1, PTL DEF Spec

\* Whatever the assemblies, the settings and the number of rounds, no pass of
\* Assembly::optimise leaves a PushTag of an assembly's own tag without the tag:
\* not JumpdestRemover, not a method of the PeepholeOptimiser, and not a
\* replacement by the BlockDeduplicator.
THEOREM OwnTagsStay == Spec => []OwnReferencesHavePositions
<1>1. IInv => OwnReferencesHavePositions
  BY DEF IInv
<1> QED
  BY AssemblyInvariant, <1>1, PTL

\* No pass of Assembly::optimise repeats a tag: each has one position at most, so
\* that the blocks of the BlockDeduplicator and the targets of jumps are well defined.
THEOREM TagsStayUnique == Spec => [](\A l \in {"sub", "outer"} : UniqueTags(assembly[l]))
<1>1. IInv => \A l \in {"sub", "outer"} : UniqueTags(assembly[l])
  BY DEF IInv
<1> QED
  BY AssemblyInvariant, <1>1, PTL

\* Over all iterations of BlockDeduplicator::deduplicate, a tag gives way to one
\* that stands before it in the code, so that following replacements comes to an
\* end at a tag that has a position.
THEOREM NoReplacementCycle == Spec => []ReplacementsGoBackwards
<1>1. IInv => ReplacementsGoBackwards
  BY DEF IInv
<1> QED
  BY AssemblyInvariant, <1>1, PTL

\* Assembly::assemble therefore never fails for a tag of the assembly itself:
\* what can be without position is a tag of the sub-assembly that the outer
\* assembly pushes.
THEOREM OnlyForeignTagsDangle ==
    Spec => [](Dangling(assembly) \subseteq referencedTags(assembly.outer, Sub))
<1>1. IInv => Dangling(assembly) \subseteq referencedTags(assembly.outer, Sub)
  BY DEF IInv, OwnReferencesHavePositions, Dangling
<1> QED
  BY AssemblyInvariant, <1>1, PTL

-----------------------------------------------------------------------------
(* What the passes do to the sets of tags and of references. *)

LEMMA TagsByItem ==
    ASSUME NEW code
    PROVE  /\ \A t : t \in Tags(code) <=>
                 \E i \in DOMAIN code : code[i].type = "Tag" /\ code[i].data = t
           /\ \A t, sub : t \in referencedTags(code, sub) <=>
                 \E i \in DOMAIN code :
                    code[i].type = "PushTag" /\ code[i].sub = sub /\ code[i].data = t
  BY DEF Tags, referencedTags

\* The jumpdest remover keeps the referenced tags, no others, and every reference.
LEMMA KeepsTagsTags ==
    ASSUME NEW code \in Seq(AssemblyItems), NEW references
    PROVE  LET kept == KeepsTags(code, references)
           IN /\ Tags(kept) = Tags(code) \cap references
              /\ \A sub : referencedTags(kept, sub) = referencedTags(code, sub)
<1> DEFINE kept == KeepsTags(code, references)
<1>1. /\ \A k \in DOMAIN kept : \E i \in DOMAIN code : kept[k] = code[i]
      /\ \A i \in DOMAIN code : (code[i].type = "Tag" => code[i].data \in references) =>
            \E k \in DOMAIN kept : kept[k] = code[i]
      /\ \A k \in DOMAIN kept : kept[k].type = "Tag" => kept[k].data \in references
  BY KeepsTagsFacts
<1> HIDE DEF kept
<1>2. ASSUME NEW t PROVE t \in Tags(kept) <=> t \in Tags(code) \cap references
  BY <1>1, TagsByItem
<1>3. ASSUME NEW sub
      PROVE  referencedTags(kept, sub) = referencedTags(code, sub)
  <2>1. ASSUME NEW t \in referencedTags(kept, sub) PROVE t \in referencedTags(code, sub)
    <3>1. PICK k \in DOMAIN kept : /\ kept[k].type = "PushTag" /\ kept[k].sub = sub
                                   /\ kept[k].data = t
      BY TagsByItem
    <3> QED
      BY <1>1, <3>1, TagsByItem
  <2>2. ASSUME NEW t \in referencedTags(code, sub) PROVE t \in referencedTags(kept, sub)
    <3>1. PICK i \in DOMAIN code : /\ code[i].type = "PushTag" /\ code[i].sub = sub
                                   /\ code[i].data = t
      BY TagsByItem
    <3>2. PICK k \in DOMAIN kept : kept[k] = code[i]
      BY <1>1, <3>1
    <3> QED
      BY <3>1, <3>2, TagsByItem
  <2> QED
    BY <2>1, <2>2
<1>4. Tags(kept) = Tags(code) \cap references
  BY <1>2
<1> QED
  BY <1>3, <1>4 DEF kept

\* A pass of the peephole optimiser keeps every tag, and adds no reference.
LEMMA OnePassTags ==
    ASSUME NEW code \in Seq(AssemblyItems)
    PROVE  /\ Tags(OnePass(code)) = Tags(code)
           /\ \A sub : referencedTags(OnePass(code), sub) \subseteq referencedTags(code, sub)
<1> DEFINE new == OnePass(code)
<1>1. /\ \A i \in DOMAIN code : code[i].type = "Tag" => \E m \in DOMAIN new : new[m] = code[i]
      /\ \A m \in DOMAIN new : new[m].type \in {"Tag", "PushTag"} =>
            \E i \in DOMAIN code : new[m] = code[i]
  BY OnePassFacts
<1> HIDE DEF new
<1>2. ASSUME NEW t PROVE t \in Tags(new) <=> t \in Tags(code)
  BY <1>1, TagsByItem
<1>3. ASSUME NEW sub, NEW t \in referencedTags(new, sub)
      PROVE  t \in referencedTags(code, sub)
  BY <1>1, TagsByItem
<1> QED
  BY <1>2, <1>3 DEF new

\* A replacement leaves the tags and the references to other assemblies; what it
\* refers to afterwards was not replaced, or is what a tag referred to became.
LEMMA ReplacementTags ==
    ASSUME NEW code \in Seq(AssemblyItems), NEW replacements, NEW sub,
           \A t \in DOMAIN replacements : replacements[t] \in Nat
    PROVE  LET new == applyTagReplacement(code, replacements, sub)
           IN /\ Tags(new) = Tags(code)
              /\ \A other : other # sub =>
                    referencedTags(new, other) = referencedTags(code, other)
              /\ \A t \in referencedTags(new, sub) : \E u \in referencedTags(code, sub) :
                    \/ u \notin DOMAIN replacements /\ t = u
                    \/ u \in DOMAIN replacements /\ t = replacements[u]
              /\ new = code => \A t \in referencedTags(code, sub) :
                    t \in DOMAIN replacements => replacements[t] = t
<1> DEFINE new == applyTagReplacement(code, replacements, sub)
           Replaced(i) == /\ code[i].type = "PushTag" /\ code[i].sub = sub
                          /\ code[i].data \in DOMAIN replacements
<1>1. /\ DOMAIN new = DOMAIN code
      /\ \A i \in DOMAIN code :
            /\ new[i].type = code[i].type
            /\ new[i].sub = code[i].sub
            /\ \/ new[i] = code[i]
               \/ Replaced(i) /\ new[i].data = replacements[code[i].data]
  BY ReplacementFacts
<1>2. \A i \in DOMAIN code : IF Replaced(i) THEN new[i].data = replacements[code[i].data]
                                            ELSE new[i] = code[i]
  <2> TAKE i \in DOMAIN code
  <2>1. new[i] = IF Replaced(i) THEN [code[i] EXCEPT !.data = replacements[code[i].data]]
                                ELSE code[i]
    BY DEF applyTagReplacement
  <2>2. code[i] \in AssemblyItems
    OBVIOUS
  <2> HIDE DEF new
  <2> QED
    BY <2>1, <2>2 DEF AssemblyItems
<1> HIDE DEF new
<1>3. ASSUME NEW t PROVE t \in Tags(new) <=> t \in Tags(code)
  BY <1>1, <1>2, TagsByItem
<1>4. ASSUME NEW other, other # sub, NEW t
      PROVE  t \in referencedTags(new, other) <=> t \in referencedTags(code, other)
  BY <1>1, <1>2, <1>4, TagsByItem
<1>5. ASSUME NEW t \in referencedTags(new, sub)
      PROVE  \E u \in referencedTags(code, sub) :
                \/ u \notin DOMAIN replacements /\ t = u
                \/ u \in DOMAIN replacements /\ t = replacements[u]
  <2>1. PICK i \in DOMAIN code : /\ new[i].type = "PushTag" /\ new[i].sub = sub
                                 /\ new[i].data = t
    BY <1>1, TagsByItem
  <2>2. code[i].type = "PushTag" /\ code[i].sub = sub
    BY <1>1, <2>1
  <2>3. code[i].data \in referencedTags(code, sub)
    BY <2>2, TagsByItem
  <2> QED
    BY <1>2, <2>1, <2>2, <2>3
<1>6. ASSUME new = code, NEW t \in referencedTags(code, sub), t \in DOMAIN replacements
      PROVE  replacements[t] = t
  <2>1. PICK i \in DOMAIN code : /\ code[i].type = "PushTag" /\ code[i].sub = sub
                                 /\ code[i].data = t
    BY TagsByItem
  <2> QED
    BY <1>2, <1>6, <2>1
<1> QED
  BY <1>3, <1>4, <1>5, <1>6 DEF new

\* Where tags are unique, no tag gives way to itself.
LEMMA LeadElsewhere ==
    ASSUME NEW code \in Seq(AssemblyItems), UniqueTags(code), NEW replacements,
           LeadBack(code, replacements), NEW t \in DOMAIN replacements
    PROVE  t \in Tags(code) /\ replacements[t] \in Tags(code) /\ replacements[t] # t
<1>1. PICK i \in DOMAIN code, j \in DOMAIN code :
         /\ i < j
         /\ code[i].type = "Tag" /\ code[i].data = replacements[t]
         /\ code[j].type = "Tag" /\ code[j].data = t
  BY DEF LeadBack
<1>2. i \in Nat /\ j \in Nat
  OBVIOUS
<1>3. i # j
  BY <1>1, <1>2
<1> QED
  BY <1>1, <1>3, TagsByItem DEF UniqueTags

-----------------------------------------------------------------------------
(* The outside references after the replacements. *)

LEMMA MaxIsGreatest ==
    ASSUME NEW T \in SUBSET Nat, T # {}, NEW bound \in Nat, \A y \in T : y <= bound
    PROVE  Max(T) \in T /\ \A y \in T : Max(T) >= y
<1> DEFINE Bounds == {b \in Nat : \A y \in T : y <= b}
<1>1. PICK b \in Bounds : \A c \in Bounds : b <= c
  <2>1. Bounds \in SUBSET Nat /\ bound \in Bounds
    OBVIOUS
  <2> QED
    BY <2>1, LeastElement
<1>2. b \in T
  <2> SUFFICES ASSUME b \notin T PROVE FALSE
    OBVIOUS
  <2>1. b \in Nat /\ \A y \in T : y \in Nat /\ y <= b /\ y # b
    OBVIOUS
  <2>2. PICK y \in T : TRUE
    OBVIOUS
  <2>3. b - 1 \in Nat
    BY <2>1, <2>2
  <2>4. \A z \in T : z <= b - 1
    BY <2>1
  <2>5. b - 1 \in Bounds
    BY <2>3, <2>4
  <2>6. b <= b - 1
    BY <1>1, <2>5
  <2> QED
    BY <2>1, <2>6
<1>3. \A y \in T : b >= y
  OBVIOUS
<1>4. \E x \in T : \A y \in T : x >= y
  BY <1>2, <1>3
<1> QED
  BY <1>4, Zenon DEF Max

\* The tags of a code have a greatest.
LEMMA TagsBounded ==
    ASSUME NEW code \in Seq(AssemblyItems)
    PROVE  Tags(code) \in SUBSET Nat /\ \E bound \in Nat : \A t \in Tags(code) : t <= bound
<1> DEFINE n == Len(code)
           S == {m \in Nat : m <= n => \E bound \in Nat : \A i \in 1..m : code[i].data <= bound}
<1>1. n \in Nat /\ DOMAIN code = 1..n /\ \A i \in 1..n : code[i].data \in Nat
  <2>1. n \in Nat /\ DOMAIN code = 1..n /\ \A i \in 1..n : code[i] \in AssemblyItems
    OBVIOUS
  <2> QED
    BY <2>1 DEF AssemblyItems
<1> HIDE DEF n
<1>2. 0 \in S
  <2>1. \A i \in 1..0 : code[i].data <= 0
    OBVIOUS
  <2> QED
    BY <2>1
<1>3. ASSUME NEW m \in S PROVE m + 1 \in S
  <2> SUFFICES ASSUME m + 1 <= n
               PROVE  \E bound \in Nat : \A i \in 1..(m + 1) : code[i].data <= bound
    OBVIOUS
  <2>1. m \in Nat /\ m <= n /\ m + 1 \in 1..n
    BY <1>1
  <2>2. PICK bound \in Nat : \A i \in 1..m : code[i].data <= bound
    BY <2>1
  <2> DEFINE last == code[m + 1].data
             larger == bound + last
  <2>3. last \in Nat
    BY <1>1, <2>1
  <2>4. ASSUME NEW i \in 1..(m + 1) PROVE code[i].data <= larger
    <3>1. i \in 1..m \/ i = m + 1
      BY <2>1
    <3>2. i \in 1..n
      BY <1>1, <2>1
    <3>3. code[i].data \in Nat
      BY <1>1, <3>2
    <3> HIDE DEF last
    <3>4. CASE i \in 1..m
      BY <2>2, <2>3, <3>3, <3>4
    <3>5. CASE i = m + 1
      BY <2>3, <3>5 DEF last
    <3> QED
      BY <3>1, <3>4, <3>5
  <2>5. larger \in Nat
    BY <2>3
  <2> HIDE DEF larger
  <2> QED
    BY <2>4, <2>5
<1>4. S = Nat
  <2> HIDE DEF S
  <2> QED
    BY <1>2, <1>3, SetInduction DEF S
<1>5. PICK bound \in Nat : \A i \in 1..n : code[i].data <= bound
  <2>1. n \in S
    <3> HIDE DEF S
    <3> QED
      BY <1>1, <1>4
  <2>2. n <= n
    BY <1>1
  <2> QED
    BY <2>1, <2>2
<1>6. Tags(code) \in SUBSET Nat
  BY <1>1, TagsByItem
<1>7. \A t \in Tags(code) : t <= bound
  BY <1>1, <1>5, TagsByItem
<1> QED
  BY <1>6, <1>7

\* One step of the recursion in Redirect.
RedirectedUpTo(references, replacements, f, t) ==
    LET refs == IF t = 0 THEN references ELSE f[t - 1]
    IN IF t \in refs \cap DOMAIN replacements
       THEN (refs \ {t}) \cup {replacements[t]} ELSE refs

LEMMA RedirectedExists ==
    ASSUME NEW references, NEW replacements, NEW n \in Nat
    PROVE  \E f : f = [t \in 0..n |-> RedirectedUpTo(references, replacements, f, t)]
<1> DEFINE Up(f, t) == RedirectedUpTo(references, replacements, f, t)
           S == {m \in Nat : \E f : f = [t \in 0..m |-> Up(f, t)]}
<1>0. ASSUME NEW f, NEW g, NEW t \in Nat, t = 0 \/ f[t - 1] = g[t - 1]
      PROVE  Up(f, t) = Up(g, t)
  BY <1>0 DEF RedirectedUpTo
<1>1. 0 \in S
  <2> DEFINE f == [t \in 0..0 |-> Up(<< >>, 0)]
  <2>1. \A t \in 0..0 : t = 0 /\ Up(f, t) = Up(<< >>, 0)
    <3>1. Up(f, 0) = Up(<< >>, 0)
      BY <1>0
    <3> HIDE DEF Up, f
    <3> QED
      BY <3>1
  <2>2. f = [t \in 0..0 |-> Up(f, t)]
    <3> HIDE DEF Up
    <3> QED
      BY <2>1
  <2> HIDE DEF f
  <2> QED
    BY <2>2
<1> HIDE DEF Up
<1>2. ASSUME NEW m \in S PROVE m + 1 \in S
  <2>1. PICK f : f = [t \in 0..m |-> Up(f, t)]
    OBVIOUS
  <2> DEFINE last == Up(f, m + 1)
             g == [t \in 0..(m + 1) |-> IF t \in 0..m THEN f[t] ELSE last]
  <2>2. \A t \in 0..m : g[t] = f[t] /\ f[t] = Up(f, t)
    <3>1. \A t \in 0..m : g[t] = f[t]
      <4> HIDE DEF last
      <4> QED
        OBVIOUS
    <3>2. \A t \in 0..m : f[t] = Up(f, t)
      BY <2>1
    <3> QED
      BY <3>1, <3>2
  <2>3. g[m + 1] = last
    OBVIOUS
  <2> HIDE DEF g, last
  <2>4. ASSUME NEW t \in 0..(m + 1) PROVE Up(g, t) = Up(f, t)
    <3>1. t = 0 \/ t - 1 \in 0..m
      OBVIOUS
    <3>2. t = 0 \/ g[t - 1] = f[t - 1]
      BY <2>2, <3>1
    <3> QED
      BY <1>0, <3>2
  <2>5. \A t \in 0..(m + 1) : g[t] = Up(g, t)
    <3> TAKE t \in 0..(m + 1)
    <3>1. t \in 0..m \/ t = m + 1
      OBVIOUS
    <3> QED
      BY <2>2, <2>3, <2>4, <3>1 DEF last
  <2>6. g = [t \in 0..(m + 1) |-> Up(g, t)]
    BY <2>5 DEF g
  <2> QED
    BY <2>6
<1> QED
  <2> HIDE DEF S
  <2>1. S = Nat
    BY <1>1, <1>2, SetInduction DEF S
  <2> QED
    BY <2>1 DEF S, Up

\* Redirect only adds replacements, keeps what is not replaced, and of what is
\* replaced keeps the replacement, unless that is replaced as well; without such
\* chains nothing replaced is left.
LEMMA RedirectFacts ==
    ASSUME NEW references, NEW replacements, DOMAIN replacements \in SUBSET Nat,
           NEW bound \in Nat, \A t \in DOMAIN replacements : t <= bound
    PROVE  LET new == Redirect(references, replacements)
               D == DOMAIN replacements
           IN /\ \A x \in new : x \in references \/ \E t \in D : x = replacements[t]
              /\ \A x \in references \ D : x \in new
              /\ \A x \in references \cap D : replacements[x] \in new \/ replacements[x] \in D
              /\ (\A t \in D : replacements[t] \notin D) => new \cap D = {}
<1> DEFINE D == DOMAIN replacements
           last == Max({0} \cup D)
           Up(f, t) == RedirectedUpTo(references, replacements, f, t)
           Facts(X, t) ==
             /\ \A x \in X : x \in references \/ \E u \in D : x = replacements[u]
             /\ \A x \in references : (x \in D => x > t) => x \in X
             /\ \A x \in references \cap D :
                   x <= t => replacements[x] \in X \/ replacements[x] \in D
             /\ (\A u \in D : replacements[u] \notin D) => \A u \in D : u <= t => u \notin X
<1>1. last \in Nat /\ \A y \in D : y <= last
  <2>1. {0} \cup D \in SUBSET Nat /\ {0} \cup D # {} /\ \A y \in {0} \cup D : y <= bound
    OBVIOUS
  <2>2. last \in {0} \cup D /\ \A y \in {0} \cup D : last >= y
    BY <2>1, MaxIsGreatest
  <2> HIDE DEF last, D
  <2> QED
    BY <2>1, <2>2
<1>2. PICK f : /\ f = [t \in 0..last |-> Up(f, t)]
               /\ Redirect(references, replacements) = f[last]
  <2> DEFINE g == CHOOSE f : f = [t \in 0..last |-> Up(f, t)]
  <2>1. Redirect(references, replacements) = g[last]
    BY Zenon DEF Redirect, RedirectedUpTo
  <2> HIDE DEF last
  <2>2. g = [t \in 0..last |-> Up(g, t)]
    BY <1>1, RedirectedExists, Zenon
  <2> HIDE DEF g
  <2> QED
    BY <2>1, <2>2
<1>3. \A d \in D : d \in Nat
  OBVIOUS
<1> HIDE DEF last, D
<1>4. ASSUME NEW refs, NEW t \in Nat,
             \A x \in refs : x \in references \/ \E u \in D : x = replacements[u],
             \A x \in references : (x \in D => x >= t) => x \in refs,
             \A x \in references \cap D :
                x < t => replacements[x] \in refs \/ replacements[x] \in D,
             (\A u \in D : replacements[u] \notin D) => \A u \in D : u < t => u \notin refs
      PROVE  Facts(IF t \in refs \cap D THEN (refs \ {t}) \cup {replacements[t]} ELSE refs, t)
  <2> DEFINE X == IF t \in refs \cap D THEN (refs \ {t}) \cup {replacements[t]} ELSE refs
  <2>1. \A x \in X : x \in references \/ \E u \in D : x = replacements[u]
    BY <1>4
  <2>2. ASSUME NEW x \in references, x \in D => x > t PROVE x \in X
    <3>1. x \in D => x >= t /\ x # t
      BY <1>3, <2>2
    <3>2. x \in refs
      BY <1>4, <3>1
    <3> QED
      BY <3>1, <3>2
  <2>3. ASSUME NEW x \in references \cap D, x <= t
        PROVE  replacements[x] \in X \/ replacements[x] \in D
    <3>1. x \in Nat /\ (x < t \/ x = t)
      BY <1>3, <2>3
    <3>2. CASE x < t
      <4>1. replacements[x] \in refs \/ replacements[x] \in D
        BY <1>4, <3>2
      <4> QED
        BY <4>1
    <3>3. CASE x = t
      <4>1. x >= t
        BY <3>1, <3>3
      <4>2. t \in refs \cap D
        BY <1>4, <3>3, <4>1
      <4> QED
        BY <3>3, <4>2
    <3> QED
      BY <3>1, <3>2, <3>3
  <2>4. ASSUME \A u \in D : replacements[u] \notin D, NEW u \in D, u <= t PROVE u \notin X
    <3>1. u \in Nat /\ (u < t \/ u = t)
      BY <1>3, <2>4
    <3>2. u < t => u \notin refs
      BY <1>4, <2>4
    <3> QED
      BY <2>4, <3>1, <3>2
  <2> QED
    BY <2>1, <2>2, <2>3, <2>4
<1> DEFINE S == {t \in Nat : t <= last => Facts(f[t], t)}
<1>5. 0 \in S
  <2> DEFINE refs == references
  <2>1. f[0] = IF 0 \in refs \cap D THEN (refs \ {0}) \cup {replacements[0]} ELSE refs
    BY <1>1, <1>2 DEF RedirectedUpTo, D
  <2>2. /\ \A x \in refs : x \in references \/ \E u \in D : x = replacements[u]
        /\ \A x \in references : (x \in D => x >= 0) => x \in refs
        /\ \A x \in references \cap D :
              x < 0 => replacements[x] \in refs \/ replacements[x] \in D
        /\ (\A u \in D : replacements[u] \notin D) => \A u \in D : u < 0 => u \notin refs
    BY <1>3
  <2> HIDE DEF Facts, refs
  <2>3. Facts(f[0], 0)
    BY <1>4, <2>1, <2>2
  <2> QED
    BY <2>3
<1>6. ASSUME NEW t \in S PROVE t + 1 \in S
  <2> SUFFICES ASSUME t + 1 <= last PROVE Facts(f[t + 1], t + 1)
    OBVIOUS
  <2> DEFINE refs == f[t]
             k == t + 1
  <2>1. t \in Nat /\ t <= last /\ k \in Nat /\ k \in 0..last /\ k # 0 /\ k - 1 = t
    BY <1>1
  <2>2. Facts(refs, t)
    BY <2>1
  <2>3. f[k] = IF k \in refs \cap D THEN (refs \ {k}) \cup {replacements[k]} ELSE refs
    <3>1. f[k] = Up(f, k)
      BY <1>2, <2>1
    <3> HIDE DEF k
    <3> QED
      BY <2>1, <3>1 DEF RedirectedUpTo, D
  <2> HIDE DEF refs
  <2>4. \A x \in D : (x >= k => x > t) /\ (x < k => x <= t)
    BY <1>3, <2>1
  <2> HIDE DEF k
  <2>5. /\ \A x \in refs : x \in references \/ \E u \in D : x = replacements[u]
        /\ \A x \in references : (x \in D => x >= k) => x \in refs
        /\ \A x \in references \cap D :
              x < k => replacements[x] \in refs \/ replacements[x] \in D
        /\ (\A u \in D : replacements[u] \notin D) => \A u \in D : u < k => u \notin refs
    BY <2>2, <2>4
  <2> HIDE DEF Facts
  <2>6. Facts(f[k], k)
    BY <1>4, <2>1, <2>3, <2>5
  <2> QED
    BY <2>6 DEF k
<1> HIDE DEF Facts
<1>7. S = Nat
  <2> HIDE DEF S
  <2> QED
    BY <1>5, <1>6, SetInduction DEF S
<1>8. Facts(f[last], last)
  BY <1>1, <1>7
<1> DEFINE new == Redirect(references, replacements)
<1>9. Facts(new, last)
  BY <1>2, <1>8
<1> HIDE DEF new
<1>10. \A x \in references \cap D : replacements[x] \in new \/ replacements[x] \in D
  BY <1>1, <1>9 DEF Facts
<1>11. (\A t \in D : replacements[t] \notin D) => new \cap D = {}
  BY <1>1, <1>9 DEF Facts
<1>12. /\ \A x \in new : x \in references \/ \E t \in D : x = replacements[t]
       /\ \A x \in references \ D : x \in new
  BY <1>9 DEF Facts
<1> QED
  BY <1>10, <1>11, <1>12 DEF new, D

-----------------------------------------------------------------------------
(* Why neither assertion fails without a chain of replacements. *)

\* The tags of the sub-assembly that the outer assembly pushes.
Foreign == referencedTags(assembly.outer, Sub)

\* While the sub-assembly is optimised, what the outer assembly pushes is among the
\* outside references or has been replaced by one of them; and these have positions.
ForeignInv ==
    /\ step = "assemble" => level = "outer"
    /\ level = "sub" =>
          /\ outside \subseteq Tags(assembly.sub)
          /\ \A t \in Foreign :
                \/ t \in outside
                \/ /\ t \in DOMAIN tagReplacements
                   /\ \/ tagReplacements[t] \in outside
                      \/ tagReplacements[t] \in DOMAIN tagReplacements
    /\ level = "outer" => Foreign \subseteq Tags(assembly.sub)

\* With the jumpdest remover, a replaced tag is not referenced any more, and it is
\* gone by the time the deduplicator looks for equal blocks; without, the tags that
\* replaced others are all still there.  When deduplicate returns, nothing that it
\* replaced is referenced.
GoneInv ==
    /\ settings.runJumpdestRemover =>
          /\ DOMAIN tagReplacements \cap (referencedTags(items, 0) \cup outside) = {}
          /\ step \in {"peephole", "deduplicate", "deduplicated"} =>
                DOMAIN tagReplacements \cap Tags(items) = {}
    /\ ~settings.runJumpdestRemover =>
          \A t \in DOMAIN tagReplacements : tagReplacements[t] \in Tags(items)
    /\ step = "deduplicated" => DOMAIN replacedTags \cap referencedTags(items, 0) = {}

FailInv ==
    thrown # "" => thrown = "Replacement already known." /\ ~settings.runJumpdestRemover

TInv == ForeignInv /\ GoneInv /\ FailInv

\* The assemblies when the items of the running level change.
LEMMA ItemsChange ==
    ASSUME IInv, NEW code, assembly' = [assembly EXCEPT ![level] = code], level' = level
    PROVE  /\ items' = code
           /\ level = "sub" => assembly'.sub = code /\ assembly'.outer = assembly.outer
                               /\ items = assembly.sub
           /\ level = "outer" => assembly'.outer = code /\ assembly'.sub = assembly.sub
                                 /\ items = assembly.outer
  BY DEF IInv, items

\* Passes that keep the tags referenced from outside, and add no reference to a tag
\* of the sub-assembly, keep ForeignInv.
LEMMA ForeignKept ==
    ASSUME IInv, ForeignInv, NEW code,
           assembly' = [assembly EXCEPT ![level] = code],
           level' = level, outside' = outside, tagReplacements' = tagReplacements,
           step' # "assemble",
           Tags(items) \cap outside \subseteq Tags(code),
           referencedTags(code, Sub) \subseteq referencedTags(items, Sub)
    PROVE  ForeignInv'
<1>1. level \in {"sub", "outer"}
  BY DEF IInv
<1>2. CASE level = "sub"
  <2>1. assembly'.sub = code /\ assembly'.outer = assembly.outer /\ items = assembly.sub
    BY <1>2, ItemsChange
  <2>2. Foreign' = Foreign
    BY <2>1 DEF Foreign
  <2>3. outside \subseteq Tags(code)
    BY <1>2, <2>1 DEF ForeignInv
  <2> QED
    BY <1>2, <2>1, <2>2, <2>3 DEF ForeignInv
<1>3. CASE level = "outer"
  <2>1. assembly'.outer = code /\ assembly'.sub = assembly.sub /\ items = assembly.outer
    BY <1>3, ItemsChange
  <2>2. Foreign' \subseteq Foreign
    BY <2>1 DEF Foreign
  <2> QED
    BY <1>3, <2>1, <2>2 DEF ForeignInv
<1> QED
  BY <1>1, <1>2, <1>3

LEMMA InitTInv == Init => TInv
<1> SUFFICES ASSUME Init PROVE TInv
  OBVIOUS
<1>1. PICK case \in Cases : original = case.assembly
  BY DEF Init
<1>2. /\ assembly = case.assembly /\ level = "sub" /\ step = "jumpdest"
      /\ outside = Foreign /\ tagReplacements = NoMap /\ thrown = ""
  BY <1>1 DEF Init, Foreign
<1>3. Foreign \subseteq Tags(assembly.sub)
  BY <1>2, CasesAssumption DEF Foreign
<1>4. DOMAIN tagReplacements = {}
  BY <1>2 DEF NoMap
<1> QED
  BY <1>2, <1>3, <1>4 DEF TInv, ForeignInv, GoneInv, FailInv

LEMMA RemoveJumpdestsTInv == IInv /\ TInv /\ RemoveJumpdests => TInv'
<1> SUFFICES ASSUME IInv, TInv, RemoveJumpdests PROVE TInv'
  OBVIOUS
<1> DEFINE references == referencedTags(items, 0) \cup outside
           kept == KeepsTags(items, references)
<1>1. /\ level' = level /\ replacedTags' = replacedTags /\ tagReplacements' = tagReplacements
      /\ outside' = outside /\ settings' = settings /\ thrown' = thrown
      /\ step = "jumpdest" /\ step' = "peephole"
  BY Zenon DEF RemoveJumpdests
<1>2. /\ settings.runJumpdestRemover => assembly' = [assembly EXCEPT ![level] = kept]
      /\ ~settings.runJumpdestRemover => assembly' = assembly
  BY Zenon DEF RemoveJumpdests
<1>3. items \in Seq(AssemblyItems)
  BY ItemsClosed DEF Closed
<1>4. /\ Tags(kept) = Tags(items) \cap references
      /\ \A sub : referencedTags(kept, sub) = referencedTags(items, sub)
  BY <1>3, KeepsTagsTags
<1> HIDE DEF kept
<1>5. FailInv'
  BY <1>1 DEF TInv, FailInv
<1>6. CASE settings.runJumpdestRemover
  <2>1. assembly' = [assembly EXCEPT ![level] = kept]
    BY <1>2, <1>6
  <2>2. items' = kept
    BY <1>1, <2>1, ItemsChange
  <2>3. ForeignInv'
    BY <1>1, <1>4, <2>1, ForeignKept DEF TInv
  <2>4. DOMAIN tagReplacements \cap references = {}
    BY <1>6 DEF TInv, GoneInv
  <2>5. GoneInv'
    BY <1>1, <1>4, <1>6, <2>2, <2>4 DEF GoneInv
  <2> QED
    BY <1>5, <2>3, <2>5 DEF TInv
<1>7. CASE ~settings.runJumpdestRemover
  <2>1. assembly' = assembly /\ items' = items
    BY <1>1, <1>2, <1>7 DEF items
  <2>2. ForeignInv'
    BY <1>1, <2>1 DEF TInv, ForeignInv, Foreign
  <2>3. GoneInv'
    BY <1>1, <1>7, <2>1 DEF TInv, GoneInv
  <2> QED
    BY <1>5, <2>2, <2>3 DEF TInv
<1> QED
  BY <1>6, <1>7

LEMMA PeepholeTInv == IInv /\ TInv /\ Peephole => TInv'
<1> SUFFICES ASSUME IInv, TInv, Peephole PROVE TInv'
  OBVIOUS
<1> DEFINE optimised == OnePass(items)
<1>1. /\ level' = level /\ replacedTags' = replacedTags /\ tagReplacements' = tagReplacements
      /\ outside' = outside /\ settings' = settings /\ thrown' = thrown
      /\ step = "peephole" /\ (step' = step \/ step' = "deduplicate" \/ step' = "end")
      /\ assembly' = [assembly EXCEPT ![level] = optimised] \/ assembly' = assembly
  BY Zenon DEF Peephole
<1>2. items \in Seq(AssemblyItems)
  BY ItemsClosed DEF Closed
<1>3. /\ Tags(optimised) = Tags(items)
      /\ \A sub : referencedTags(optimised, sub) \subseteq referencedTags(items, sub)
  BY <1>2, OnePassTags
<1> HIDE DEF optimised
<1>4. FailInv'
  BY <1>1 DEF TInv, FailInv
<1>5. CASE assembly' = [assembly EXCEPT ![level] = optimised]
  <2>1. items' = optimised
    BY <1>1, <1>5, ItemsChange
  <2>2. ForeignInv'
    BY <1>1, <1>3, <1>5, ForeignKept DEF TInv
  <2>3. GoneInv'
    BY <1>1, <1>3, <2>1 DEF TInv, GoneInv
  <2> QED
    BY <1>4, <2>2, <2>3 DEF TInv
<1>6. CASE assembly' = assembly
  <2>1. items' = items
    BY <1>1, <1>6 DEF items
  <2>2. ForeignInv'
    BY <1>1, <1>6 DEF TInv, ForeignInv, Foreign
  <2>3. GoneInv'
    BY <1>1, <2>1 DEF TInv, GoneInv
  <2> QED
    BY <1>4, <2>2, <2>3 DEF TInv
<1> QED
  BY <1>1, <1>5, <1>6

LEMMA DeduplicateIterationTInv == IInv /\ TInv /\ DeduplicateIteration => TInv'
<1> SUFFICES ASSUME IInv, TInv, DeduplicateIteration PROVE TInv'
  OBVIOUS
<1> DEFINE replaced == Merged(SeenBefore(items), replacedTags)
           unified == applyTagReplacement(items, replaced, 0)
<1>1. /\ level' = level /\ tagReplacements' = tagReplacements
      /\ outside' = outside /\ settings' = settings /\ thrown' = thrown
      /\ step = "deduplicate" /\ replacedTags' = replaced
      /\ assembly' = [assembly EXCEPT ![level] = unified]
      /\ step' = step \/ (step' = "deduplicated" /\ unified = items)
  BY Zenon DEF DeduplicateIteration
<1>2. /\ Closed(items) /\ UniqueTags(items) /\ items \in Seq(AssemblyItems)
      /\ LeadBack(items, replacedTags)
  BY ItemsClosed DEF Closed
<1>3. LeadBack(items, replaced)
  BY <1>2, SeenBeforeLeadsBack, MergedLeadBack
<1> HIDE DEF replaced
<1>4. \A t \in DOMAIN replaced :
         t \in Tags(items) /\ replaced[t] \in Tags(items) /\ replaced[t] # t
  BY <1>2, <1>3, LeadElsewhere
<1>5. \A t \in DOMAIN replaced : replaced[t] \in Nat
  BY <1>2, <1>4, TagsBounded
<1>6. /\ Tags(unified) = Tags(items)
      /\ \A other : other # 0 => referencedTags(unified, other) = referencedTags(items, other)
      /\ unified = items => \A t \in referencedTags(items, 0) :
            t \in DOMAIN replaced => replaced[t] = t
  BY <1>2, <1>5, ReplacementTags
<1>7. referencedTags(unified, 0) \subseteq Tags(items)
  BY <1>2, <1>3, <1>6, OwnReplacementClosed DEF Closed
<1> HIDE DEF unified
<1>8. items' = unified
  BY <1>1, ItemsChange
<1>9. referencedTags(unified, Sub) = referencedTags(items, Sub)
  BY <1>6 DEF Sub
<1>10. ForeignInv'
  BY <1>1, <1>6, <1>9, ForeignKept DEF TInv
<1>11. step' = "deduplicated" => DOMAIN replaced \cap referencedTags(unified, 0) = {}
  BY <1>1, <1>4, <1>6
<1>12. GoneInv'
  BY <1>1, <1>6, <1>7, <1>8, <1>11 DEF TInv, GoneInv
<1>13. FailInv'
  BY <1>1 DEF TInv, FailInv
<1> QED
  BY <1>10, <1>12, <1>13 DEF TInv

\* The replacements of a deduplicate without chains are taken over.
LEMMA DeduplicatedTInv == IInv /\ TInv /\ Deduplicated /\ NoReplacementChain' => TInv'
<1> SUFFICES ASSUME IInv, TInv, Deduplicated, NoReplacementChain' PROVE TInv'
  OBVIOUS
<1> DEFINE D == DOMAIN replacedTags
           R == tagReplacements
<1>1. /\ level' = level /\ assembly' = assembly /\ settings' = settings
      /\ step = "deduplicated" /\ step' \in {"end", "failed"}
      /\ items' = items
  BY DEF Deduplicated, items
<1>2. /\ items \in Seq(AssemblyItems) /\ UniqueTags(items) /\ LeadBack(items, replacedTags)
  BY ItemsClosed DEF Closed
<1>3. \A t \in D : t \in Tags(items) /\ replacedTags[t] \in Tags(items)
  BY <1>2, LeadElsewhere
<1>4. CASE /\ UNCHANGED <<outside, tagReplacements>>
           /\ \/ UNCHANGED thrown
              \/ thrown' = "Replacement already known." /\ D \cap DOMAIN R # {}
  <2>1. ForeignInv'
    BY <1>1, <1>4 DEF TInv, ForeignInv, Foreign
  <2>2. GoneInv'
    BY <1>1, <1>4 DEF TInv, GoneInv
  <2>3. FailInv'
    <3>1. D \cap DOMAIN R # {} => ~settings.runJumpdestRemover
      BY <1>1, <1>3 DEF TInv, GoneInv
    <3> QED
      BY <1>1, <1>4, <3>1 DEF TInv, FailInv
  <2> QED
    BY <2>1, <2>2, <2>3 DEF TInv
<1>5. CASE /\ D \cap DOMAIN R = {} /\ step' = "end" /\ UNCHANGED thrown
           /\ tagReplacements' = Merged(replacedTags, R)
           /\ outside' = Redirect(outside, replacedTags)
  <2> DEFINE new == Redirect(outside, replacedTags)
             M == Merged(replacedTags, R)
  <2>1. PICK bound \in Nat : \A t \in Tags(items) : t <= bound
    BY <1>2, TagsBounded
  <2>2. D \in SUBSET Nat /\ \A t \in D : t <= bound
    BY <1>2, <1>3, <2>1, TagsBounded
  <2>3. /\ \A x \in new : x \in outside \/ \E t \in D : x = replacedTags[t]
        /\ \A x \in outside \ D : x \in new
        /\ \A x \in outside \cap D : replacedTags[x] \in new \/ replacedTags[x] \in D
        /\ (\A t \in D : replacedTags[t] \notin D) => new \cap D = {}
    BY <2>2, RedirectFacts
  <2> HIDE DEF new
  <2>4. /\ DOMAIN M = D \cup DOMAIN R
        /\ \A t \in D : M[t] = replacedTags[t]
        /\ \A t \in DOMAIN R : M[t] = R[t]
    BY <1>5 DEF Merged
  <2> HIDE DEF M
  <2>5. tagReplacements' = M /\ outside' = new
    BY <1>5 DEF M, new
  <2>6. \A t \in DOMAIN M : M[t] \notin DOMAIN M
    BY <2>5 DEF NoReplacementChain
  <2>7. new \cap D = {}
    BY <2>3, <2>4, <2>6
  <2>8. ForeignInv'
    <3>1. level = "sub" => new \subseteq Tags(assembly.sub)
      <4>1. level = "sub" => items = assembly.sub
        BY DEF items
      <4> QED
        BY <1>3, <2>3, <4>1 DEF TInv, ForeignInv
    <3>2. ASSUME level = "sub", NEW t \in Foreign
          PROVE  t \in new \/ (t \in DOMAIN M /\ (M[t] \in new \/ M[t] \in DOMAIN M))
      <4>1. CASE t \in outside
        BY <2>3, <2>4, <4>1
      <4>2. CASE t \in DOMAIN R /\ R[t] \in outside
        BY <2>3, <2>4, <4>2
      <4>3. CASE t \in DOMAIN R /\ R[t] \in DOMAIN R
        BY <2>4, <4>3
      <4> QED
        BY <3>2, <4>1, <4>2, <4>3 DEF TInv, ForeignInv
    <3>3. Foreign' = Foreign
      BY <1>1 DEF Foreign
    <3> QED
      BY <1>1, <1>5, <2>5, <3>1, <3>2, <3>3 DEF TInv, ForeignInv
  <2>9. GoneInv'
    <3>1. ASSUME settings.runJumpdestRemover
          PROVE  DOMAIN M \cap (referencedTags(items, 0) \cup new) = {}
      <4>1. /\ DOMAIN R \cap (referencedTags(items, 0) \cup outside) = {}
            /\ DOMAIN R \cap Tags(items) = {}
            /\ D \cap referencedTags(items, 0) = {}
        BY <1>1, <3>1 DEF TInv, GoneInv
      <4>2. DOMAIN R \cap new = {}
        BY <1>3, <2>3, <4>1
      <4> QED
        BY <2>4, <2>7, <4>1, <4>2
    <3>2. ASSUME ~settings.runJumpdestRemover
          PROVE  \A t \in DOMAIN M : M[t] \in Tags(items)
      <4>1. \A t \in DOMAIN R : R[t] \in Tags(items)
        BY <3>2 DEF TInv, GoneInv
      <4> QED
        BY <1>3, <2>4, <4>1
    <3> QED
      BY <1>1, <1>5, <2>5, <3>1, <3>2 DEF GoneInv
  <2>10. FailInv'
    BY <1>1, <1>5 DEF TInv, FailInv
  <2> QED
    BY <2>8, <2>9, <2>10 DEF TInv
<1> QED
  BY <1>4, <1>5 DEF Deduplicated

\* The outer assembly applies the replacements of the sub-assembly, once each.
LEMMA EndRoundTInv == IInv /\ TInv /\ EndRound /\ NoReplacementChain => TInv'
<1> SUFFICES ASSUME IInv, TInv, EndRound, NoReplacementChain PROVE TInv'
  OBVIOUS
<1> DEFINE R == tagReplacements
<1>1. step = "end" /\ settings' = settings /\ thrown' = thrown
  BY DEF EndRound
<1>2. FailInv'
  BY <1>1 DEF TInv, FailInv
<1>3. CASE /\ UNCHANGED <<assembly, level, outside, tagReplacements>>
           /\ step' = "jumpdest" \/ (step' = "assemble" /\ level = "outer")
  <2>1. items' = items
    BY <1>3 DEF items
  <2>2. ForeignInv'
    BY <1>3 DEF TInv, ForeignInv, Foreign
  <2>3. GoneInv'
    BY <1>1, <1>3, <2>1 DEF TInv, GoneInv
  <2> QED
    BY <1>2, <2>2, <2>3 DEF TInv
<1>4. CASE /\ level = "sub" /\ level' = "outer" /\ step' = "jumpdest"
           /\ assembly' = [assembly EXCEPT !.outer = applyTagReplacement(assembly.outer, R, Sub)]
           /\ tagReplacements' = NoMap
  <2> DEFINE outer == applyTagReplacement(assembly.outer, R, Sub)
  <2>1. assembly.outer \in Seq(AssemblyItems) /\ \A t \in DOMAIN R : R[t] \in Nat
    BY DEF IInv
  <2>2. \A t \in referencedTags(outer, Sub) : \E u \in Foreign :
           \/ u \notin DOMAIN R /\ t = u
           \/ u \in DOMAIN R /\ t = R[u]
    BY <2>1, ReplacementTags DEF Foreign
  <2> HIDE DEF outer
  <2>3. assembly'.outer = outer /\ assembly'.sub = assembly.sub
    <3>1. assembly' = [assembly EXCEPT !.outer = outer]
      BY <1>4 DEF outer
    <3> QED
      BY <3>1 DEF IInv
  <2>4. outside \subseteq Tags(assembly.sub) /\ items = assembly.sub
    BY <1>4 DEF TInv, ForeignInv, items
  <2>5. ASSUME NEW u \in Foreign, u \in DOMAIN R PROVE R[u] \in Tags(assembly.sub)
    <3>1. CASE settings.runJumpdestRemover
      <4>1. u \notin outside
        BY <2>5, <3>1 DEF TInv, GoneInv
      <4>2. R[u] \notin DOMAIN R
        BY <2>5 DEF NoReplacementChain
      <4>3. R[u] \in outside
        BY <1>4, <4>1, <4>2 DEF TInv, ForeignInv
      <4> QED
        BY <2>4, <4>3
    <3>2. CASE ~settings.runJumpdestRemover
      BY <2>4, <2>5, <3>2 DEF TInv, GoneInv
    <3> QED
      BY <3>1, <3>2
  <2>6. ASSUME NEW u \in Foreign, u \notin DOMAIN R PROVE u \in Tags(assembly.sub)
    BY <1>4, <2>4, <2>6 DEF TInv, ForeignInv
  <2>7. referencedTags(outer, Sub) \subseteq Tags(assembly.sub)
    BY <2>2, <2>5, <2>6
  <2>8. ForeignInv'
    BY <1>4, <2>3, <2>7 DEF ForeignInv, Foreign
  <2>9. DOMAIN tagReplacements' = {}
    BY <1>4 DEF NoMap
  <2>10. GoneInv'
    BY <1>4, <2>9 DEF GoneInv
  <2> QED
    BY <1>2, <2>8, <2>10 DEF TInv
<1> QED
  BY <1>3, <1>4 DEF EndRound

\* Assembly::assemble finds every tag.
LEMMA AssembleTInv == IInv /\ TInv /\ Assemble => TInv'
<1> SUFFICES ASSUME IInv, TInv, Assemble PROVE TInv'
  OBVIOUS
<1>1. /\ UNCHANGED <<assembly, level, outside, tagReplacements, replacedTags, settings>>
      /\ step = "assemble" /\ step' \in {"done", "failed"}
      /\ Dangling(assembly) = {} => thrown' = thrown
      /\ items' = items
  BY DEF Assemble, items
<1>2. level = "outer" /\ Foreign \subseteq Tags(assembly.sub)
  BY <1>1 DEF TInv, ForeignInv
<1>3. Dangling(assembly) = {}
  BY <1>2 DEF Dangling, Foreign, IInv, OwnReferencesHavePositions
<1>4. ForeignInv'
  BY <1>1 DEF TInv, ForeignInv, Foreign
<1>5. GoneInv'
  BY <1>1 DEF TInv, GoneInv
<1>6. FailInv'
  BY <1>1, <1>3 DEF TInv, FailInv
<1> QED
  BY <1>4, <1>5, <1>6 DEF TInv

LEMMA StutterTInv == TInv /\ UNCHANGED vars => TInv'
  BY DEF TInv, ForeignInv, GoneInv, FailInv, Foreign, items, vars

\* Whatever the assemblies, the settings and the number of rounds: as long as no tag
\* gives way to one that gives way itself, Assembly::assemble finds a position for
\* every tag that is pushed, those of the sub-assembly in the outer one included,
\* and, with the jumpdest remover on, BlockDeduplicator never replaces a tag that
\* an earlier round has replaced.
THEOREM OnlyChainsFail == Spec => FailsOnlyByChains
<1>1. IInv /\ TInv /\ NoReplacementChain /\ NoReplacementChain' /\ [Next]_vars => TInv'
  BY RemoveJumpdestsTInv, PeepholeTInv, DeduplicateIterationTInv, DeduplicatedTInv,
     EndRoundTInv, AssembleTInv, StutterTInv DEF Next, Terminated
<1>2. TInv => (thrown # "" =>
                  thrown = "Replacement already known." /\ ~settings.runJumpdestRemover)
  BY DEF TInv, FailInv
<1> QED
  BY AssemblyInvariant, InitTInv, <1>1, <1>2, PTL DEF Spec, FailsOnlyByChains

=============================================================================
