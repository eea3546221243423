------------------------ MODULE ContractLayoutProofs ------------------------
(***************************************************************************)
(* What the linearisation of bases and the layout of storage promise, for  *)
(* any contracts and any sizes.                                            *)
(*                                                                         *)
(* Both are recursive functions of the number of steps.  Their equations   *)
(* are proved by induction, from the least number for which a set of steps *)
(* fails, and then an invariant of the steps: for the merge, that whatever *)
(* is before a taken element in some list was taken before it; for the     *)
(* layout, that all objects end before the first free byte.                *)
(***************************************************************************)
EXTENDS ContractLayout, WellFoundedInduction, FiniteSetTheorems, TLAPS

LEMMA LeastNatural ==
    ASSUME NEW T \in SUBSET Nat, T # {}
    PROVE  \E x \in T : \A y \in T : x <= y
<1> DEFINE less == {pair \in Nat \X Nat : pair[1] < pair[2]}
<1>1. IsWellFoundedOn(less, Nat)
  BY NatLessThanWellFounded, Zenon DEF OpToRel
<1>2. PICK x \in T : \A y \in T : ~ (<<y, x>> \in less)
  BY <1>1, WFMin, Zenon
<1>3. ASSUME NEW y \in T  PROVE  x <= y
  <2>1. x \in Nat /\ y \in Nat /\ ~ (<<y, x>> \in less)
    BY <1>2
  <2> QED  BY <2>1
<1> QED  BY <1>3

LEMMA MinOfNaturals ==
    ASSUME NEW T \in SUBSET Nat, T # {}
    PROVE  Min(T) \in T /\ \A y \in T : Min(T) <= y
<1>1. \E x \in T : \A y \in T : x <= y
  BY LeastNatural
<1> QED  BY <1>1, Zenon DEF Min

\* Induction over the natural numbers, for the set of those that have a property.
LEMMA InductionBySet ==
    ASSUME NEW S \in SUBSET Nat, 0 \in S, \A n \in S : n + 1 \in S
    PROVE  S = Nat
<1> SUFFICES ASSUME Nat \ S # {} PROVE FALSE
  OBVIOUS
<1>1. PICK x \in Nat \ S : \A y \in Nat \ S : x <= y
  BY LeastNatural
<1>2. x # 0 /\ x - 1 \in Nat /\ (x - 1) + 1 = x
  OBVIOUS
<1>3. x - 1 \in S
  BY <1>1, <1>2
<1> QED  BY <1>2, <1>3

\* Append, in the terms of ToSet.
LEMMA AppendFacts ==
    ASSUME NEW C, NEW s \in Seq(C), NEW c \in C
    PROVE  /\ Append(s, c) \in Seq(C)
           /\ DOMAIN s = 1..Len(s) /\ Len(s) \in Nat
           /\ Len(Append(s, c)) = Len(s) + 1
           /\ DOMAIN Append(s, c) = 1..(Len(s) + 1)
           /\ Append(s, c)[Len(s) + 1] = c
           /\ \A i \in DOMAIN s : Append(s, c)[i] = s[i]
           /\ ToSet(Append(s, c)) = ToSet(s) \cup {c}
<1>1. /\ Append(s, c) \in Seq(C)
      /\ DOMAIN s = 1..Len(s) /\ Len(s) \in Nat
      /\ Len(Append(s, c)) = Len(s) + 1
      /\ DOMAIN Append(s, c) = 1..(Len(s) + 1)
      /\ Append(s, c)[Len(s) + 1] = c
      /\ \A i \in DOMAIN s : Append(s, c)[i] = s[i]
  OBVIOUS
<1>2. \A i \in 1..(Len(s) + 1) : i \in DOMAIN s \/ i = Len(s) + 1
  BY <1>1
<1>3. ToSet(Append(s, c)) \subseteq ToSet(s) \cup {c}
  BY <1>1, <1>2 DEF ToSet
<1>4. ToSet(s) \cup {c} \subseteq ToSet(Append(s, c))
  BY <1>1 DEF ToSet
<1> QED  BY <1>1, <1>3, <1>4

-----------------------------------------------------------------------------
(* The steps of cThreeMerge *)

\* Values of the recursive function up to step n
Steps(toMerge, f, n) ==
    [i \in 0..n |-> IF i = 0 THEN << >> ELSE mergeStep(toMerge, f[i - 1])]

LEMMA StepsExist ==
    ASSUME NEW toMerge, NEW n \in Nat
    PROVE  \E f : f = Steps(toMerge, f, n)
<1> DEFINE S == {m \in Nat : \E f : f = Steps(toMerge, f, m)}
<1>1. 0 \in S
  <2> DEFINE f == [i \in 0..0 |-> << >>]
  <2>1. f = Steps(toMerge, f, 0)
    BY DEF Steps
  <2> QED  BY <2>1
<1>2. ASSUME NEW m \in S  PROVE  m + 1 \in S
  <2>1. PICK f : f = Steps(toMerge, f, m)
    OBVIOUS
  <2> DEFINE g == [i \in 0..(m + 1) |-> IF i = m + 1 THEN mergeStep(toMerge, f[m]) ELSE f[i]]
  <2>2. \A i \in 0..m : f[i] = IF i = 0 THEN << >> ELSE mergeStep(toMerge, f[i - 1])
    BY <2>1 DEF Steps
  <2>3. ASSUME NEW i \in 0..(m + 1)
        PROVE  g[i] = IF i = 0 THEN << >> ELSE mergeStep(toMerge, g[i - 1])
    <3>1. CASE i = m + 1
      <4>1. i # 0 /\ i - 1 = m /\ m \in 0..(m + 1) /\ m # m + 1
        BY <3>1
      <4>2. g[i - 1] = f[m] /\ g[i] = mergeStep(toMerge, f[m])
        BY <3>1, <4>1
      <4> QED  BY <4>1, <4>2
    <3>2. CASE i # m + 1
      <4>1. i \in 0..m /\ (i # 0 => i - 1 \in 0..(m + 1) /\ i - 1 # m + 1)
        BY <3>2
      <4>2. g[i] = f[i] /\ (i # 0 => g[i - 1] = f[i - 1])
        BY <3>2, <4>1
      <4> HIDE DEF g
      <4> QED  BY <2>2, <4>1, <4>2
    <3> QED  BY <3>1, <3>2
  <2>4. g = Steps(toMerge, g, m + 1)
    <3> HIDE DEF g
    <3>1. DOMAIN g = 0..(m + 1) /\ g = [i \in DOMAIN g |-> g[i]]
      BY DEF g
    <3> QED  BY <2>3, <3>1 DEF Steps
  <2> QED  BY <2>4
<1>3. S = Nat
  <2> HIDE DEF S
  <2> QED  BY <1>1, <1>2, InductionBySet DEF S
<1> QED  BY <1>3

LEMMA MergeRecursion ==
    ASSUME NEW toMerge, Cardinality(Elements(toMerge)) \in Nat
    PROVE  \E f : LET n == Cardinality(Elements(toMerge)) IN
              /\ f[0] = << >>
              /\ \A i \in 1..n : f[i] = mergeStep(toMerge, f[i - 1])
              /\ cThreeMerge(toMerge) =
                    IF ToSet(f[n]) = Elements(toMerge) THEN f[n] ELSE << >>
<1> DEFINE n == Cardinality(Elements(toMerge))
           g == CHOOSE f : f = [i \in 0..n |-> IF i = 0 THEN << >> ELSE mergeStep(toMerge, f[i - 1])]
<1>1. g = [i \in 0..n |-> IF i = 0 THEN << >> ELSE mergeStep(toMerge, g[i - 1])]
  <2>1. \E f : f = [i \in 0..n |-> IF i = 0 THEN << >> ELSE mergeStep(toMerge, f[i - 1])]
    BY StepsExist DEF Steps
  <2> HIDE DEF n
  <2> QED  BY <2>1
<1>2. cThreeMerge(toMerge) = IF ToSet(g[n]) = Elements(toMerge) THEN g[n] ELSE << >>
  BY DEF cThreeMerge
<1> HIDE DEF g, n
<1>3. n \in Nat
  BY DEF n
<1>4. g[0] = << >> /\ \A i \in 1..n : g[i] = mergeStep(toMerge, g[i - 1])
  BY <1>1, <1>3
<1> QED  BY <1>2, <1>4 DEF n

\* Everything before a taken element, in each of the lists, was taken before it.
MergeInv(toMerge, taken) ==
    /\ IsInjective(taken)
    /\ ToSet(taken) \subseteq Elements(toMerge)
    /\ IsFiniteSet(ToSet(taken)) /\ Cardinality(ToSet(taken)) = Len(taken)
    /\ \A k \in DOMAIN toMerge : \A i, j \in DOMAIN toMerge[k] :
          i < j /\ toMerge[k][j] \in ToSet(taken)
              => Precedes(taken, toMerge[k][i], toMerge[k][j])

\* What remains of a list has a first place.
LEMMA FirstFacts ==
    ASSUME NEW C, NEW list \in Seq(C), NEW taken, Remaining(list, taken) # {}
    PROVE  /\ First(list, taken) \in DOMAIN list
           /\ list[First(list, taken)] \in C
           /\ list[First(list, taken)] \notin ToSet(taken)
           /\ \A i \in Remaining(list, taken) : First(list, taken) <= i
<1>1. Remaining(list, taken) \in SUBSET Nat
  BY DEF Remaining
<1>2. /\ First(list, taken) \in Remaining(list, taken)
      /\ \A i \in Remaining(list, taken) : First(list, taken) <= i
  BY <1>1, MinOfNaturals DEF First
<1>3. First(list, taken) \in DOMAIN list /\ list[First(list, taken)] \notin ToSet(taken)
  BY <1>2 DEF Remaining
<1> QED  BY <1>2, <1>3

\* A step either finds no candidate or appends one that is at the head of every list
\* that still has it.
LEMMA StepFacts ==
    ASSUME NEW C, NEW toMerge \in Seq(Seq(C)), NEW taken \in Seq(C)
    PROVE  \/ /\ nextCandidates(toMerge, taken) = {}
              /\ mergeStep(toMerge, taken) = taken
           \/ \E c \in C :
                 /\ c \in Elements(toMerge) /\ c \notin ToSet(taken)
                 /\ appearsOnlyAtHead(c, toMerge, taken)
                 /\ mergeStep(toMerge, taken) = Append(taken, c)
<1>1. CASE nextCandidates(toMerge, taken) = {}
  BY <1>1 DEF mergeStep
<1>2. CASE nextCandidates(toMerge, taken) # {}
  <2> DEFINE k == Min(nextCandidates(toMerge, taken))
             c == toMerge[k][First(toMerge[k], taken)]
  <2>1. nextCandidates(toMerge, taken) \in SUBSET Nat
    BY DEF nextCandidates
  <2>2. k \in nextCandidates(toMerge, taken)
    BY <1>2, <2>1, MinOfNaturals
  <2>3. /\ k \in DOMAIN toMerge /\ Remaining(toMerge[k], taken) # {}
        /\ appearsOnlyAtHead(c, toMerge, taken)
    BY <2>2 DEF nextCandidates
  <2>4. mergeStep(toMerge, taken) = Append(taken, c)
    BY <1>2 DEF mergeStep
  <2> HIDE DEF k
  <2>5. toMerge[k] \in Seq(C)
    BY <2>3
  <2>6. /\ First(toMerge[k], taken) \in DOMAIN toMerge[k]
        /\ c \in C /\ c \notin ToSet(taken)
    BY <2>3, <2>5, FirstFacts
  <2>7. c \in ToSet(toMerge[k])
    BY <2>6 DEF ToSet
  <2>8. c \in Elements(toMerge)
    BY <2>3, <2>7 DEF Elements
  <2> QED  BY <2>3, <2>4, <2>6, <2>8
<1> QED  BY <1>1, <1>2

LEMMA StepKeepsMergeInv ==
    ASSUME NEW C, NEW toMerge \in Seq(Seq(C)), NEW taken \in Seq(C),
           MergeInv(toMerge, taken), NEW c \in C,
           c \in Elements(toMerge), c \notin ToSet(taken),
           appearsOnlyAtHead(c, toMerge, taken)
    PROVE  MergeInv(toMerge, Append(taken, c))
<1> DEFINE new == Append(taken, c)
           last == Len(taken) + 1
<1>1. /\ new \in Seq(C)
      /\ DOMAIN taken = 1..Len(taken) /\ Len(taken) \in Nat
      /\ Len(new) = last
      /\ DOMAIN new = 1..last
      /\ new[last] = c
      /\ \A i \in DOMAIN taken : new[i] = taken[i]
      /\ ToSet(new) = ToSet(taken) \cup {c}
  BY AppendFacts
<1>2. /\ IsInjective(taken)
      /\ ToSet(taken) \subseteq Elements(toMerge)
      /\ IsFiniteSet(ToSet(taken)) /\ Cardinality(ToSet(taken)) = Len(taken)
  BY DEF MergeInv
<1>3. \A k \in DOMAIN toMerge : \A i, j \in DOMAIN toMerge[k] :
          i < j /\ toMerge[k][j] \in ToSet(taken)
              => Precedes(taken, toMerge[k][i], toMerge[k][j])
  BY DEF MergeInv
<1> HIDE DEF new
<1>4. \A i \in DOMAIN taken : taken[i] # c
  BY DEF ToSet
<1>5. IsInjective(new)
  <2> SUFFICES ASSUME NEW a \in DOMAIN new, NEW b \in DOMAIN new, new[a] = new[b]
               PROVE  a = b
    BY DEF IsInjective
  <2>1. (a \in DOMAIN taken \/ a = last) /\ (b \in DOMAIN taken \/ b = last)
    BY <1>1
  <2>2. CASE a \in DOMAIN taken /\ b \in DOMAIN taken
    BY <1>1, <1>2, <2>2 DEF IsInjective
  <2> QED  BY <1>1, <1>4, <2>1, <2>2
<1>6. /\ IsFiniteSet(ToSet(new)) /\ Cardinality(ToSet(new)) = Len(new)
      /\ ToSet(new) \subseteq Elements(toMerge)
  BY <1>1, <1>2, FS_AddElement
<1>7. ASSUME NEW a, NEW b, Precedes(taken, a, b)  PROVE Precedes(new, a, b)
  <2>1. PICK i, j \in DOMAIN taken : i < j /\ taken[i] = a /\ taken[j] = b
    BY <1>7 DEF Precedes
  <2>2. i \in DOMAIN new /\ j \in DOMAIN new /\ new[i] = a /\ new[j] = b
    BY <1>1, <2>1
  <2> QED  BY <2>1, <2>2 DEF Precedes
<1>8. ASSUME NEW k \in DOMAIN toMerge, NEW i \in DOMAIN toMerge[k],
             NEW j \in DOMAIN toMerge[k], i < j, toMerge[k][j] \in ToSet(new)
      PROVE  Precedes(new, toMerge[k][i], toMerge[k][j])
  <2>1. CASE toMerge[k][j] \in ToSet(taken)
    BY <1>3, <1>7, <1>8, <2>1
  <2>2. CASE toMerge[k][j] = c
    <3>1. toMerge[k] \in Seq(C) /\ i \in Nat /\ j \in Nat
      OBVIOUS
    <3>2. j \in Remaining(toMerge[k], taken)
      BY <2>2 DEF Remaining
    <3>3. j = First(toMerge[k], taken)
      BY <2>2, <3>2 DEF appearsOnlyAtHead
    <3>4. \A m \in Remaining(toMerge[k], taken) : j <= m
      BY <3>1, <3>2, <3>3, FirstFacts
    <3>5. i \notin Remaining(toMerge[k], taken)
      BY <1>8, <3>1, <3>4
    <3>6. PICK x \in DOMAIN taken : taken[x] = toMerge[k][i]
      BY <3>5 DEF Remaining, ToSet
    <3>7. /\ x \in DOMAIN new /\ last \in DOMAIN new /\ x < last
          /\ new[x] = toMerge[k][i] /\ new[last] = toMerge[k][j]
      BY <1>1, <2>2, <3>6
    <3> QED  BY <3>7 DEF Precedes
  <2> QED  BY <1>1, <1>8, <2>1, <2>2
<1> QED  BY <1>5, <1>6, <1>8 DEF MergeInv, new

\* After every step the invariant holds, and unless the loop has stopped each step
\* has taken one element.
LEMMA MergeInvariant ==
    ASSUME NEW C, IsFiniteSet(C), NEW toMerge \in Seq(Seq(C)),
           NEW n \in Nat, NEW f, f[0] = << >>,
           \A i \in 1..n : f[i] = mergeStep(toMerge, f[i - 1])
    PROVE  \A i \in 0..n : /\ f[i] \in Seq(C) /\ MergeInv(toMerge, f[i])
                           /\ Len(f[i]) = i \/ nextCandidates(toMerge, f[i]) = {}
<1> DEFINE Good(i) == /\ f[i] \in Seq(C) /\ MergeInv(toMerge, f[i])
                      /\ Len(f[i]) = i \/ nextCandidates(toMerge, f[i]) = {}
           S == {m \in Nat : m <= n => Good(m)}
<1>1. Good(0)
  <2>1. << >> \in Seq(C) /\ Len(<< >>) = 0 /\ DOMAIN << >> = {}
    OBVIOUS
  <2>2. ToSet(<< >>) = {}
    BY <2>1 DEF ToSet
  <2>3. MergeInv(toMerge, << >>)
    BY <2>1, <2>2, FS_EmptySet DEF MergeInv, IsInjective
  <2> QED  BY <2>1, <2>3
<1>2. ASSUME NEW m \in S  PROVE  m + 1 \in S
  <2> SUFFICES ASSUME m + 1 <= n  PROVE Good(m + 1)
    OBVIOUS
  <2>1. Good(m) /\ f[m + 1] = mergeStep(toMerge, f[m])
    <3>1. m \in Nat /\ (m <= n => Good(m))
      BY Zenon
    <3> HIDE DEF S, Good
    <3>2. m <= n /\ m + 1 \in 1..n /\ (m + 1) - 1 = m
      BY <3>1
    <3> QED  BY <3>1, <3>2
  <2>2. CASE nextCandidates(toMerge, f[m]) = {} /\ mergeStep(toMerge, f[m]) = f[m]
    BY <2>1, <2>2
  <2>3. CASE \E c \in C :
                 /\ c \in Elements(toMerge) /\ c \notin ToSet(f[m])
                 /\ appearsOnlyAtHead(c, toMerge, f[m])
                 /\ mergeStep(toMerge, f[m]) = Append(f[m], c)
    <3>1. PICK c \in C :
                 /\ c \in Elements(toMerge) /\ c \notin ToSet(f[m])
                 /\ appearsOnlyAtHead(c, toMerge, f[m])
                 /\ mergeStep(toMerge, f[m]) = Append(f[m], c)
      BY <2>3
    <3>2. MergeInv(toMerge, Append(f[m], c))
      BY <2>1, <3>1, StepKeepsMergeInv
    <3>3. Append(f[m], c) \in Seq(C) /\ Len(Append(f[m], c)) = Len(f[m]) + 1
      BY <2>1, AppendFacts
    <3>4. nextCandidates(toMerge, f[m]) # {}
      <4> SUFFICES ASSUME nextCandidates(toMerge, f[m]) = {}  PROVE FALSE
        OBVIOUS
      <4>1. Append(f[m], c) = f[m]
        BY <3>1 DEF mergeStep
      <4> QED  BY <2>1, <3>3, <4>1
    <3> QED  BY <2>1, <3>1, <3>2, <3>3, <3>4
  <2> QED  BY <2>1, <2>2, <2>3, StepFacts
<1>3. S = Nat
  <2>1. 0 \in S
    BY <1>1
  <2> HIDE DEF S
  <2> QED  BY <1>2, <2>1, InductionBySet DEF S
<1>4. ASSUME NEW i \in 0..n  PROVE Good(i)
  <2>1. i \in Nat /\ i <= n
    OBVIOUS
  <2>2. i \in S
    <3> HIDE DEF S
    <3> QED  BY <1>3, <2>1
  <2> QED  BY <2>1, <2>2, Zenon
<1> QED  BY <1>4

-----------------------------------------------------------------------------
(* cThreeMerge *)

\* Lists are compatible if they are parts of one list without repetition.
IsCommonOrder(list, toMerge) ==
    /\ IsInjective(list)
    /\ Elements(toMerge) \subseteq ToSet(list)
    /\ \A k \in DOMAIN toMerge : \A i, j \in DOMAIN toMerge[k] :
          i < j => Precedes(list, toMerge[k][i], toMerge[k][j])

LEMMA ElementsFacts ==
    ASSUME NEW C, IsFiniteSet(C), NEW toMerge \in Seq(Seq(C))
    PROVE  /\ Elements(toMerge) \subseteq C
           /\ IsFiniteSet(Elements(toMerge)) /\ Cardinality(Elements(toMerge)) \in Nat
           /\ \A k \in DOMAIN toMerge : \A i \in DOMAIN toMerge[k] :
                 toMerge[k][i] \in Elements(toMerge)
<1>1. ASSUME NEW k \in DOMAIN toMerge, NEW i \in DOMAIN toMerge[k]
      PROVE  toMerge[k][i] \in C /\ toMerge[k][i] \in ToSet(toMerge[k])
  <2>1. toMerge[k] \in Seq(C)
    OBVIOUS
  <2> QED  BY <2>1 DEF ToSet
<1>2. Elements(toMerge) \in SUBSET C
  BY <1>1 DEF Elements, ToSet
<1>3. IsFiniteSet(Elements(toMerge))
  BY <1>2, FS_Subset
<1>4. Cardinality(Elements(toMerge)) \in Nat
  BY <1>3, FS_CardinalityType
<1> QED  BY <1>1, <1>2, <1>3, <1>4 DEF Elements

(* NameAndTypeResolver::cThreeMerge: a result that is not empty has every element *)
(* of the lists once and keeps the order of each of them.                         *)
THEOREM MergeKeepsEveryOrder ==
    ASSUME NEW C, IsFiniteSet(C), NEW toMerge \in Seq(Seq(C)),
           cThreeMerge(toMerge) # << >>
    PROVE  /\ cThreeMerge(toMerge) \in Seq(C)
           /\ ToSet(cThreeMerge(toMerge)) = Elements(toMerge)
           /\ IsCommonOrder(cThreeMerge(toMerge), toMerge)
<1> DEFINE n == Cardinality(Elements(toMerge))
           result == cThreeMerge(toMerge)
<1>1. n \in Nat
  BY ElementsFacts
<1>2. PICK f : /\ f[0] = << >>
               /\ \A i \in 1..n : f[i] = mergeStep(toMerge, f[i - 1])
               /\ result = IF ToSet(f[n]) = Elements(toMerge) THEN f[n] ELSE << >>
  BY <1>1, MergeRecursion
<1> HIDE DEF n
<1>3. f[n] \in Seq(C) /\ MergeInv(toMerge, f[n])
  BY <1>1, <1>2, MergeInvariant
<1>4. result = f[n] /\ ToSet(f[n]) = Elements(toMerge)
  BY <1>2
<1> HIDE DEF result
<1>5. ASSUME NEW k \in DOMAIN toMerge, NEW i \in DOMAIN toMerge[k],
             NEW j \in DOMAIN toMerge[k], i < j
      PROVE  Precedes(f[n], toMerge[k][i], toMerge[k][j])
  <2>1. toMerge[k][j] \in ToSet(f[n])
    BY <1>4, ElementsFacts
  <2> QED  BY <1>3, <1>5, <2>1 DEF MergeInv
<1>6. IsInjective(f[n])
  BY <1>3 DEF MergeInv
<1>7. IsCommonOrder(f[n], toMerge)
  BY <1>4, <1>5, <1>6 DEF IsCommonOrder
<1> QED  BY <1>3, <1>4, <1>7 DEF result

\* As long as elements of compatible lists remain, the first of them in a common order
\* is a candidate.
LEMMA CandidateExists ==
    ASSUME NEW C, IsFiniteSet(C), NEW toMerge \in Seq(Seq(C)), NEW taken \in Seq(C),
           NEW order \in Seq(C), IsCommonOrder(order, toMerge),
           ~ (Elements(toMerge) \subseteq ToSet(taken))
    PROVE  nextCandidates(toMerge, taken) # {}
<1> DEFINE T == {x \in DOMAIN order : order[x] \in Elements(toMerge) \ ToSet(taken)}
<1>1. T \in SUBSET Nat
  OBVIOUS
<1>2. T # {}
  <2>1. PICK e \in Elements(toMerge) : e \notin ToSet(taken)
    OBVIOUS
  <2>2. e \in ToSet(order)
    BY DEF IsCommonOrder
  <2>3. PICK x \in DOMAIN order : order[x] = e
    BY <2>2 DEF ToSet
  <2> QED  BY <2>1, <2>3
<1>3. PICK x \in T : \A y \in T : x <= y
  BY <1>1, <1>2, LeastNatural
<1> DEFINE c == order[x]
<1>4. x \in DOMAIN order /\ x \in Nat /\ c \in Elements(toMerge) /\ c \notin ToSet(taken)
  BY <1>1
<1> HIDE DEF c
<1>5. ASSUME NEW k \in DOMAIN toMerge, NEW i \in Remaining(toMerge[k], taken),
             toMerge[k][i] = c
      PROVE  i = First(toMerge[k], taken)
  <2> DEFINE h == First(toMerge[k], taken)
  <2>1. toMerge[k] \in Seq(C) /\ i \in DOMAIN toMerge[k] /\ i \in Nat
    BY DEF Remaining
  <2>2. /\ h \in DOMAIN toMerge[k] /\ h \in Nat
        /\ toMerge[k][h] \notin ToSet(taken) /\ h <= i
    BY <2>1, FirstFacts
  <2> HIDE DEF h
  <2>3. CASE h < i
    <3>1. Precedes(order, toMerge[k][h], c)
      BY <1>5, <2>1, <2>2, <2>3 DEF IsCommonOrder
    <3>2. PICK y, z \in DOMAIN order : y < z /\ order[y] = toMerge[k][h] /\ order[z] = c
      BY <3>1 DEF Precedes
    <3>3. z = x
      BY <1>4, <3>2 DEF IsCommonOrder, IsInjective, c
    <3>4. toMerge[k][h] \in Elements(toMerge)
      BY <2>2, ElementsFacts
    <3>5. y \in T
      BY <2>2, <3>2, <3>4
    <3>6. y \in Nat /\ x <= y
      BY <1>3, <3>5
    <3> QED  BY <1>4, <3>2, <3>3, <3>6
  <2> QED  BY <2>1, <2>2, <2>3 DEF h
<1>6. appearsOnlyAtHead(c, toMerge, taken)
  BY <1>5 DEF appearsOnlyAtHead
<1>7. PICK k \in DOMAIN toMerge : c \in ToSet(toMerge[k])
  BY <1>4 DEF Elements
<1>8. PICK i \in DOMAIN toMerge[k] : toMerge[k][i] = c
  BY <1>7 DEF ToSet
<1>9. i \in Remaining(toMerge[k], taken)
  BY <1>4, <1>8 DEF Remaining
<1>10. toMerge[k][First(toMerge[k], taken)] = c
  BY <1>5, <1>8, <1>9
<1>11. k \in nextCandidates(toMerge, taken)
  BY <1>6, <1>9, <1>10 DEF nextCandidates
<1> QED  BY <1>11

(* NameAndTypeResolver::cThreeMerge gives up only if no order keeps all the lists: *)
(* the message "Linearization of inheritance graph impossible" is true.            *)
THEOREM MergeFailsOnlyIfImpossible ==
    ASSUME NEW C, IsFiniteSet(C), NEW toMerge \in Seq(Seq(C)),
           NEW order \in Seq(C), IsCommonOrder(order, toMerge)
    PROVE  ToSet(cThreeMerge(toMerge)) = Elements(toMerge)
<1> DEFINE n == Cardinality(Elements(toMerge))
           result == cThreeMerge(toMerge)
<1>1. n \in Nat
  BY ElementsFacts
<1>2. PICK f : /\ f[0] = << >>
               /\ \A i \in 1..n : f[i] = mergeStep(toMerge, f[i - 1])
               /\ result = IF ToSet(f[n]) = Elements(toMerge) THEN f[n] ELSE << >>
  BY <1>1, MergeRecursion
<1>3. /\ f[n] \in Seq(C) /\ MergeInv(toMerge, f[n])
      /\ Len(f[n]) = n \/ nextCandidates(toMerge, f[n]) = {}
  <2> HIDE DEF n, result
  <2>1. n \in 0..n
    BY <1>1
  <2> QED  BY <1>1, <1>2, <2>1, MergeInvariant
<1>4. /\ ToSet(f[n]) \in SUBSET Elements(toMerge)
      /\ Cardinality(ToSet(f[n])) = Len(f[n])
  BY <1>3 DEF MergeInv
<1>5. CASE Len(f[n]) = n
  <2>1. ToSet(f[n]) = Elements(toMerge)
    BY <1>4, <1>5, ElementsFacts, FS_Subset
  <2> QED  BY <1>2, <2>1
<1>6. CASE nextCandidates(toMerge, f[n]) = {}
  <2>1. Elements(toMerge) \subseteq ToSet(f[n])
    BY <1>3, <1>6, CandidateExists
  <2>2. ToSet(f[n]) = Elements(toMerge)
    BY <1>4, <2>1
  <2> QED  BY <1>2, <2>2
<1> QED  BY <1>3, <1>5, <1>6

-----------------------------------------------------------------------------
(* linearizeBaseContracts *)

\* The lists that linearizeBaseContracts has merged
Input(contract, direct, bases) ==
    LET input == Reverse(direct)
    IN [i \in DOMAIN input |-> bases[input[i]]] \o <<<<contract>> \o input>>

\* The bases have been linearised before, each at the head of its list, and the
\* contract is none of them.
BasesAreLinearized(C, contract, direct, bases) ==
    \A k \in DOMAIN direct :
        /\ bases[direct[k]] \in Seq(C) /\ bases[direct[k]] # << >>
        /\ Head(bases[direct[k]]) = direct[k]
        /\ contract \notin ToSet(bases[direct[k]])

LEMMA InputFacts ==
    ASSUME NEW C, NEW contract \in C, NEW direct \in Seq(C), NEW bases,
           BasesAreLinearized(C, contract, direct, bases)
    PROVE  LET n == Len(direct)
               toMerge == Input(contract, direct, bases)
           IN /\ linearization(contract, direct, bases) = cThreeMerge(toMerge)
              /\ n \in Nat /\ DOMAIN direct = 1..n
              /\ toMerge \in Seq(Seq(C)) /\ DOMAIN toMerge = 1..(n + 1)
              /\ \A k \in 1..n : toMerge[k] = bases[direct[n - k + 1]]
              /\ DOMAIN toMerge[n + 1] = 1..(n + 1)
              /\ toMerge[n + 1][1] = contract
              /\ \A i \in 2..(n + 1) : toMerge[n + 1][i] = direct[n - i + 2]
<1> DEFINE n == Len(direct)
           input == Reverse(direct)
           lists == [i \in DOMAIN input |-> bases[input[i]]]
           last == <<contract>> \o input
<1>1. n \in Nat /\ DOMAIN direct = 1..n /\ \A i \in 1..n : direct[i] \in C
  OBVIOUS
<1>2. /\ DOMAIN input = 1..n
      /\ \A i \in 1..n : n - i + 1 \in 1..n /\ input[i] = direct[n - i + 1]
  BY <1>1 DEF Reverse
<1>3. input \in Seq(C) /\ Len(input) = n
  BY <1>1, <1>2 DEF Reverse
<1>4. ASSUME NEW i \in 1..n
      PROVE  lists[i] = bases[direct[n - i + 1]] /\ lists[i] \in Seq(C)
  BY <1>1, <1>2 DEF BasesAreLinearized
<1>5. lists \in Seq(Seq(C)) /\ Len(lists) = n
  <2>1. lists = [i \in 1..n |-> lists[i]]
    BY <1>2
  <2> HIDE DEF lists, n
  <2> QED  BY <1>1, <1>4, <2>1
<1> HIDE DEF n, input, lists
<1>6. /\ last \in Seq(C) /\ DOMAIN last = 1..(n + 1)
      /\ last[1] = contract
      /\ \A i \in 2..(n + 1) : last[i] = input[i - 1]
  BY <1>1, <1>3
<1>7. \A i \in 2..(n + 1) : last[i] = direct[n - i + 2]
  <2> TAKE i \in 2..(n + 1)
  <2>1. i - 1 \in 1..n /\ n - (i - 1) + 1 = n - i + 2
    BY <1>1
  <2> QED  BY <1>2, <1>6, <2>1
<1> HIDE DEF last
<1>8. /\ lists \o <<last>> \in Seq(Seq(C))
      /\ DOMAIN (lists \o <<last>>) = 1..(n + 1)
      /\ \A i \in 1..n : (lists \o <<last>>)[i] = lists[i]
      /\ (lists \o <<last>>)[n + 1] = last
  BY <1>1, <1>5, <1>6
<1>9. Input(contract, direct, bases) = lists \o <<last>>
  BY DEF Input, lists, last, input
<1>10. linearization(contract, direct, bases) = cThreeMerge(Input(contract, direct, bases))
  BY DEF linearization, Input
<1> QED  BY <1>1, <1>4, <1>6, <1>7, <1>8, <1>9, <1>10 DEF n

LEMMA InputElements ==
    ASSUME NEW C, IsFiniteSet(C), NEW contract \in C, NEW direct \in Seq(C), NEW bases,
           BasesAreLinearized(C, contract, direct, bases)
    PROVE  Elements(Input(contract, direct, bases)) =
                {contract} \cup UNION {ToSet(bases[direct[i]]) : i \in DOMAIN direct}
<1> DEFINE n == Len(direct)
           toMerge == Input(contract, direct, bases)
           all == {contract} \cup UNION {ToSet(bases[direct[i]]) : i \in DOMAIN direct}
<1>1. /\ n \in Nat /\ DOMAIN direct = 1..n
      /\ toMerge \in Seq(Seq(C)) /\ DOMAIN toMerge = 1..(n + 1)
      /\ \A k \in 1..n : toMerge[k] = bases[direct[n - k + 1]]
      /\ DOMAIN toMerge[n + 1] = 1..(n + 1)
      /\ toMerge[n + 1][1] = contract
      /\ \A i \in 2..(n + 1) : toMerge[n + 1][i] = direct[n - i + 2]
  BY InputFacts
<1> HIDE DEF n, toMerge
<1>2. ASSUME NEW k \in 1..n  PROVE  direct[k] \in ToSet(bases[direct[k]])
  <2>1. /\ bases[direct[k]] \in Seq(C) /\ bases[direct[k]] # << >>
        /\ Head(bases[direct[k]]) = direct[k]
    BY <1>1 DEF BasesAreLinearized
  <2>2. 1 \in DOMAIN bases[direct[k]] /\ bases[direct[k]][1] = direct[k]
    BY <2>1
  <2> QED  BY <2>2 DEF ToSet
<1>3. Elements(toMerge) \subseteq all
  <2> SUFFICES ASSUME NEW k \in DOMAIN toMerge, NEW i \in DOMAIN toMerge[k]
               PROVE  toMerge[k][i] \in all
    BY DEF Elements, ToSet
  <2>1. CASE k \in 1..n
    <3>1. n - k + 1 \in DOMAIN direct /\ toMerge[k] = bases[direct[n - k + 1]]
      BY <1>1, <2>1
    <3>2. toMerge[k][i] \in ToSet(bases[direct[n - k + 1]])
      BY <3>1 DEF ToSet
    <3> QED  BY <3>1, <3>2
  <2>2. CASE k = n + 1 /\ i = 1
    BY <1>1, <2>2
  <2>3. CASE k = n + 1 /\ i # 1
    <3>1. i \in 2..(n + 1) /\ n - i + 2 \in 1..n
      <4>1. n \in Nat /\ i \in 1..(n + 1) /\ i # 1
        BY <1>1, <2>3
      <4> QED  BY <4>1
    <3>2. toMerge[n + 1][i] = direct[n - i + 2]
      BY <1>1, <3>1
    <3>3. direct[n - i + 2] \in ToSet(bases[direct[n - i + 2]]) /\ n - i + 2 \in DOMAIN direct
      BY <1>1, <1>2, <3>1
    <3>4. direct[n - i + 2] \in all
      BY <3>3
    <3> QED  BY <2>3, <3>2, <3>4
  <2> QED  BY <1>1, <2>1, <2>2, <2>3
<1>4. contract \in Elements(toMerge)
  <2>1. n + 1 \in DOMAIN toMerge /\ 1 \in DOMAIN toMerge[n + 1]
    BY <1>1
  <2>2. contract \in ToSet(toMerge[n + 1])
    BY <1>1, <2>1 DEF ToSet
  <2> QED  BY <2>1, <2>2 DEF Elements
<1>5. ASSUME NEW j \in DOMAIN direct  PROVE  ToSet(bases[direct[j]]) \subseteq Elements(toMerge)
  <2>1. n - j + 1 \in 1..n /\ n - (n - j + 1) + 1 = j /\ n - j + 1 \in DOMAIN toMerge
    BY <1>1
  <2>2. toMerge[n - j + 1] = bases[direct[j]]
    BY <1>1, <2>1
  <2> QED  BY <2>1, <2>2 DEF Elements
<1> QED  BY <1>3, <1>4, <1>5 DEF toMerge

LEMMA DirectBaseIsListed ==
    ASSUME NEW C, NEW contract, NEW direct, NEW bases,
           BasesAreLinearized(C, contract, direct, bases), NEW k \in DOMAIN direct
    PROVE  /\ bases[direct[k]] \in Seq(C)
           /\ 1 \in DOMAIN bases[direct[k]] /\ bases[direct[k]][1] = direct[k]
           /\ direct[k] \in ToSet(bases[direct[k]])
           /\ contract \notin ToSet(bases[direct[k]])
<1>1. /\ bases[direct[k]] \in Seq(C) /\ bases[direct[k]] # << >>
      /\ Head(bases[direct[k]]) = direct[k]
      /\ contract \notin ToSet(bases[direct[k]])
  BY DEF BasesAreLinearized
<1>2. 1 \in DOMAIN bases[direct[k]] /\ bases[direct[k]][1] = direct[k]
  BY <1>1
<1> QED  BY <1>1, <1>2 DEF ToSet

(* NameAndTypeResolver::linearizeBaseContracts: the list of a contract starts with *)
(* it and has every base once, behind all that derive from it, in the order of the *)
(* lists of the bases, and bases mentioned later before those mentioned earlier.   *)
THEOREM LinearizationKeepsEveryOrder ==
    ASSUME NEW C, IsFiniteSet(C), NEW contract \in C, NEW direct \in Seq(C), NEW bases,
           BasesAreLinearized(C, contract, direct, bases),
           linearization(contract, direct, bases) # << >>
    PROVE  KeepsEveryOrder(linearization(contract, direct, bases), contract, direct, bases)
<1> DEFINE n == Len(direct)
           toMerge == Input(contract, direct, bases)
           list == linearization(contract, direct, bases)
<1>1. /\ list = cThreeMerge(toMerge)
      /\ n \in Nat /\ DOMAIN direct = 1..n
      /\ toMerge \in Seq(Seq(C)) /\ DOMAIN toMerge = 1..(n + 1)
      /\ \A k \in 1..n : toMerge[k] = bases[direct[n - k + 1]]
      /\ DOMAIN toMerge[n + 1] = 1..(n + 1)
      /\ toMerge[n + 1][1] = contract
      /\ \A i \in 2..(n + 1) : toMerge[n + 1][i] = direct[n - i + 2]
  BY InputFacts
<1>2. Elements(toMerge) = {contract} \cup UNION {ToSet(bases[direct[i]]) : i \in DOMAIN direct}
  BY InputElements
<1> HIDE DEF n, toMerge, list
<1>3. /\ list \in Seq(C) /\ list # << >>
      /\ ToSet(list) = Elements(toMerge)
      /\ IsCommonOrder(list, toMerge)
  <2>1. cThreeMerge(toMerge) # << >>
    BY <1>1 DEF list
  <2> QED  BY <1>1, <2>1, MergeKeepsEveryOrder DEF list
<1>4. /\ IsInjective(list)
      /\ \A k \in DOMAIN toMerge : \A i, j \in DOMAIN toMerge[k] :
            i < j => Precedes(list, toMerge[k][i], toMerge[k][j])
  BY <1>3 DEF IsCommonOrder
<1>5. \A k \in 1..n : /\ n - k + 1 \in 1..n /\ n - (n - k + 1) + 1 = k
                      /\ n - k + 2 \in 2..(n + 1) /\ n - (n - k + 2) + 2 = k
  <2>1. n \in Nat
    BY <1>1
  <2> QED  BY <2>1
<1>6. ASSUME NEW k \in 1..n
      PROVE  /\ n + 1 \in DOMAIN toMerge
             /\ n - k + 2 \in DOMAIN toMerge[n + 1]
             /\ toMerge[n + 1][n - k + 2] = direct[k]
  <2>1. n - k + 2 \in 2..(n + 1) /\ n - (n - k + 2) + 2 = k
    BY <1>5
  <2>2. toMerge[n + 1][n - k + 2] = direct[n - (n - k + 2) + 2]
    BY <1>1, <2>1
  <2> QED  BY <1>1, <2>1, <2>2
<1>7. ASSUME NEW i \in DOMAIN direct, NEW j \in DOMAIN direct, i < j
      PROVE  Precedes(list, direct[j], direct[i])
  <2>1. i \in 1..n /\ j \in 1..n /\ n - j + 2 < n - i + 2
    BY <1>1, <1>7
  <2> QED  BY <1>4, <1>6, <2>1
<1>8. ASSUME NEW k \in DOMAIN direct, NEW i \in DOMAIN bases[direct[k]],
             NEW j \in DOMAIN bases[direct[k]], i < j
      PROVE  Precedes(list, bases[direct[k]][i], bases[direct[k]][j])
  <2>1. n - k + 1 \in 1..n /\ n - (n - k + 1) + 1 = k /\ n - k + 1 \in DOMAIN toMerge
    BY <1>1, <1>5
  <2>2. toMerge[n - k + 1] = bases[direct[k]]
    BY <1>1, <2>1
  <2> QED  BY <1>4, <1>8, <2>1, <2>2
<1>9. Head(list) = contract
  <2>1. 1 \in DOMAIN list /\ Head(list) = list[1] /\ list[1] \in ToSet(list)
    BY <1>3 DEF ToSet
  <2>2. ASSUME NEW a, Precedes(list, a, list[1])  PROVE FALSE
    <3>1. PICK y, z \in DOMAIN list : y < z /\ list[z] = list[1]
      BY <2>2 DEF Precedes
    <3>2. z = 1
      BY <1>4, <2>1, <3>1 DEF IsInjective
    <3> QED  BY <1>3, <3>1, <3>2
  <2>3. ASSUME NEW k \in DOMAIN direct, list[1] \in ToSet(bases[direct[k]])  PROVE FALSE
    <3>1. PICK i \in DOMAIN bases[direct[k]] : bases[direct[k]][i] = list[1]
      BY <2>3 DEF ToSet
    <3>2. /\ bases[direct[k]] \in Seq(C)
          /\ 1 \in DOMAIN bases[direct[k]] /\ bases[direct[k]][1] = direct[k]
      BY DirectBaseIsListed
    <3>3. CASE i = 1
      <4>1. k \in 1..n /\ 1 \in DOMAIN toMerge[n + 1] /\ 1 < n - k + 2
        BY <1>1
      <4>2. Precedes(list, contract, direct[k])
        <5>1. /\ n + 1 \in DOMAIN toMerge /\ n - k + 2 \in DOMAIN toMerge[n + 1]
              /\ toMerge[n + 1][n - k + 2] = direct[k]
          BY <1>6, <4>1
        <5>2. Precedes(list, toMerge[n + 1][1], toMerge[n + 1][n - k + 2])
          BY <1>4, <4>1, <5>1
        <5> QED  BY <1>1, <5>1, <5>2
      <4> QED  BY <2>2, <3>1, <3>2, <3>3, <4>2
    <3>4. CASE i # 1
      <4>1. 1 < i
        BY <3>1, <3>2, <3>4
      <4>2. Precedes(list, direct[k], list[1])
        BY <1>8, <3>1, <3>2, <4>1
      <4> QED  BY <2>2, <4>2
    <3> QED  BY <3>3, <3>4
  <2> QED  BY <1>2, <1>3, <2>1, <2>3
<1> QED
  BY <1>2, <1>3, <1>4, <1>7, <1>8, <1>9 DEF KeepsEveryOrder, list

(* NameAndTypeResolver::linearizeBaseContracts reports "Linearization of           *)
(* inheritance graph impossible" only if no list has the order it promises.        *)
THEOREM LinearizationFailsOnlyIfImpossible ==
    ASSUME NEW C, IsFiniteSet(C), NEW contract \in C, NEW direct \in Seq(C), NEW bases,
           BasesAreLinearized(C, contract, direct, bases),
           linearization(contract, direct, bases) = << >>,
           NEW list \in Seq(C)
    PROVE  ~ KeepsEveryOrder(list, contract, direct, bases)
<1> SUFFICES ASSUME KeepsEveryOrder(list, contract, direct, bases)  PROVE FALSE
  OBVIOUS
<1> DEFINE n == Len(direct)
           toMerge == Input(contract, direct, bases)
<1>1. /\ linearization(contract, direct, bases) = cThreeMerge(toMerge)
      /\ n \in Nat /\ DOMAIN direct = 1..n
      /\ toMerge \in Seq(Seq(C)) /\ DOMAIN toMerge = 1..(n + 1)
      /\ \A k \in 1..n : toMerge[k] = bases[direct[n - k + 1]]
      /\ DOMAIN toMerge[n + 1] = 1..(n + 1)
      /\ toMerge[n + 1][1] = contract
      /\ \A i \in 2..(n + 1) : toMerge[n + 1][i] = direct[n - i + 2]
  BY InputFacts
<1>2. Elements(toMerge) = {contract} \cup UNION {ToSet(bases[direct[i]]) : i \in DOMAIN direct}
  BY InputElements
<1>3. /\ list # << >> /\ Head(list) = contract /\ IsInjective(list)
      /\ ToSet(list) = {contract} \cup UNION {ToSet(bases[direct[i]]) : i \in DOMAIN direct}
  BY DEF KeepsEveryOrder
<1>4. /\ \A i, j \in DOMAIN direct : i < j => Precedes(list, direct[j], direct[i])
      /\ \A k \in DOMAIN direct : \A i, j \in DOMAIN bases[direct[k]] :
            i < j => Precedes(list, bases[direct[k]][i], bases[direct[k]][j])
  BY DEF KeepsEveryOrder
<1> HIDE DEF n, toMerge
<1>5. ASSUME NEW k \in DOMAIN toMerge, NEW i \in DOMAIN toMerge[k],
             NEW j \in DOMAIN toMerge[k], i < j
      PROVE  Precedes(list, toMerge[k][i], toMerge[k][j])
  <2>1. CASE k \in 1..n
    <3>1. toMerge[k] = bases[direct[n - k + 1]]
      BY <1>1, <2>1
    <3>2. n \in Nat /\ DOMAIN direct = 1..n
      BY <1>1
    <3>3. n - k + 1 \in DOMAIN direct
      BY <2>1, <3>2
    <3> QED  BY <1>4, <1>5, <3>1, <3>3
  <2>2. CASE k = n + 1
    <3>1. n \in Nat /\ i \in 1..(n + 1) /\ j \in 1..(n + 1)
      BY <1>1, <2>2
    <3>2. j \in 2..(n + 1) /\ n - j + 2 \in 1..n
      BY <1>5, <3>1
    <3>3. toMerge[k][j] = direct[n - j + 2] /\ n - j + 2 \in DOMAIN direct
      BY <1>1, <2>2, <3>2
    <3>4. CASE i = 1
      <4> DEFINE b == direct[n - j + 2]
      <4>1. b \in ToSet(bases[b]) /\ contract \notin ToSet(bases[b])
        BY <3>3, DirectBaseIsListed
      <4>2. b # contract /\ b \in ToSet(list)
        BY <1>3, <3>3, <4>1
      <4> HIDE DEF b
      <4>3. PICK z \in DOMAIN list : list[z] = b
        BY <4>2 DEF ToSet
      <4>4. 1 \in DOMAIN list /\ list[1] = contract
        BY <1>3
      <4>5. 1 < z
        BY <4>2, <4>3, <4>4
      <4>6. Precedes(list, contract, b)
        BY <4>3, <4>4, <4>5 DEF Precedes
      <4> QED  BY <1>1, <2>2, <3>3, <3>4, <4>6 DEF b
    <3>5. CASE i # 1
      <4>1. i \in 2..(n + 1) /\ n - i + 2 \in 1..n /\ n - j + 2 < n - i + 2
        BY <1>5, <3>1, <3>5
      <4>2. toMerge[k][i] = direct[n - i + 2] /\ n - i + 2 \in DOMAIN direct
        BY <1>1, <2>2, <4>1
      <4> QED  BY <1>4, <3>3, <4>1, <4>2
    <3> QED  BY <3>4, <3>5
  <2>3. k \in 1..(n + 1) /\ n \in Nat
    BY <1>1
  <2>4. k \in 1..n \/ k = n + 1
    BY <2>3
  <2> QED  BY <2>1, <2>2, <2>4
<1>6. IsCommonOrder(list, toMerge)
  BY <1>2, <1>3, <1>5 DEF IsCommonOrder
<1>7. contract \in ToSet(cThreeMerge(toMerge))
  <2>1. ToSet(cThreeMerge(toMerge)) = Elements(toMerge)
    BY <1>1, <1>6, MergeFailsOnlyIfImpossible
  <2> QED  BY <1>2, <2>1
<1>8. cThreeMerge(toMerge) = << >>
  BY <1>1
<1>9. ToSet(<< >>) = {}
  BY DEF ToSet
<1> QED  BY <1>7, <1>8, <1>9

-----------------------------------------------------------------------------
(* StorageOffsets::computeOffsets *)

Beginning == [slot |-> 0, byte |-> 0]

\* The first free byte behind object n, if f is the one behind each object before.
FreeAfter(objects, slotBytes, f, n) ==
    IF n = 0 THEN Beginning
    ELSE freeBehind(placeOf(f[n - 1], objects[n], slotBytes), objects[n], slotBytes)

LEMMA FreeExists ==
    ASSUME NEW objects, NEW slotBytes, NEW n \in Nat
    PROVE  \E f : f = [i \in 0..n |-> FreeAfter(objects, slotBytes, f, i)]
<1> DEFINE Next(f, i) == FreeAfter(objects, slotBytes, f, i)
           S == {m \in Nat : \E f : f = [i \in 0..m |-> Next(f, i)]}
<1>1. 0 \in S
  <2> DEFINE f == [i \in 0..0 |-> Beginning]
  <2>1. f = [i \in 0..0 |-> Next(f, i)]
    BY DEF FreeAfter
  <2> QED  BY <2>1
<1>2. ASSUME NEW m \in S  PROVE  m + 1 \in S
  <2>1. PICK f : f = [i \in 0..m |-> Next(f, i)]
    OBVIOUS
  <2> DEFINE g == [i \in 0..(m + 1) |-> IF i = m + 1 THEN Next(f, m + 1) ELSE f[i]]
  <2>2. \A i \in 0..m : f[i] = Next(f, i) /\ g[i] = f[i]
    <3>1. \A i \in 0..m : i \in 0..(m + 1) /\ i # m + 1
      OBVIOUS
    <3>2. \A i \in 0..m : g[i] = f[i]
      BY <3>1
    <3> HIDE DEF Next, g
    <3>3. \A i \in 0..m : f[i] = Next(f, i)
      BY <2>1
    <3> QED  BY <3>2, <3>3
  <2>3. g[m + 1] = Next(f, m + 1)
    OBVIOUS
  <2>4. DOMAIN g = 0..(m + 1) /\ g = [i \in DOMAIN g |-> g[i]]
    OBVIOUS
  <2> HIDE DEF g
  <2>5. ASSUME NEW i \in 0..(m + 1)  PROVE  Next(g, i) = Next(f, i)
    <3>1. i # 0 => i - 1 \in 0..m
      OBVIOUS
    <3>2. i # 0 => g[i - 1] = f[i - 1]
      BY <2>2, <3>1
    <3> QED  BY <3>2 DEF FreeAfter
  <2> HIDE DEF Next
  <2>6. ASSUME NEW i \in 0..(m + 1)  PROVE  g[i] = Next(g, i)
    <3>1. i \in 0..m \/ i = m + 1
      OBVIOUS
    <3> QED  BY <2>2, <2>3, <2>5, <3>1
  <2>7. g = [i \in 0..(m + 1) |-> Next(g, i)]
    BY <2>4, <2>6
  <2> QED  BY <2>7
<1>3. S = Nat
  <2> HIDE DEF S
  <2> QED  BY <1>1, <1>2, InductionBySet DEF S
<1> QED  BY <1>3

LEMMA OffsetsRecursion ==
    ASSUME NEW T, NEW objects \in Seq(T), NEW slotBytes
    PROVE  \E f :
              /\ f[0] = Beginning
              /\ \A i \in 1..Len(objects) :
                    f[i] = freeBehind(placeOf(f[i - 1], objects[i], slotBytes), objects[i], slotBytes)
              /\ storageOffsets(objects, slotBytes).size =
                    IF f[Len(objects)].byte > 0 THEN f[Len(objects)].slot + 1
                    ELSE f[Len(objects)].slot
              /\ \A i \in 1..Len(objects) :
                    storageOffsets(objects, slotBytes).offsets[i] =
                        <<placeOf(f[i - 1], objects[i], slotBytes).slot,
                          placeOf(f[i - 1], objects[i], slotBytes).byte>>
<1> DEFINE n == Len(objects)
           g == CHOOSE f : f = [i \in 0..n |->
                    IF i = 0 THEN [slot |-> 0, byte |-> 0]
                    ELSE freeBehind(placeOf(f[i - 1], objects[i], slotBytes), objects[i], slotBytes)]
           place(i) == placeOf(g[i - 1], objects[i], slotBytes)
<1>1. n \in Nat
  OBVIOUS
<1>2. storageOffsets(objects, slotBytes) =
          [offsets |-> [i \in 1..n |-> <<place(i).slot, place(i).byte>>],
           size |-> IF g[n].byte > 0 THEN g[n].slot + 1 ELSE g[n].slot]
  BY DEF storageOffsets
<1>3. g = [i \in 0..n |-> IF i = 0 THEN Beginning ELSE freeBehind(place(i), objects[i], slotBytes)]
  <2>1. \E f : f = [i \in 0..n |->
                    IF i = 0 THEN [slot |-> 0, byte |-> 0]
                    ELSE freeBehind(placeOf(f[i - 1], objects[i], slotBytes), objects[i], slotBytes)]
    <3> HIDE DEF n, g
    <3>1. \E f : f = [i \in 0..n |-> FreeAfter(objects, slotBytes, f, i)]
      BY <1>1, FreeExists
    <3> QED  BY <3>1, Zenon DEF FreeAfter, Beginning
  <2> HIDE DEF n
  <2> QED  BY <2>1 DEF Beginning
<1> HIDE DEF g, n
<1>4. g[0] = Beginning /\ \A i \in 1..n : g[i] = freeBehind(place(i), objects[i], slotBytes)
  <2> HIDE DEF place
  <2> QED  BY <1>1, <1>3
<1>5. LET layout == storageOffsets(objects, slotBytes) IN
      /\ layout.size = IF g[n].byte > 0 THEN g[n].slot + 1 ELSE g[n].slot
      /\ \A i \in 1..n : layout.offsets[i] = <<place(i).slot, place(i).byte>>
  BY <1>2
<1> QED  BY <1>4, <1>5, Zenon DEF n

\* An object ends before a place: in an earlier slot, or in the same one and before
\* the byte.
EndsBefore(object, at, place) ==
    \/ at.slot + object.size <= place.slot
    \/ object.size = 1 /\ at.slot = place.slot /\ at.byte + object.bytes <= place.byte

\* The sizes that types have: an object of several slots fills all of them.
StorageObjects(slotBytes) ==
    {object \in [bytes : 1..slotBytes, size : Nat \ {0}] :
        object.size > 1 => object.bytes = slotBytes}

Places == [slot : Nat, byte : Nat]

LEMMA PlaceFacts ==
    ASSUME NEW slotBytes \in Nat \ {0}, NEW object \in StorageObjects(slotBytes),
           NEW free \in Places
    PROVE  LET place == placeOf(free, object, slotBytes)
               next == freeBehind(place, object, slotBytes)
           IN /\ place \in Places /\ next \in Places
              /\ place.byte + object.bytes <= slotBytes
              /\ EndsBefore(object, place, next)
              /\ \A other \in StorageObjects(slotBytes), at \in Places :
                    EndsBefore(other, at, free) =>
                        EndsBefore(other, at, place) /\ EndsBefore(other, at, next)
<1> DEFINE place == placeOf(free, object, slotBytes)
           next == freeBehind(place, object, slotBytes)
<1>1. /\ object.bytes \in 1..slotBytes /\ object.size \in Nat \ {0}
      /\ object.size > 1 => object.bytes = slotBytes
      /\ free.slot \in Nat /\ free.byte \in Nat
  BY DEF StorageObjects, Places
<1>2. /\ place \in Places /\ place.byte + object.bytes <= slotBytes
      /\ \/ place = free
         \/ place.slot = free.slot + 1 /\ place.byte = 0
  BY <1>1 DEF placeOf, Places
<1> HIDE DEF place
<1>3. place.slot \in Nat /\ place.byte \in Nat
  BY <1>2 DEF Places
<1>4. /\ next \in Places
      /\ \/ /\ object.size = 1 /\ next.slot = place.slot
            /\ next.byte = place.byte + object.bytes
         \/ next.slot = place.slot + object.size /\ next.byte = 0
  BY <1>1, <1>2, <1>3 DEF freeBehind, Places
<1> HIDE DEF next
<1>5. next.slot \in Nat /\ next.byte \in Nat
  BY <1>4 DEF Places
<1>6. EndsBefore(object, place, next)
  BY <1>1, <1>3, <1>4, <1>5 DEF EndsBefore
<1>7. ASSUME NEW other \in StorageObjects(slotBytes), NEW at \in Places,
             EndsBefore(other, at, free)
      PROVE  EndsBefore(other, at, place) /\ EndsBefore(other, at, next)
  <2>1. /\ other.bytes \in 1..slotBytes /\ other.size \in Nat \ {0}
        /\ at.slot \in Nat /\ at.byte \in Nat
    BY DEF StorageObjects, Places
  <2>2. EndsBefore(other, at, place)
    BY <1>1, <1>2, <1>3, <1>7, <2>1 DEF EndsBefore
  <2>3. EndsBefore(other, at, next)
    BY <1>1, <1>3, <1>4, <1>5, <2>1, <2>2 DEF EndsBefore
  <2> QED  BY <2>2, <2>3
<1> QED  BY <1>2, <1>4, <1>6, <1>7 DEF place, next

\* All objects that have been placed end before the first free byte.
LEMMA LayoutInvariant ==
    ASSUME NEW slotBytes \in Nat \ {0}, NEW objects \in Seq(StorageObjects(slotBytes)), NEW f,
           f[0] = Beginning,
           \A i \in 1..Len(objects) :
               f[i] = freeBehind(placeOf(f[i - 1], objects[i], slotBytes), objects[i], slotBytes)
    PROVE  \A n \in 0..Len(objects) :
               /\ f[n] \in Places
               /\ \A i \in 1..n : LET place == placeOf(f[i - 1], objects[i], slotBytes)
                                  IN place \in Places /\ EndsBefore(objects[i], place, f[n])
<1> DEFINE place(i) == placeOf(f[i - 1], objects[i], slotBytes)
           Good(n) == /\ f[n] \in Places
                      /\ \A i \in 1..n : place(i) \in Places /\ EndsBefore(objects[i], place(i), f[n])
           S == {n \in Nat : n <= Len(objects) => Good(n)}
<1>1. Len(objects) \in Nat /\ \A i \in 1..Len(objects) : objects[i] \in StorageObjects(slotBytes)
  OBVIOUS
<1>2. Good(0)
  <2>1. f[0] \in Places
    BY DEF Beginning, Places
  <2> QED  BY <2>1
<1>3. ASSUME NEW m \in S  PROVE  m + 1 \in S
  <2> SUFFICES ASSUME m + 1 <= Len(objects)  PROVE Good(m + 1)
    OBVIOUS
  <2>1. m \in Nat /\ m <= Len(objects) /\ m + 1 \in 1..Len(objects) /\ (m + 1) - 1 = m
    BY <1>1
  <2>2. Good(m)
    BY <2>1
  <2>3. /\ place(m + 1) = placeOf(f[m], objects[m + 1], slotBytes)
        /\ f[m + 1] = freeBehind(place(m + 1), objects[m + 1], slotBytes)
    BY <2>1
  <2>4. /\ place(m + 1) \in Places /\ f[m + 1] \in Places
        /\ EndsBefore(objects[m + 1], place(m + 1), f[m + 1])
        /\ \A other \in StorageObjects(slotBytes), at \in Places :
              EndsBefore(other, at, f[m]) => EndsBefore(other, at, f[m + 1])
    <3> HIDE DEF place
    <3> QED  BY <1>1, <2>1, <2>2, <2>3, PlaceFacts
  <2>5. ASSUME NEW i \in 1..(m + 1)
        PROVE  place(i) \in Places /\ EndsBefore(objects[i], place(i), f[m + 1])
    <3>1. i \in 1..m \/ i = m + 1
      BY <2>1
    <3>2. i \in 1..Len(objects)
      BY <1>1, <2>1
    <3> HIDE DEF place
    <3> QED  BY <1>1, <2>2, <2>4, <3>1, <3>2
  <2> QED  BY <2>4, <2>5
<1>4. S = Nat
  <2>1. 0 \in S
    BY <1>2
  <2> HIDE DEF S
  <2> QED  BY <1>3, <2>1, InductionBySet DEF S
<1>5. ASSUME NEW n \in 0..Len(objects)  PROVE Good(n)
  <2>1. n \in Nat /\ n <= Len(objects)
    BY <1>1
  <2>2. n \in S
    <3> HIDE DEF S
    <3> QED  BY <1>4, <2>1
  <2> QED  BY <2>1, <2>2, Zenon
<1> QED  BY <1>5

(* StorageOffsets::computeOffsets: each object is in the slots that are counted, none *)
(* reaches over the end of its slot unless it fills whole slots, and each ends before *)
(* the next begins: no two share a byte.                                              *)
THEOREM StorageObjectsAreApart ==
    ASSUME NEW slotBytes \in Nat \ {0}, NEW objects \in Seq(StorageObjects(slotBytes))
    PROVE  LET layout == storageOffsets(objects, slotBytes)
               at(i) == [slot |-> layout.offsets[i][1], byte |-> layout.offsets[i][2]]
           IN \A i \in 1..Len(objects) :
                 /\ at(i) \in Places
                 /\ at(i).byte + objects[i].bytes <= slotBytes
                 /\ at(i).slot + objects[i].size <= layout.size
                 /\ \A j \in 1..Len(objects) : i < j => EndsBefore(objects[i], at(i), at(j))
<1> DEFINE n == Len(objects)
           layout == storageOffsets(objects, slotBytes)
           at(i) == [slot |-> layout.offsets[i][1], byte |-> layout.offsets[i][2]]
<1>1. n \in Nat /\ \A i \in 1..n : objects[i] \in StorageObjects(slotBytes)
  OBVIOUS
<1>2. PICK f :
          /\ f[0] = Beginning
          /\ \A i \in 1..n : f[i] = freeBehind(placeOf(f[i - 1], objects[i], slotBytes), objects[i], slotBytes)
          /\ layout.size = IF f[n].byte > 0 THEN f[n].slot + 1 ELSE f[n].slot
          /\ \A i \in 1..n : layout.offsets[i] = <<placeOf(f[i - 1], objects[i], slotBytes).slot,
                                                  placeOf(f[i - 1], objects[i], slotBytes).byte>>
  BY OffsetsRecursion, Zenon
<1> DEFINE place(i) == placeOf(f[i - 1], objects[i], slotBytes)
<1>3. \A m \in 0..n : /\ f[m] \in Places
                      /\ \A i \in 1..m : place(i) \in Places /\ EndsBefore(objects[i], place(i), f[m])
  BY <1>2, LayoutInvariant
<1> HIDE DEF n, layout
<1>4. ASSUME NEW i \in 1..n
      PROVE  /\ at(i) = place(i) /\ place(i) \in Places
             /\ place(i).byte + objects[i].bytes <= slotBytes
             /\ \A other \in StorageObjects(slotBytes), p \in Places :
                    EndsBefore(other, p, f[i - 1]) => EndsBefore(other, p, place(i))
  <2>1. i - 1 \in 0..n /\ f[i - 1] \in Places /\ objects[i] \in StorageObjects(slotBytes)
    BY <1>1, <1>3
  <2>2. /\ place(i) \in Places
        /\ place(i).byte + objects[i].bytes <= slotBytes
        /\ \A other \in StorageObjects(slotBytes), p \in Places :
               EndsBefore(other, p, f[i - 1]) => EndsBefore(other, p, place(i))
    BY <2>1, PlaceFacts
  <2>3. layout.offsets[i] = <<place(i).slot, place(i).byte>>
    BY <1>2
  <2> HIDE DEF place
  <2>4. at(i) = place(i)
    BY <2>2, <2>3 DEF Places
  <2> QED  BY <2>2, <2>4
<1> HIDE DEF at, place
<1>5. ASSUME NEW i \in 1..n  PROVE  place(i).slot + objects[i].size <= layout.size
  <2>1. n \in 0..n /\ f[n] \in Places /\ EndsBefore(objects[i], place(i), f[n])
    BY <1>1, <1>3
  <2> DEFINE slot == f[n].slot
             byte == f[n].byte
             start == place(i).slot
             bytes == objects[i].bytes
             size == objects[i].size
  <2>2. slot \in Nat /\ byte \in Nat /\ start \in Nat /\ place(i).byte \in Nat
    BY <1>4, <2>1 DEF Places
  <2>3. size \in Nat /\ bytes \in 1..slotBytes
    <3>1. objects[i] \in StorageObjects(slotBytes)
      BY <1>1
    <3> QED  BY <3>1 DEF StorageObjects
  <2>4. start + size <= slot \/ (size = 1 /\ start = slot /\ place(i).byte + bytes <= byte)
    BY <2>1 DEF EndsBefore
  <2>5. layout.size = IF byte > 0 THEN slot + 1 ELSE slot
    BY <1>2
  <2> HIDE DEF slot, byte, start, bytes, size
  <2>6. start + size <= slot \/ (start + size = slot + 1 /\ byte > 0)
    BY <2>2, <2>3, <2>4
  <2>7. CASE byte > 0
    BY <2>2, <2>3, <2>5, <2>6, <2>7 DEF start, size
  <2>8. CASE ~ (byte > 0)
    BY <2>2, <2>3, <2>5, <2>6, <2>8 DEF start, size
  <2> QED  BY <2>7, <2>8
<1>6. ASSUME NEW i \in 1..n, NEW j \in 1..n, i < j
      PROVE  EndsBefore(objects[i], place(i), place(j))
  <2>1. j - 1 \in 0..n /\ i \in 1..(j - 1)
    BY <1>1, <1>6
  <2>2. EndsBefore(objects[i], place(i), f[j - 1]) /\ place(i) \in Places
    BY <1>3, <2>1
  <2> QED  BY <1>1, <1>4, <2>2
<1>7. ASSUME NEW i \in 1..n
      PROVE  /\ at(i) \in Places
             /\ at(i).byte + objects[i].bytes <= slotBytes
             /\ at(i).slot + objects[i].size <= layout.size
             /\ \A j \in 1..n : i < j => EndsBefore(objects[i], at(i), at(j))
  BY <1>4, <1>5, <1>6
<1> QED  BY <1>7 DEF n, layout, at

=============================================================================
