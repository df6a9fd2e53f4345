------------------------------ MODULE SumLemmas ------------------------------
(***************************************************************************)
(* Facts about SumFunctionOnSet, the sum of a function's values over a      *)
(* finite set.  The library defines it by a recursive function on the      *)
(* subsets of the set; the facts below follow from one recursion equation  *)
(* (SumUnrolled), and by induction on the cardinality.                     *)
(*                                                                         *)
(* The library's induction theorems take the property as an operator.      *)
(* NatSetInduction takes the set of the numbers that have it instead: its  *)
(* complement in Nat, if not empty, has a least member (WFMin).            *)
(***************************************************************************)
EXTENDS Integers, Functions, FiniteSetTheorems, TLAPS

(* A set of naturals with 0 and the successor of each member is all of them. *)
LEMMA NatSetInduction ==
  ASSUME NEW G \in SUBSET Nat, 0 \in G, \A n \in G : n + 1 \in G
  PROVE  \A n \in Nat : n \in G
<1>1. SUFFICES ASSUME Nat \ G # {} PROVE FALSE
  OBVIOUS
<1>2. PICK m \in Nat \ G : \A k \in Nat \ G : <<k, m>> \notin OpToRel(<, Nat)
  <2>1. IsWellFoundedOn(OpToRel(<, Nat), Nat)
    BY NatLessThanWellFounded
  <2>2. Nat \ G \subseteq Nat
    OBVIOUS
  <2> QED
    BY <1>1, <2>1, <2>2, WFMin
<1>3. m - 1 \in Nat /\ m - 1 < m /\ (m - 1) + 1 = m
  OBVIOUS
<1>4. <<m - 1, m>> \in OpToRel(<, Nat)
  BY <1>2, <1>3 DEF OpToRel
<1>5. m - 1 \in G
  BY <1>2, <1>3, <1>4
<1> QED
  BY <1>3, <1>5

-----------------------------------------------------------------------------
(* The recursion equation *)

Chosen(s) == CHOOSE x \in s : TRUE

Unrolled(f, g, s) == IF s = {} THEN 0 ELSE f[Chosen(s)] + g[s \ {Chosen(s)}]

IsTable(f, g, D) == g = [s \in D |-> Unrolled(f, g, s)]

LEMMA ChosenIsMember == \A s : s # {} => Chosen(s) \in s
BY DEF Chosen

(* The definition of the library, in these terms. *)
LEMMA SumIsChosenTable ==
  ASSUME NEW f, NEW S
  PROVE  SumFunctionOnSet(f, S) = (CHOOSE g : IsTable(f, g, SUBSET S))[S]
BY DEF SumFunctionOnSet, FoldFunctionOnSet, MapThenFoldSet, IsTable, Unrolled,
       Chosen

(* What the induction step on the cardinality needs. *)
LEMMA FewerByOne ==
  ASSUME NEW s, IsFiniteSet(s), NEW n \in Nat, Cardinality(s) = n + 1
  PROVE  /\ s # {}
         /\ Chosen(s) \in s
         /\ \A x \in s : Cardinality(s \ {x}) = n
<1>1. s # {}
  BY n + 1 # 0, FS_EmptySet
<1>2. ASSUME NEW x \in s PROVE Cardinality(s \ {x}) = n
  <2>1. Cardinality(s \ {x}) = Cardinality(s) - 1
    BY FS_RemoveElement
  <2> QED
    BY <2>1
<1> QED
  BY <1>1, <1>2, ChosenIsMember

SmallSubsets(S, n) == {s \in SUBSET S : Cardinality(s) <= n}

(* A table for the subsets of at most n elements extends to n + 1. *)
LEMMA TableExtends ==
  ASSUME NEW f, NEW S, IsFiniteSet(S), NEW n \in Nat,
         NEW g, IsTable(f, g, SmallSubsets(S, n))
  PROVE  \E h : IsTable(f, h, SmallSubsets(S, n + 1))
<1> DEFINE D == SmallSubsets(S, n + 1)
           h == [s \in D |-> Unrolled(f, g, s)]
<1>1. SUFFICES ASSUME NEW s \in D PROVE Unrolled(f, g, s) = Unrolled(f, h, s)
  BY DEF IsTable
<1>2. CASE s = {}
  BY <1>2 DEF Unrolled
<1>3. CASE s # {}
  <2> DEFINE r == s \ {Chosen(s)}
  <2>1. Chosen(s) \in s
    BY <1>3, ChosenIsMember
  <2>2. s \in SUBSET S /\ Cardinality(s) <= n + 1
    BY DEF SmallSubsets
  <2>3. IsFiniteSet(s) /\ Cardinality(s) \in Nat
    BY <2>2, FS_Subset, FS_CardinalityType
  <2>4. Cardinality(r) = Cardinality(s) - 1
    BY <2>1, <2>3, FS_RemoveElement
  <2>5. r \in SmallSubsets(S, n) /\ r \in D
    BY <2>2, <2>3, <2>4 DEF SmallSubsets
  <2>6. h[r] = Unrolled(f, g, r)
    BY <2>5
  <2>7. g[r] = Unrolled(f, g, r)
    BY <2>5 DEF IsTable
  <2> QED
    BY <1>3, <2>6, <2>7 DEF Unrolled
<1> QED
  BY <1>2, <1>3

LEMMA TableExists ==
  ASSUME NEW f, NEW S, IsFiniteSet(S)
  PROVE  \E g : IsTable(f, g, SUBSET S)
<1> DEFINE G == {n \in Nat : \E g : IsTable(f, g, SmallSubsets(S, n))}
<1>1. 0 \in G
  <2> DEFINE g == [s \in SmallSubsets(S, 0) |-> 0]
  <2>1. ASSUME NEW s \in SmallSubsets(S, 0) PROVE s = {}
    <3>1. s \in SUBSET S /\ Cardinality(s) <= 0
      BY DEF SmallSubsets
    <3>2. IsFiniteSet(s) /\ Cardinality(s) \in Nat
      BY <3>1, FS_Subset, FS_CardinalityType
    <3> QED
      BY <3>1, <3>2, FS_EmptySet
  <2>2. IsTable(f, g, SmallSubsets(S, 0))
    BY <2>1 DEF IsTable, Unrolled
  <2> QED
    BY <2>2
<1>2. ASSUME NEW n \in G PROVE n + 1 \in G
  BY TableExtends
<1>3. Cardinality(S) \in G
  <2>1. Cardinality(S) \in Nat
    BY FS_CardinalityType
  <2> HIDE DEF G
  <2>2. G \in SUBSET Nat
    BY DEF G
  <2> QED
    BY <1>1, <1>2, <2>1, <2>2, NatSetInduction
<1>4. SmallSubsets(S, Cardinality(S)) = SUBSET S
  BY FS_Subset DEF SmallSubsets
<1> QED
  BY <1>3, <1>4

(* Any table of a set gives the sums of its subsets: it agrees with the     *)
(* table the library chooses for the subset.                               *)
LEMMA SumOfTable ==
  ASSUME NEW f, NEW S, NEW T \in SUBSET S, IsFiniteSet(S),
         NEW g, IsTable(f, g, SUBSET S)
  PROVE  SumFunctionOnSet(f, T) = g[T]
<1> DEFINE h == CHOOSE h : IsTable(f, h, SUBSET T)
           G == {n \in Nat : \A s \in SUBSET T : Cardinality(s) = n => g[s] = h[s]}
<1>1. IsFiniteSet(T)
  BY FS_Subset
<1>2. IsTable(f, h, SUBSET T)
  BY <1>1, TableExists
<1>3. SumFunctionOnSet(f, T) = h[T]
  BY SumIsChosenTable
<1> HIDE DEF h
<1>4. ASSUME NEW s \in SUBSET T
      PROVE  /\ IsFiniteSet(s) /\ Cardinality(s) \in Nat
             /\ g[s] = Unrolled(f, g, s)
             /\ h[s] = Unrolled(f, h, s)
  BY <1>1, <1>2, FS_Subset, FS_CardinalityType DEF IsTable
<1>5. 0 \in G
  <2>1. SUFFICES ASSUME NEW s \in SUBSET T, Cardinality(s) = 0 PROVE g[s] = h[s]
    OBVIOUS
  <2>2. s = {}
    BY <1>4, <2>1, FS_EmptySet
  <2> QED
    BY <1>4, <2>2 DEF Unrolled
<1>6. ASSUME NEW n \in G PROVE n + 1 \in G
  <2>1. SUFFICES ASSUME NEW s \in SUBSET T, Cardinality(s) = n + 1
                 PROVE  g[s] = h[s]
    OBVIOUS
  <2>2. s # {} /\ Cardinality(s \ {Chosen(s)}) = n
    BY <1>4, <2>1, FewerByOne
  <2>3. g[s \ {Chosen(s)}] = h[s \ {Chosen(s)}]
    BY <2>2
  <2> QED
    BY <1>4, <2>2, <2>3 DEF Unrolled
<1>7. Cardinality(T) \in G
  <2> HIDE DEF G
  <2>1. G \in SUBSET Nat
    BY DEF G
  <2> QED
    BY <1>4, <1>5, <1>6, <2>1, NatSetInduction
<1> QED
  BY <1>3, <1>7

LEMMA SumEmpty == ASSUME NEW f PROVE SumFunctionOnSet(f, {}) = 0
<1>1. IsFiniteSet({})
  BY FS_EmptySet
<1>2. PICK g : IsTable(f, g, SUBSET {})
  BY <1>1, TableExists
<1>3. SumFunctionOnSet(f, {}) = g[{}]
  <2>1. {} \in SUBSET {}
    OBVIOUS
  <2> QED
    BY <1>1, <1>2, <2>1, SumOfTable, Zenon
<1> QED
  BY <1>2, <1>3 DEF IsTable, Unrolled

(* The sum takes out the element the library chooses, and adds the rest. *)
LEMMA SumUnrolled ==
  ASSUME NEW f, NEW S, IsFiniteSet(S), S # {}
  PROVE  SumFunctionOnSet(f, S) =
           f[Chosen(S)] + SumFunctionOnSet(f, S \ {Chosen(S)})
<1>1. PICK g : IsTable(f, g, SUBSET S)
  BY TableExists
<1>2. SumFunctionOnSet(f, S) = g[S]
  BY <1>1, SumOfTable
<1>3. SumFunctionOnSet(f, S \ {Chosen(S)}) = g[S \ {Chosen(S)}]
  BY <1>1, SumOfTable
<1>4. g[S] = Unrolled(f, g, S)
  BY <1>1 DEF IsTable
<1> QED
  BY <1>2, <1>3, <1>4 DEF Unrolled

-----------------------------------------------------------------------------
(* What the sum does *)

(* The sum of naturals is one. *)
LEMMA SumType ==
  ASSUME NEW f, NEW D, IsFiniteSet(D), \A x \in D : f[x] \in Nat
  PROVE  SumFunctionOnSet(f, D) \in Nat
<1> DEFINE G == {n \in Nat : \A s \in SUBSET D :
                   Cardinality(s) = n => SumFunctionOnSet(f, s) \in Nat}
<1>1. ASSUME NEW s \in SUBSET D
      PROVE  IsFiniteSet(s) /\ Cardinality(s) \in Nat
  BY FS_Subset, FS_CardinalityType
<1>2. 0 \in G
  <2>1. SUFFICES ASSUME NEW s \in SUBSET D, Cardinality(s) = 0
                 PROVE  SumFunctionOnSet(f, s) \in Nat
    OBVIOUS
  <2>2. s = {}
    BY <1>1, <2>1, FS_EmptySet
  <2> QED
    BY <2>2, SumEmpty
<1>3. ASSUME NEW n \in G PROVE n + 1 \in G
  <2>1. SUFFICES ASSUME NEW s \in SUBSET D, Cardinality(s) = n + 1
                 PROVE  SumFunctionOnSet(f, s) \in Nat
    OBVIOUS
  <2>2. s # {} /\ Chosen(s) \in s /\ Cardinality(s \ {Chosen(s)}) = n
    BY <1>1, <2>1, FewerByOne
  <2>3. SumFunctionOnSet(f, s \ {Chosen(s)}) \in Nat
    BY <2>2
  <2>4. SumFunctionOnSet(f, s) =
          f[Chosen(s)] + SumFunctionOnSet(f, s \ {Chosen(s)})
    BY <1>1, <2>2, SumUnrolled
  <2> QED
    BY <2>2, <2>3, <2>4
<1>4. Cardinality(D) \in G
  <2> HIDE DEF G
  <2>1. G \in SUBSET Nat
    BY DEF G
  <2> QED
    BY <1>1, <1>2, <1>3, <2>1, NatSetInduction
<1> QED
  BY <1>4

(* Two functions that agree on the set have one sum. *)
LEMMA SumAgrees ==
  ASSUME NEW f, NEW g, NEW D, IsFiniteSet(D), \A x \in D : f[x] = g[x]
  PROVE  SumFunctionOnSet(f, D) = SumFunctionOnSet(g, D)
<1> DEFINE G == {n \in Nat : \A s \in SUBSET D : Cardinality(s) = n =>
                   SumFunctionOnSet(f, s) = SumFunctionOnSet(g, s)}
<1>1. ASSUME NEW s \in SUBSET D
      PROVE  IsFiniteSet(s) /\ Cardinality(s) \in Nat
  BY FS_Subset, FS_CardinalityType
<1>2. 0 \in G
  <2>1. SUFFICES ASSUME NEW s \in SUBSET D, Cardinality(s) = 0
                 PROVE  SumFunctionOnSet(f, s) = SumFunctionOnSet(g, s)
    OBVIOUS
  <2>2. s = {}
    BY <1>1, <2>1, FS_EmptySet
  <2> QED
    BY <2>2, SumEmpty
<1>3. ASSUME NEW n \in G PROVE n + 1 \in G
  <2>1. SUFFICES ASSUME NEW s \in SUBSET D, Cardinality(s) = n + 1
                 PROVE  SumFunctionOnSet(f, s) = SumFunctionOnSet(g, s)
    OBVIOUS
  <2>2. s # {} /\ Chosen(s) \in s /\ Cardinality(s \ {Chosen(s)}) = n
    BY <1>1, <2>1, FewerByOne
  <2>3. SumFunctionOnSet(f, s \ {Chosen(s)}) =
          SumFunctionOnSet(g, s \ {Chosen(s)})
    BY <2>2
  <2>4. /\ SumFunctionOnSet(f, s) =
             f[Chosen(s)] + SumFunctionOnSet(f, s \ {Chosen(s)})
        /\ SumFunctionOnSet(g, s) =
             g[Chosen(s)] + SumFunctionOnSet(g, s \ {Chosen(s)})
    BY <1>1, <2>2, SumUnrolled
  <2> QED
    BY <2>2, <2>3, <2>4
<1>4. Cardinality(D) \in G
  <2> HIDE DEF G
  <2>1. G \in SUBSET Nat
    BY DEF G
  <2> QED
    BY <1>1, <1>2, <1>3, <2>1, NatSetInduction
<1> QED
  BY <1>4

(* Whichever element the library would choose first, any one can be taken   *)
(* out: induction on the set without it and without the chosen one.         *)
LEMMA SumTakesOut ==
  ASSUME NEW f, NEW D, IsFiniteSet(D), \A x \in D : f[x] \in Nat, NEW y \in D
  PROVE  SumFunctionOnSet(f, D) = f[y] + SumFunctionOnSet(f, D \ {y})
<1> DEFINE TakesOut(s) ==
      \A x \in s : SumFunctionOnSet(f, s) = f[x] + SumFunctionOnSet(f, s \ {x})
<1> DEFINE G == {n \in Nat : \A s \in SUBSET D : Cardinality(s) = n => TakesOut(s)}
<1>1. ASSUME NEW s \in SUBSET D
      PROVE  IsFiniteSet(s) /\ Cardinality(s) \in Nat
  BY FS_Subset, FS_CardinalityType
<1>2. 0 \in G
  BY <1>1, FS_EmptySet
<1>3. ASSUME NEW n \in G PROVE n + 1 \in G
  <2>1. SUFFICES ASSUME NEW s \in SUBSET D, Cardinality(s) = n + 1, NEW x \in s
                 PROVE  SumFunctionOnSet(f, s) =
                          f[x] + SumFunctionOnSet(f, s \ {x})
    OBVIOUS
  <2> DEFINE c == Chosen(s)
             both == s \ {c, x}
  <2>2. c \in s /\ \A z \in s : Cardinality(s \ {z}) = n
    BY <1>1, <2>1, FewerByOne
  <2>3. SumFunctionOnSet(f, s) = f[c] + SumFunctionOnSet(f, s \ {c})
    BY <1>1, <2>1, SumUnrolled
  <2> HIDE DEF c
  <2>4. CASE c = x
    BY <2>3, <2>4
  <2>5. CASE c # x
    <3>1. Cardinality(s \ {c}) = n /\ Cardinality(s \ {x}) = n
      BY <2>2
    <3>2. TakesOut(s \ {c}) /\ TakesOut(s \ {x})
      BY <3>1
    <3>3. (s \ {c}) \ {x} = both /\ (s \ {x}) \ {c} = both
      OBVIOUS
    <3>4. x \in s \ {c} /\ c \in s \ {x}
      BY <2>2, <2>5
    <3>5. SumFunctionOnSet(f, s \ {c}) = f[x] + SumFunctionOnSet(f, both)
      BY <3>2, <3>3, <3>4
    <3>6. SumFunctionOnSet(f, s \ {x}) = f[c] + SumFunctionOnSet(f, both)
      BY <3>2, <3>3, <3>4
    <3>7. f[x] \in Nat /\ f[c] \in Nat /\ SumFunctionOnSet(f, both) \in Nat
      BY <1>1, <2>1, <2>2, SumType
    <3> QED
      BY <2>3, <3>5, <3>6, <3>7
  <2> QED
    BY <2>4, <2>5
<1>4. Cardinality(D) \in G
  <2> HIDE DEF G
  <2>1. G \in SUBSET Nat
    BY DEF G
  <2> QED
    BY <1>1, <1>2, <1>3, <2>1, NatSetInduction
<1> QED
  BY <1>4

(* An element that joins the set adds its value. *)
LEMMA SumAdds ==
  ASSUME NEW f, NEW D, IsFiniteSet(D), NEW y, y \notin D,
         \A x \in D \cup {y} : f[x] \in Nat
  PROVE  SumFunctionOnSet(f, D \cup {y}) = f[y] + SumFunctionOnSet(f, D)
<1>1. IsFiniteSet(D \cup {y})
  BY FS_AddElement
<1>2. (D \cup {y}) \ {y} = D
  OBVIOUS
<1>3. SumFunctionOnSet(f, D \cup {y}) =
        f[y] + SumFunctionOnSet(f, (D \cup {y}) \ {y})
  BY <1>1, SumTakesOut
<1> QED
  BY <1>2, <1>3

(* When a function changes at one argument only, which may join or leave    *)
(* its domain, its sum changes by the difference there.                     *)
ValueAt(f, x) == IF x \in DOMAIN f THEN f[x] ELSE 0

LEMMA SumChanges ==
  ASSUME NEW f, NEW g, NEW y,
         IsFiniteSet(DOMAIN f), DOMAIN g \ {y} = DOMAIN f \ {y},
         \A x \in DOMAIN f : f[x] \in Nat,
         \A x \in DOMAIN g : g[x] \in Nat,
         \A x \in DOMAIN f \ {y} : g[x] = f[x]
  PROVE  /\ SumFunction(f) \in Nat
         /\ SumFunction(g) \in Nat
         /\ SumFunction(f) - ValueAt(f, y) = SumFunction(g) - ValueAt(g, y)
<1> DEFINE rest == DOMAIN f \ {y}
<1>1. IsFiniteSet(rest)
  BY FS_RemoveElement
<1>2. IsFiniteSet(DOMAIN g)
  <2>1. IsFiniteSet(rest \cup {y})
    BY <1>1, FS_AddElement
  <2>2. DOMAIN g \in SUBSET (rest \cup {y})
    OBVIOUS
  <2> QED
    BY <2>1, <2>2, FS_Subset
<1>3. SumFunctionOnSet(f, rest) = SumFunctionOnSet(g, rest)
  BY <1>1, SumAgrees
<1>4. SumFunctionOnSet(f, rest) \in Nat
  BY <1>1, SumType
<1>5. ValueAt(f, y) \in Nat /\ ValueAt(g, y) \in Nat
  BY DEF ValueAt
<1>6. SumFunctionOnSet(f, DOMAIN f) = ValueAt(f, y) + SumFunctionOnSet(f, rest)
  <2>1. CASE y \in DOMAIN f
    BY <2>1, SumTakesOut DEF ValueAt
  <2>2. CASE y \notin DOMAIN f
    <3>1. rest = DOMAIN f
      BY <2>2
    <3> QED
      BY <2>2, <3>1, <1>4 DEF ValueAt
  <2> QED
    BY <2>1, <2>2
<1>7. SumFunctionOnSet(g, DOMAIN g) = ValueAt(g, y) + SumFunctionOnSet(g, rest)
  <2>1. CASE y \in DOMAIN g
    <3>1. SumFunctionOnSet(g, DOMAIN g) =
            g[y] + SumFunctionOnSet(g, DOMAIN g \ {y})
      BY <1>2, <2>1, SumTakesOut
    <3> QED
      BY <2>1, <3>1 DEF ValueAt
  <2>2. CASE y \notin DOMAIN g
    <3>1. rest = DOMAIN g
      BY <2>2
    <3> QED
      BY <1>3, <1>4, <2>2, <3>1 DEF ValueAt
  <2> QED
    BY <2>1, <2>2
<1> HIDE DEF rest
<1> QED
  BY <1>3, <1>4, <1>5, <1>6, <1>7 DEF SumFunction
=============================================================================
