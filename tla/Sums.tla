-------------------------------- MODULE Sums --------------------------------
(***************************************************************************)
(* Facts about SumFunctionOnSet of the community modules, for finite sets  *)
(* of any size: what the sum is when one of its terms changes, when a term *)
(* comes or goes, and when every term grows.  Each is proved from a        *)
(* smallest set for which it would fail, since a set, unlike an operator,  *)
(* can be given to the theorem about well-founded relations.               *)
(***************************************************************************)
EXTENDS Functions, FiniteSetTheorems, TLAPS

(* The element that the sum takes first, and the table it is read from. *)
Pick(s) == CHOOSE x \in s : TRUE
Adds(f, S, g) == g = [s \in SUBSET S |-> IF s = {} THEN 0 ELSE f[Pick(s)] + g[s \ {Pick(s)}]]

(* A set of subsets of a finite set has a smallest member. *)
LEMMA Smallest ==
    ASSUME NEW S, IsFiniteSet(S), NEW B, B \subseteq SUBSET S, B # {}
    PROVE  \E T \in B : IsFiniteSet(T) /\ \A U \in SUBSET T : U # T => U \notin B
<1>1. IsWellFoundedOn(StrictSubsetOrdering(S), FiniteSubsetsOf(S))
  BY FS_StrictSubsetOrderingWellFounded
<1>2. B \subseteq FiniteSubsetsOf(S)
  BY FS_Subset DEF FiniteSubsetsOf
<1>. HIDE DEF IsWellFoundedOn
<1>3. PICK T \in B : \A U \in B : ~(<<U, T>> \in StrictSubsetOrdering(S))
  BY <1>1, <1>2, WFMin
<1>4. IsFiniteSet(T)
  BY FS_Subset
<1>. QED  BY <1>3, <1>4 DEF StrictSubsetOrdering
(* Two tables of sums agree where both are defined. *)
LEMMA AddsAgree ==
    ASSUME NEW f, NEW S, NEW T, IsFiniteSet(T), T \subseteq S,
           NEW g, Adds(f, S, g), NEW h, Adds(f, T, h)
    PROVE  \A s \in SUBSET T : g[s] = h[s]
<1>. DEFINE B == {s \in SUBSET T : g[s] # h[s]}
<1>. SUFFICES ASSUME B # {} PROVE FALSE
  OBVIOUS
<1>1. PICK s \in B : \A r \in SUBSET s : r # s => r \notin B
  <2>1. B \subseteq SUBSET T
    OBVIOUS
  <2>. HIDE DEF B
  <2>. QED  BY <2>1, Smallest
<1>2. s \in SUBSET T /\ s \in SUBSET S /\ g[s] # h[s]
  OBVIOUS
<1>3. /\ g[s] = IF s = {} THEN 0 ELSE f[Pick(s)] + g[s \ {Pick(s)}]
      /\ h[s] = IF s = {} THEN 0 ELSE f[Pick(s)] + h[s \ {Pick(s)}]
  BY <1>2 DEF Adds
<1>4. s # {}
  BY <1>2, <1>3
<1>5. Pick(s) \in s
  BY <1>4 DEF Pick
<1>6. g[s \ {Pick(s)}] = h[s \ {Pick(s)}]
  BY <1>1, <1>2, <1>5
<1>. QED  BY <1>2, <1>3, <1>4, <1>6

(* The table that the sum is read from. *)
Table(f, S) == CHOOSE g : Adds(f, S, g)

LEMMA SumTable ==
    ASSUME NEW f, NEW S
    PROVE  SumFunctionOnSet(f, S) = Table(f, S)[S]
BY DEF SumFunctionOnSet, FoldFunctionOnSet, MapThenFoldSet, Adds, Pick, Table

(* It exists: the sums of all proper subsets make up the one of the set. *)
LEMMA TableAdds ==
    ASSUME NEW f, NEW S, IsFiniteSet(S)
    PROVE  Adds(f, S, Table(f, S))
<1>. DEFINE B == {T \in SUBSET S : ~Adds(f, T, Table(f, T))}
<1>. SUFFICES ASSUME B # {} PROVE FALSE
  OBVIOUS
<1>1. PICK T \in B : IsFiniteSet(T) /\ \A U \in SUBSET T : U # T => U \notin B
  <2>1. B \subseteq SUBSET S
    OBVIOUS
  <2>. HIDE DEF B
  <2>. QED  BY <2>1, Smallest
<1>2. T \in SUBSET S /\ ~Adds(f, T, Table(f, T))
  OBVIOUS
<1>. DEFINE part(s) == s \ {Pick(s)}
            G == [s \in SUBSET T |-> IF s = {} THEN 0
                                     ELSE f[Pick(s)] + Table(f, part(s))[part(s)]]
<1>3. ASSUME NEW s \in SUBSET T, s # {}
      PROVE  G[part(s)] = Table(f, part(s))[part(s)]
  <2>. DEFINE U == part(s)
  <2>1. Pick(s) \in s
    BY <1>3 DEF Pick
  <2>2. U \in SUBSET T /\ U # T
    BY <2>1
  <2>3. Adds(f, U, Table(f, U))
    BY <1>1, <1>2, <2>2
  <2>4. CASE U = {}
    <3>1. Table(f, U)[U] = 0
      BY <2>3, <2>4 DEF Adds
    <3>. QED  BY <2>2, <2>4, <3>1
  <2>5. CASE U # {}
    <3>. DEFINE V == part(U)
    <3>1. Pick(U) \in U
      BY <2>5 DEF Pick
    <3>2. V \in SUBSET U /\ V \in SUBSET T /\ V # T /\ IsFiniteSet(V)
      BY <1>1, <2>2, <3>1, FS_Subset
    <3>3. Adds(f, V, Table(f, V))
      BY <1>1, <1>2, <3>2
    <3>4. Table(f, U)[V] = Table(f, V)[V]
      BY <2>3, <3>2, <3>3, AddsAgree
    <3>5. Table(f, U)[U] = f[Pick(U)] + Table(f, U)[V]
      BY <2>3, <2>5 DEF Adds
    <3>6. G[U] = f[Pick(U)] + Table(f, V)[V]
      BY <2>2, <2>5
    <3>. QED  BY <3>4, <3>5, <3>6
  <2>. QED  BY <2>4, <2>5
<1>4. Adds(f, T, G)
  BY <1>3 DEF Adds
<1>5. Adds(f, T, Table(f, T))
  <2>. HIDE DEF G
  <2>. QED  BY <1>4 DEF Table
<1>. QED  BY <1>2, <1>5

(* The equations of a sum. *)
LEMMA SumEmpty == ASSUME NEW f PROVE SumFunctionOnSet(f, {}) = 0
<1>1. Adds(f, {}, Table(f, {}))
  BY FS_EmptySet, TableAdds
<1>2. Table(f, {})[{}] = 0
  BY <1>1 DEF Adds
<1>. QED  BY <1>2, SumTable

LEMMA SumPick ==
    ASSUME NEW f, NEW S, IsFiniteSet(S), S # {}
    PROVE  /\ Pick(S) \in S
           /\ SumFunctionOnSet(f, S) = f[Pick(S)] + SumFunctionOnSet(f, S \ {Pick(S)})
<1>. DEFINE U == S \ {Pick(S)}
<1>1. Adds(f, S, Table(f, S))
  BY TableAdds
<1>2. IsFiniteSet(U) /\ U \subseteq S
  BY FS_Subset
<1>3. Adds(f, U, Table(f, U))
  BY <1>2, TableAdds
<1>4. Table(f, S)[U] = Table(f, U)[U]
  <2>1. \A s \in SUBSET U : Table(f, S)[s] = Table(f, U)[s]
    <3>. HIDE DEF U
    <3>. QED  BY <1>1, <1>2, <1>3, AddsAgree
  <2>. QED  BY <2>1
<1>5. Table(f, S)[S] = f[Pick(S)] + Table(f, S)[U]
  BY <1>1 DEF Adds
<1>6. Pick(S) \in S
  BY DEF Pick
<1>. QED  BY <1>4, <1>5, <1>6, SumTable

(* The sum of integers is an integer, and any term may be taken out first. *)
LEMMA SumSplit ==
    ASSUME NEW f, NEW S, IsFiniteSet(S), \A x \in S : f[x] \in Int
    PROVE  /\ SumFunctionOnSet(f, S) \in Int
           /\ \A x \in S : SumFunctionOnSet(f, S) = f[x] + SumFunctionOnSet(f, S \ {x})
<1>. DEFINE Good(T) == /\ SumFunctionOnSet(f, T) \in Int
                       /\ \A x \in T : SumFunctionOnSet(f, T)
                                         = f[x] + SumFunctionOnSet(f, T \ {x})
            B == {T \in SUBSET S : ~Good(T)}
<1>. SUFFICES ASSUME B # {} PROVE FALSE
  OBVIOUS
<1>1. PICK T \in B : IsFiniteSet(T) /\ \A U \in SUBSET T : U # T => U \notin B
  <2>1. B \subseteq SUBSET S
    OBVIOUS
  <2>. HIDE DEF B
  <2>. QED  BY <2>1, Smallest
<1>2. T \in SUBSET S /\ ~Good(T) /\ \A U \in SUBSET T : U # T => Good(U)
  BY <1>1
<1>. DEFINE p == Pick(T)
            Sum(U) == SumFunctionOnSet(f, U)
<1>3. T # {}
  <2>1. Good({})
    BY SumEmpty
  <2>. QED  BY <1>2, <2>1
<1>4. p \in T /\ Sum(T) = f[p] + Sum(T \ {p})
  BY <1>1, <1>3, SumPick
<1>5. Good(T \ {p})
  BY <1>2, <1>4
<1>6. Sum(T) \in Int /\ f[p] \in Int
  BY <1>2, <1>4, <1>5
<1>7. ASSUME NEW x \in T PROVE Sum(T) = f[x] + Sum(T \ {x})
  <2>1. CASE x = p
    BY <1>4, <2>1
  <2>2. CASE x # p
    <3>1. x \in T \ {p} /\ p \in T \ {x} /\ f[x] \in Int
      BY <1>2, <1>4, <2>2
    <3>2. Good(T \ {x}) /\ Good((T \ {p}) \ {x})
      BY <1>2, <1>4, <3>1
    <3>3. (T \ {p}) \ {x} = (T \ {x}) \ {p}
      OBVIOUS
    <3>4. Sum(T \ {p}) = f[x] + Sum((T \ {p}) \ {x})
      BY <1>5, <3>1
    <3>5. Sum(T \ {x}) = f[p] + Sum((T \ {p}) \ {x})
      BY <3>1, <3>2, <3>3
    <3>6. Sum((T \ {p}) \ {x}) \in Int
      BY <3>2
    <3>. HIDE DEF Sum
    <3>. QED  BY <1>4, <1>6, <3>1, <3>4, <3>5, <3>6
  <2>. QED  BY <2>1, <2>2
<1>. QED  BY <1>2, <1>6, <1>7

(* The sum depends on the terms of the set only. *)
LEMMA SumSame ==
    ASSUME NEW f, NEW g, NEW S, IsFiniteSet(S), \A x \in S : f[x] = g[x]
    PROVE  SumFunctionOnSet(f, S) = SumFunctionOnSet(g, S)
<1>. DEFINE B == {T \in SUBSET S : SumFunctionOnSet(f, T) # SumFunctionOnSet(g, T)}
<1>. SUFFICES ASSUME B # {} PROVE FALSE
  OBVIOUS
<1>1. PICK T \in B : IsFiniteSet(T) /\ \A U \in SUBSET T : U # T => U \notin B
  <2>1. B \subseteq SUBSET S
    OBVIOUS
  <2>. HIDE DEF B
  <2>. QED  BY <2>1, Smallest
<1>2. T \in SUBSET S /\ SumFunctionOnSet(f, T) # SumFunctionOnSet(g, T)
  OBVIOUS
<1>3. T # {}
  BY <1>2, SumEmpty
<1>4. /\ Pick(T) \in T
      /\ SumFunctionOnSet(f, T) = f[Pick(T)] + SumFunctionOnSet(f, T \ {Pick(T)})
      /\ SumFunctionOnSet(g, T) = g[Pick(T)] + SumFunctionOnSet(g, T \ {Pick(T)})
  BY <1>1, <1>3, SumPick
<1>5. T \ {Pick(T)} \in SUBSET S /\ T \ {Pick(T)} \notin B
  BY <1>1, <1>2, <1>4
<1>6. SumFunctionOnSet(f, T \ {Pick(T)}) = SumFunctionOnSet(g, T \ {Pick(T)})
  BY <1>5
<1>7. f[Pick(T)] = g[Pick(T)]
  BY <1>2, <1>4
<1>. QED  BY <1>2, <1>4, <1>6, <1>7

(* One term of the sum changes. *)
LEMMA SumChange ==
    ASSUME NEW f, NEW g, NEW S, IsFiniteSet(S), NEW x \in S,
           \A y \in S : f[y] \in Int, g[x] \in Int, \A y \in S \ {x} : g[y] = f[y]
    PROVE  SumFunctionOnSet(g, S) = SumFunctionOnSet(f, S) + (g[x] - f[x])
<1>1. \A y \in S : g[y] \in Int
  OBVIOUS
<1>2. IsFiniteSet(S \ {x})
  BY FS_Subset
<1>3. SumFunctionOnSet(g, S) = g[x] + SumFunctionOnSet(g, S \ {x})
  BY <1>1, SumSplit
<1>4. /\ SumFunctionOnSet(f, S) \in Int
      /\ SumFunctionOnSet(f, S) = f[x] + SumFunctionOnSet(f, S \ {x})
  BY SumSplit
<1>5. SumFunctionOnSet(f, S \ {x}) \in Int
  BY <1>2, SumSplit
<1>6. SumFunctionOnSet(g, S \ {x}) = SumFunctionOnSet(f, S \ {x})
  BY <1>2, SumSame
<1>. QED  BY <1>3, <1>4, <1>5, <1>6

(* A new term. *)
LEMMA SumMore ==
    ASSUME NEW f, NEW S, IsFiniteSet(S), NEW x, x \notin S,
           \A y \in S \cup {x} : f[y] \in Int
    PROVE  SumFunctionOnSet(f, S \cup {x}) = SumFunctionOnSet(f, S) + f[x]
<1>1. IsFiniteSet(S \cup {x})
  BY FS_AddElement
<1>2. x \in S \cup {x} /\ (S \cup {x}) \ {x} = S
  OBVIOUS
<1>3. SumFunctionOnSet(f, S \cup {x}) = f[x] + SumFunctionOnSet(f, S)
  BY <1>1, <1>2, SumSplit
<1>4. SumFunctionOnSet(f, S) \in Int
  BY SumSplit
<1>. QED  BY <1>3, <1>4

(* No term is less than that of the other sum. *)
LEMMA SumAtMost ==
    ASSUME NEW f, NEW g, NEW S, IsFiniteSet(S),
           \A x \in S : f[x] \in Int /\ g[x] \in Int /\ f[x] <= g[x]
    PROVE  SumFunctionOnSet(f, S) <= SumFunctionOnSet(g, S)
<1>. DEFINE B == {T \in SUBSET S : ~(SumFunctionOnSet(f, T) <= SumFunctionOnSet(g, T))}
<1>. SUFFICES ASSUME B # {} PROVE FALSE
  OBVIOUS
<1>1. PICK T \in B : IsFiniteSet(T) /\ \A U \in SUBSET T : U # T => U \notin B
  <2>1. B \subseteq SUBSET S
    OBVIOUS
  <2>. HIDE DEF B
  <2>. QED  BY <2>1, Smallest
<1>2. T \in SUBSET S /\ ~(SumFunctionOnSet(f, T) <= SumFunctionOnSet(g, T))
  OBVIOUS
<1>3. T # {}
  BY <1>2, SumEmpty
<1>4. /\ Pick(T) \in T
      /\ SumFunctionOnSet(f, T) = f[Pick(T)] + SumFunctionOnSet(f, T \ {Pick(T)})
      /\ SumFunctionOnSet(g, T) = g[Pick(T)] + SumFunctionOnSet(g, T \ {Pick(T)})
  BY <1>1, <1>3, SumPick
<1>5. T \ {Pick(T)} \in SUBSET S /\ T \ {Pick(T)} \notin B /\ IsFiniteSet(T \ {Pick(T)})
  BY <1>1, <1>2, <1>4, FS_Subset
<1>6. SumFunctionOnSet(f, T \ {Pick(T)}) <= SumFunctionOnSet(g, T \ {Pick(T)})
  BY <1>5
<1>7. /\ SumFunctionOnSet(f, T \ {Pick(T)}) \in Int
      /\ SumFunctionOnSet(g, T \ {Pick(T)}) \in Int
  BY <1>5, SumSplit
<1>8. f[Pick(T)] \in Int /\ g[Pick(T)] \in Int /\ f[Pick(T)] <= g[Pick(T)]
  BY <1>2, <1>4
<1>. QED  BY <1>2, <1>4, <1>6, <1>7, <1>8

(* The terms outside a subset add nothing. *)
LEMMA SumSupport ==
    ASSUME NEW f, NEW S, IsFiniteSet(S), NEW T, T \subseteq S,
           \A x \in S : f[x] \in Int, \A x \in S \ T : f[x] = 0
    PROVE  SumFunctionOnSet(f, S) = SumFunctionOnSet(f, T)
<1>. DEFINE B == {U \in SUBSET S : T \subseteq U /\ SumFunctionOnSet(f, U) # SumFunctionOnSet(f, T)}
<1>. SUFFICES ASSUME B # {} PROVE FALSE
  OBVIOUS
<1>1. PICK U \in B : IsFiniteSet(U) /\ \A V \in SUBSET U : V # U => V \notin B
  <2>1. B \subseteq SUBSET S
    OBVIOUS
  <2>. HIDE DEF B
  <2>. QED  BY <2>1, Smallest
<1>2. U \in SUBSET S /\ T \subseteq U /\ SumFunctionOnSet(f, U) # SumFunctionOnSet(f, T)
  OBVIOUS
<1>3. PICK x \in U : x \notin T
  BY <1>2
<1>4. U \ {x} \in SUBSET S /\ T \subseteq U \ {x} /\ U \ {x} \notin B /\ IsFiniteSet(U \ {x})
  BY <1>1, <1>2, <1>3, FS_Subset
<1>5. SumFunctionOnSet(f, U \ {x}) = SumFunctionOnSet(f, T)
  BY <1>4
<1>6. SumFunctionOnSet(f, U) = f[x] + SumFunctionOnSet(f, U \ {x})
  BY <1>1, <1>2, SumSplit
<1>7. f[x] = 0 /\ SumFunctionOnSet(f, U \ {x}) \in Int
  BY <1>2, <1>3, <1>4, SumSplit
<1>. QED  BY <1>2, <1>5, <1>6, <1>7

(* A part of a sum of terms that are not negative, each term at most as large. *)
LEMMA SumPart ==
    ASSUME NEW f, NEW S, IsFiniteSet(S), NEW h, NEW T, T \subseteq S,
           \A x \in S : f[x] \in Int /\ 0 <= f[x],
           \A x \in T : h[x] \in Int /\ h[x] <= f[x]
    PROVE  SumFunctionOnSet(h, T) <= SumFunctionOnSet(f, S)
<1>. DEFINE g == [x \in S |-> IF x \in T THEN h[x] ELSE 0]
<1>1. /\ \A x \in S : g[x] \in Int /\ g[x] <= f[x]
      /\ \A x \in S \ T : g[x] = 0
      /\ \A x \in T : g[x] = h[x]
  OBVIOUS
<1>2. IsFiniteSet(T)
  BY FS_Subset
<1>. HIDE DEF g
<1>3. SumFunctionOnSet(g, S) <= SumFunctionOnSet(f, S)
  BY <1>1, SumAtMost
<1>4. SumFunctionOnSet(g, S) = SumFunctionOnSet(g, T)
  BY <1>1, SumSupport
<1>5. SumFunctionOnSet(g, T) = SumFunctionOnSet(h, T)
  BY <1>1, <1>2, SumSame
<1>. QED  BY <1>3, <1>4, <1>5
=============================================================================
