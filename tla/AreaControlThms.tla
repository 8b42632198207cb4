-------------------------- MODULE AreaControlThms --------------------------
(***************************************************************************)
(* Theorems about AreaControl.tla, for any AGVs, areas, numbers and        *)
(* restarts.                                                               *)
(***************************************************************************)
EXTENDS AreaControl, FiniteSetTheorems, FunctionTheorems, SequenceTheorems, TLAPS

(***************************************************************************)
(* The i-th number of a set.                                               *)
(***************************************************************************)
UpTo(S, n) == {m \in S : m <= n}

LEMMA RankType ==
  ASSUME NEW S \in SUBSET Nat, IsFiniteSet(S), NEW n \in S
  PROVE  Cardinality(UpTo(S, n)) \in 1..Cardinality(S)
<1>1. UpTo(S, n) \in SUBSET S /\ n \in UpTo(S, n)
  BY DEF UpTo
<1>2. IsFiniteSet(UpTo(S, n)) /\ Cardinality(UpTo(S, n)) <= Cardinality(S)
  BY <1>1, FS_Subset
<1>3. Cardinality(UpTo(S, n)) # 0
  BY <1>1, <1>2, FS_EmptySet
<1> QED  BY <1>2, <1>3, FS_CardinalityType

LEMMA RankApart ==
  ASSUME NEW S \in SUBSET Nat, IsFiniteSet(S), NEW n \in S, NEW m \in S,
         Cardinality(UpTo(S, n)) = Cardinality(UpTo(S, m))
  PROVE  n = m
<1>1. ASSUME NEW x \in S, NEW y \in S, x < y,
             Cardinality(UpTo(S, x)) = Cardinality(UpTo(S, y))
      PROVE  FALSE
  <2> \A w \in S : w \in Nat
    OBVIOUS
  <2>1. UpTo(S, x) \in SUBSET UpTo(S, y) /\ y \in UpTo(S, y) /\ y \notin UpTo(S, x)
    <3>1. ASSUME NEW w \in UpTo(S, x)
          PROVE  w \in UpTo(S, y)
      BY <1>1, <3>1 DEF UpTo
    <3>2. y \in UpTo(S, y) /\ y \notin UpTo(S, x)
      BY <1>1 DEF UpTo
    <3> QED  BY <3>1, <3>2
  <2>2. UpTo(S, y) \in SUBSET S
    BY DEF UpTo
  <2>3. IsFiniteSet(UpTo(S, y))
    BY <2>2, FS_Subset
  <2> QED  BY <1>1, <2>1, <2>3, FS_Subset
<1> QED  BY <1>1

LEMMA RankOnto ==
  ASSUME NEW S \in SUBSET Nat, IsFiniteSet(S), NEW i \in 1..Cardinality(S)
  PROVE  \E n \in S : Cardinality(UpTo(S, n)) = i
<1> DEFINE T == 1..Cardinality(S)
           rank == [n \in S |-> Cardinality(UpTo(S, n))]
<1>1. rank \in [S -> T]
  BY RankType
<1>2. rank \in Injection(S, T)
  BY <1>1, RankApart, Fun_IsInj
<1> HIDE DEF rank
<1>3. IsFiniteSet(T) /\ Cardinality(T) = Cardinality(S)
  BY FS_CardinalityType, FS_Interval
<1>4. rank \in Surjection(S, T)
  BY <1>2, <1>3, FS_Injection
<1>5. \A t \in T : \E n \in S : rank[n] = t
  BY <1>4, Fun_SurjectionProperties
<1> QED  BY <1>5 DEF rank

LEMMA NthRank ==
  ASSUME NEW S \in SUBSET Nat, IsFiniteSet(S), NEW i \in 1..Cardinality(S)
  PROVE  Nth(S, i) \in S /\ Cardinality(UpTo(S, Nth(S, i))) = i
BY RankOnto DEF Nth, UpTo

LEMMA NthApart ==
  ASSUME NEW S \in SUBSET Nat, IsFiniteSet(S),
         NEW i \in 1..Cardinality(S), NEW j \in 1..Cardinality(S), Nth(S, i) = Nth(S, j)
  PROVE  i = j
BY NthRank

LEMMA NthOnto ==
  ASSUME NEW S \in SUBSET Nat, IsFiniteSet(S), NEW n \in S
  PROVE  \E i \in 1..Cardinality(S) : Nth(S, i) = n
<1>1. PICK i \in 1..Cardinality(S) : Cardinality(UpTo(S, n)) = i
  BY RankType
<1>2. PICK m \in S : m = Nth(S, i) /\ Cardinality(UpTo(S, m)) = i
  BY NthRank
<1> QED  BY <1>1, <1>2, RankApart

(* The i-th of a set of positions is not before i. *)
LEMMA NthBound ==
  ASSUME NEW k \in Nat, NEW S \in SUBSET (1..k), NEW i \in 1..Cardinality(S)
  PROVE  Nth(S, i) \in 1..k /\ i <= Nth(S, i)
<1>1. IsFiniteSet(1..k) /\ S \in SUBSET Nat
  BY FS_Interval
<1> IsFiniteSet(S)
  BY <1>1, FS_Subset
<1>2. PICK n \in S : n = Nth(S, i) /\ Cardinality(UpTo(S, n)) = i
  BY <1>1, NthRank
<1>3. UpTo(S, n) \subseteq 1..n
  <2>1. ASSUME NEW m \in UpTo(S, n)
        PROVE  m \in 1..n
    BY <2>1 DEF UpTo
  <2> QED  BY <2>1
<1>4. n \in 1..k
  BY <1>2
<1>5. IsFiniteSet(1..n) /\ Cardinality(1..n) = n
  BY <1>4, FS_Interval
<1>6. Cardinality(UpTo(S, n)) <= Cardinality(1..n)
  BY <1>3, <1>5, FS_Subset
<1> QED  BY <1>2, <1>4, <1>5, <1>6

LEMMA AscendingProperties ==
  ASSUME NEW S \in SUBSET Nat, IsFiniteSet(S)
  PROVE  /\ Ascending(S) \in Seq(S)
         /\ Range(Ascending(S)) = S
         /\ IsInjective(Ascending(S))
<1>1. Cardinality(S) \in Nat
  BY FS_CardinalityType
<1>2. \A i \in 1..Cardinality(S) : Nth(S, i) \in S
  BY NthRank
<1>3. Ascending(S) \in [1..Cardinality(S) -> S]
  BY <1>2 DEF Ascending
<1>4. Ascending(S) \in Seq(S)
  BY <1>1, <1>3, SeqDef
<1>5. DOMAIN Ascending(S) = 1..Cardinality(S)
  BY DEF Ascending
<1>6. \A i \in 1..Cardinality(S) : Ascending(S)[i] = Nth(S, i)
  BY DEF Ascending
<1>7. Range(Ascending(S)) = S
  <2>1. Range(Ascending(S)) \subseteq S
    BY <1>2, <1>5, <1>6 DEF Range
  <2>2. ASSUME NEW n \in S
        PROVE  n \in Range(Ascending(S))
    <3>1. PICK i \in 1..Cardinality(S) : Nth(S, i) = n
      BY NthOnto
    <3> QED  BY <1>5, <1>6, <3>1 DEF Range
  <2> QED  BY <2>1, <2>2
<1>8. IsInjective(Ascending(S))
  BY <1>5, <1>6, NthApart DEF IsInjective
<1> QED  BY <1>4, <1>7, <1>8
-----------------------------------------------------------------------------
(***************************************************************************)
(* Keep leaves out what is not in the set, and nobody behind falls back.   *)
(***************************************************************************)
Ids == Agv \cup {Blank}

Kept(s, S) == {i \in DOMAIN s : s[i] \in S}

LEMMA KeepDef ==
  ASSUME NEW s \in Seq(Ids), NEW S \in SUBSET Ids
  PROVE  Keep[S][s] = [i \in 1..Cardinality(Kept(s, S)) |-> s[Nth(Kept(s, S), i)]]
BY DEF Keep, Ids, Kept

LEMMA KeepProperties ==
  ASSUME NEW s \in Seq(Ids), NEW S \in SUBSET Ids, NEW k, k = Keep[S][s]
  PROVE  /\ k \in Seq(S)
         /\ Range(k) = Range(s) \cap S
         /\ IsInjective(s) => IsInjective(k)
         /\ IsInjective(s) => \A i \in DOMAIN k, j \in DOMAIN s : k[i] = s[j] => i <= j
<1> PICK P : P = Kept(s, S)
  OBVIOUS
<1>1. DOMAIN s = 1..Len(s) /\ Len(s) \in Nat /\ P \in SUBSET (1..Len(s)) /\ P \in SUBSET Nat
  BY DEF Kept
<1>2. IsFiniteSet(P) /\ Cardinality(P) \in Nat
  <2>1. IsFiniteSet(1..Len(s))
    BY <1>1, FS_Interval
  <2>2. IsFiniteSet(P)
    BY <1>1, <2>1, FS_Subset
  <2> QED  BY <2>2, FS_CardinalityType
<1>3. /\ DOMAIN k = 1..Cardinality(P)
      /\ \A i \in 1..Cardinality(P) : k[i] = s[Nth(P, i)]
      /\ k = [i \in 1..Cardinality(P) |-> k[i]]
  <2>1. k = [i \in 1..Cardinality(P) |-> s[Nth(P, i)]]
    BY KeepDef
  <2> QED  BY <2>1
<1>4. \A i \in 1..Cardinality(P) : Nth(P, i) \in P /\ i <= Nth(P, i)
  BY <1>1, <1>2, NthRank, NthBound
<1>5. \A i \in P : s[i] \in S /\ i \in DOMAIN s
  BY DEF Kept
<1>6. k \in Seq(S)
  <2>1. \A i \in 1..Cardinality(P) : k[i] \in S
    BY <1>3, <1>4, <1>5
  <2>2. k \in [1..Cardinality(P) -> S]
    BY <1>3, <2>1
  <2> QED  BY <1>2, <2>2, SeqDef
<1>7. Range(k) = Range(s) \cap S
  <2>1. ASSUME NEW v \in Range(k)
        PROVE  v \in Range(s) \cap S
    <3>1. PICK i \in 1..Cardinality(P) : v = k[i]
      BY <1>3, <2>1 DEF Range
    <3> QED  BY <1>3, <1>4, <1>5, <3>1 DEF Range
  <2>2. ASSUME NEW v \in Range(s) \cap S
        PROVE  v \in Range(k)
    <3>1. PICK j \in DOMAIN s : v = s[j]
      BY <2>2 DEF Range
    <3>2. j \in P
      BY <2>2, <3>1 DEF Kept
    <3>3. PICK i \in 1..Cardinality(P) : Nth(P, i) = j
      BY <1>1, <1>2, <3>2, NthOnto
    <3> QED  BY <1>3, <3>1, <3>3 DEF Range
  <2> QED  BY <2>1, <2>2
<1>8. ASSUME IsInjective(s)
      PROVE  /\ IsInjective(k)
             /\ \A i \in DOMAIN k, j \in DOMAIN s : k[i] = s[j] => i <= j
  <2>1. ASSUME NEW i \in DOMAIN k, NEW j \in DOMAIN s, k[i] = s[j]
        PROVE  Nth(P, i) = j /\ i <= j
    BY <1>3, <1>4, <1>5, <1>8, <2>1 DEF IsInjective
  <2>2. ASSUME NEW i \in DOMAIN k, NEW j \in DOMAIN k, k[i] = k[j]
        PROVE  i = j
    <3>1. PICK n \in DOMAIN s : n = Nth(P, j) /\ k[j] = s[n]
      BY <1>3, <1>4, <1>5
    <3>2. Nth(P, i) = Nth(P, j)
      BY <2>1, <2>2, <3>1
    <3> QED  BY <1>1, <1>2, <1>3, <3>2, NthApart
  <2> QED  BY <2>1, <2>2 DEF IsInjective
<1> QED  BY <1>6, <1>7, <1>8

(* Two lists that have nothing in common, one behind the other. *)
LEMMA ConcatLists ==
  ASSUME NEW s \in Seq(Ids), NEW t \in Seq(Ids), NEW c, c = s \o t
  PROVE  /\ c \in Seq(Ids)
         /\ Range(c) = Range(s) \cup Range(t)
         /\ \A i \in DOMAIN s : i \in DOMAIN c /\ c[i] = s[i]
         /\ IsInjective(s) /\ IsInjective(t) /\ Range(s) \cap Range(t) = {} => IsInjective(c)
<1>1. /\ c \in Seq(Ids) /\ Len(c) = Len(s) + Len(t) /\ Len(s) \in Nat /\ Len(t) \in Nat
      /\ \A i \in 1..Len(s) + Len(t) : c[i] = IF i <= Len(s) THEN s[i] ELSE t[i - Len(s)]
  BY ConcatProperties
<1>2. DOMAIN c = 1..Len(s) + Len(t) /\ DOMAIN s = 1..Len(s) /\ DOMAIN t = 1..Len(t)
  BY <1>1
<1>3. \A i \in DOMAIN s : i \in DOMAIN c /\ c[i] = s[i]
  BY <1>1, <1>2
<1>4. \A i \in DOMAIN t : Len(s) + i \in DOMAIN c /\ c[Len(s) + i] = t[i]
  BY <1>1, <1>2
<1>5. \A i \in DOMAIN c : \/ i \in DOMAIN s
                          \/ i - Len(s) \in DOMAIN t /\ i > Len(s) /\ c[i] = t[i - Len(s)]
  BY <1>1, <1>2
<1>6. Range(c) = Range(s) \cup Range(t)
  <2>1. ASSUME NEW x \in Range(c)
        PROVE  x \in Range(s) \cup Range(t)
    BY <1>3, <1>5, <2>1 DEF Range
  <2>2. ASSUME NEW x \in Range(s) \cup Range(t)
        PROVE  x \in Range(c)
    <3>1. CASE x \in Range(s)
      BY <1>3, <3>1 DEF Range
    <3>2. CASE x \in Range(t)
      BY <1>4, <3>2 DEF Range
    <3> QED  BY <2>2, <3>1, <3>2
  <2> QED  BY <2>1, <2>2
<1>7. ASSUME IsInjective(s), IsInjective(t), Range(s) \cap Range(t) = {},
             NEW i \in DOMAIN c, NEW j \in DOMAIN c, c[i] = c[j]
      PROVE  i = j
  <2>1. \A m \in DOMAIN s, n \in DOMAIN t : s[m] # t[n]
    BY <1>7 DEF Range
  <2>2. CASE i \in DOMAIN s /\ j \in DOMAIN s
    BY <1>3, <1>7, <2>2 DEF IsInjective
  <2>3. CASE i \in DOMAIN s /\ j \notin DOMAIN s
    BY <1>3, <1>5, <1>7, <2>1, <2>3
  <2>4. CASE i \notin DOMAIN s /\ j \in DOMAIN s
    BY <1>3, <1>5, <1>7, <2>1, <2>4
  <2>5. CASE i \notin DOMAIN s /\ j \notin DOMAIN s
    <3>1. i - Len(s) = j - Len(s)
      BY <1>5, <1>7, <2>5 DEF IsInjective
    <3> QED  BY <1>1, <1>2, <3>1
  <2> QED  BY <2>2, <2>3, <2>4, <2>5
<1> QED  BY <1>1, <1>3, <1>6, <1>7 DEF IsInjective
-----------------------------------------------------------------------------
(***************************************************************************)
(* The lists of an area.                                                   *)
(***************************************************************************)
LEMMA NumbersFinite ==
  ASSUME NEW S \in SUBSET Agv
  PROVE  S \in SUBSET Nat /\ S \in SUBSET Ids /\ IsFiniteSet(S)
<1>1. IsFiniteSet(S)
  BY AreasAssumption, FS_Subset
<1>2. S \in SUBSET Nat /\ S \in SUBSET Ids
  BY AreasAssumption DEF Ids
<1> QED  BY <1>1, <1>2

LEMMA RunningProperties ==
  ASSUME AreaTypeOK, NEW a \in Area
  PROVE  /\ RunningList(a) \in Seq(Ids) /\ IsInjective(RunningList(a))
         /\ Range(info[a]) \subseteq Range(RunningList(a))
         /\ Range(RunningList(a)) \subseteq Range(info[a]) \cup {Blank}
         /\ \A i \in DOMAIN info[a] :
              i \in DOMAIN RunningList(a) /\ RunningList(a)[i] = info[a][i]
<1> PICK l : l = info[a]
  OBVIOUS
<1> PICK r : r = RunningList(a)
  OBVIOUS
<1>1. l \in Seq(Agv) /\ l \in Seq(Ids) /\ IsInjective(l) /\ Blank \notin Agv
  <2>1. l \in Seq(Agv) /\ IsInjective(l) /\ Blank \notin Agv
    BY AreasAssumption DEF AreaTypeOK
  <2> QED  BY <2>1, SeqMonotonic DEF Ids
<1>2. CASE l = <<>>
  <2>1. r = <<>> /\ r \in Seq(Ids)
    BY <1>2, EmptySeq DEF RunningList
  <2> QED  BY <1>1, <1>2, <2>1 DEF IsInjective, Range
<1>3. CASE l # <<>>
  <2>1. r = Append(l, Blank)
    BY <1>3 DEF RunningList
  <2>2. /\ r \in Seq(Ids) /\ Len(r) = Len(l) + 1 /\ Len(l) \in Nat
        /\ \A i \in 1..Len(l) : r[i] = l[i]
        /\ r[Len(l) + 1] = Blank
    BY <1>1, <2>1, AppendProperties DEF Ids
  <2>3. DOMAIN l = 1..Len(l) /\ DOMAIN r = 1..Len(l) + 1 /\ \A i \in 1..Len(l) : l[i] \in Agv
    BY <1>1, <2>2
  <2>4. IsInjective(r)
    BY <1>1, <2>2, <2>3, SMTT(30) DEF IsInjective
  <2>5. Range(l) \subseteq Range(r) /\ Range(r) \subseteq Range(l) \cup {Blank}
    BY <2>2, <2>3 DEF Range
  <2> QED  BY <2>2, <2>3, <2>4, <2>5
<1> QED  BY <1>2, <1>3

LEMMA WaitingProperties ==
  ASSUME AreaTypeOK, NEW a \in Area
  PROVE  /\ Waiting(a) \in Seq(Ids) /\ IsInjective(Waiting(a))
         /\ Inside(a) \subseteq Range(Waiting(a))
         /\ Range(Waiting(a)) \subseteq Inside(a) \cup {Blank}
         /\ \A v \in Inside(a) : \A i \in DOMAIN info[a] :
              info[a][i] = v => \E j \in DOMAIN Waiting(a) : j <= i /\ Waiting(a)[j] = v
<1>r. PICK r : r = RunningList(a)
  OBVIOUS
<1>S. PICK S : S = Inside(a) \cup {Blank}
  OBVIOUS
<1>k. PICK k : k = Keep[S][r]
  OBVIOUS
<1>e. PICK e : e = Entered(a)
  OBVIOUS
<1>1. Blank \notin Agv /\ Inside(a) \subseteq Agv /\ S \in SUBSET Ids
  BY <1>S, AreasAssumption DEF Inside, Ids
<1>2. /\ r \in Seq(Ids) /\ IsInjective(r)
      /\ Range(info[a]) \subseteq Range(r) /\ Range(r) \subseteq Range(info[a]) \cup {Blank}
      /\ \A i \in DOMAIN info[a] : i \in DOMAIN r /\ r[i] = info[a][i]
  BY <1>r, RunningProperties
<1>3. /\ k \in Seq(S) /\ Range(k) = Range(r) \cap S /\ IsInjective(k)
      /\ \A i \in DOMAIN k, j \in DOMAIN r : k[i] = r[j] => i <= j
  <2> r \in Seq(Ids) /\ S \in SUBSET Ids
    BY <1>1, <1>2
  <2>1. k \in Seq(S) /\ Range(k) = Range(r) \cap S
    BY <1>k, KeepProperties
  <2>2. IsInjective(k)
    BY <1>2, <1>k, KeepProperties
  <2>3. \A i \in DOMAIN k, j \in DOMAIN r : k[i] = r[j] => i <= j
    BY <1>2, <1>k, KeepProperties
  <2> QED  BY <2>1, <2>2, <2>3
<1>4. /\ e \in Seq(Inside(a) \ Range(info[a]))
      /\ Range(e) = Inside(a) \ Range(info[a]) /\ IsInjective(e)
  BY <1>1, <1>e, NumbersFinite, AscendingProperties DEF Entered
<1>5. k \in Seq(Ids) /\ e \in Seq(Ids)
  BY <1>1, <1>3, <1>4, SeqMonotonic DEF Ids
<1>6. Range(k) \cap Range(e) = {}
  BY <1>1, <1>2, <1>3, <1>4, <1>S
<1>7. PICK w : w = Waiting(a) /\ w = k \o e
  BY <1>r, <1>S, <1>k, <1>e DEF Waiting
<1>8. /\ w \in Seq(Ids) /\ Range(w) = Range(k) \cup Range(e) /\ IsInjective(w)
      /\ \A i \in DOMAIN k : i \in DOMAIN w /\ w[i] = k[i]
  <2> k \in Seq(Ids) /\ e \in Seq(Ids) /\ w = k \o e
    BY <1>5, <1>7
  <2>1. w \in Seq(Ids)
    BY ConcatLists
  <2>4. Range(w) = Range(k) \cup Range(e)
    BY ConcatLists
  <2>3. \A i \in DOMAIN k : i \in DOMAIN w /\ w[i] = k[i]
    BY ConcatLists
  <2>2. IsInjective(w)
    BY <1>3, <1>4, <1>6, ConcatLists
  <2> QED  BY <2>1, <2>2, <2>3, <2>4
<1>9. Inside(a) \subseteq Range(w) /\ Range(w) \subseteq Inside(a) \cup {Blank}
  BY <1>2, <1>3, <1>4, <1>8, <1>S
<1>10. ASSUME NEW v \in Inside(a), NEW i \in DOMAIN info[a], info[a][i] = v
       PROVE  \E j \in DOMAIN w : j <= i /\ w[j] = v
  <2>1. i \in DOMAIN r /\ r[i] = v
    BY <1>2, <1>10
  <2>2. v \in Range(k)
    BY <1>3, <1>S, <2>1 DEF Range
  <2>3. PICK j \in DOMAIN k : k[j] = v
    BY <2>2 DEF Range
  <2>4. j <= i
    BY <1>3, <2>1, <2>3
  <2>5. j \in DOMAIN w /\ w[j] = v
    BY <1>8, <2>3
  <2> QED  BY <2>4, <2>5
<1>11. /\ w \in Seq(Ids) /\ IsInjective(w)
       /\ Inside(a) \subseteq Range(w) /\ Range(w) \subseteq Inside(a) \cup {Blank}
       /\ \A v \in Inside(a) : \A i \in DOMAIN info[a] :
            info[a][i] = v => \E j \in DOMAIN w : j <= i /\ w[j] = v
  BY <1>8, <1>9, <1>10
<1> QED  BY <1>7, <1>11

LEMMA NewInfoProperties ==
  ASSUME AreaTypeOK, NEW a \in Area
  PROVE  /\ NewInfo(a) \in Seq(Agv) /\ IsInjective(NewInfo(a))
         /\ Range(NewInfo(a)) = Inside(a)
         /\ \A j \in DOMAIN Waiting(a) : Waiting(a)[j] # Blank =>
              \E i \in DOMAIN NewInfo(a) : i <= j /\ NewInfo(a)[i] = Waiting(a)[j]
<1> PICK w : w = Waiting(a)
  OBVIOUS
<1> PICK n : n = NewInfo(a)
  OBVIOUS
<1>1. Blank \notin Agv /\ Inside(a) \subseteq Agv /\ Agv \in SUBSET Ids
  BY AreasAssumption DEF Inside, Ids
<1>2. /\ w \in Seq(Ids) /\ IsInjective(w) /\ Inside(a) \subseteq Range(w)
      /\ Range(w) \subseteq Inside(a) \cup {Blank}
  BY WaitingProperties
<1>3. n = Keep[Agv][w]
  BY DEF NewInfo
<1>4. /\ n \in Seq(Agv) /\ Range(n) = Range(w) \cap Agv /\ IsInjective(n)
      /\ \A i \in DOMAIN n, j \in DOMAIN w : n[i] = w[j] => i <= j
  BY <1>1, <1>2, <1>3, KeepProperties
<1>5. Range(n) = Inside(a)
  BY <1>1, <1>2, <1>4
<1>6. ASSUME NEW j \in DOMAIN w, w[j] # Blank
      PROVE  \E i \in DOMAIN n : i <= j /\ n[i] = w[j]
  <2>1. w[j] \in Range(n)
    BY <1>2, <1>5, <1>6 DEF Range
  <2>2. PICK i \in DOMAIN n : n[i] = w[j]
    BY <2>1 DEF Range
  <2> QED  BY <1>4, <2>2
<1> QED  BY <1>4, <1>5, <1>6

LEMMA ToldProperties ==
  ASSUME AreaTypeOK, NEW a \in Area
  PROVE  /\ Exited(a) \in Seq(Agv) /\ Range(Exited(a)) = Range(info[a]) \ Inside(a)
         /\ Told(a) \in Seq(Ids) /\ Range(Told(a)) = Range(info[a]) \cup Inside(a)
<1>1. info[a] \in Seq(Agv) /\ Agv \ Inside(a) \in SUBSET Ids
  BY DEF AreaTypeOK, Ids
<1>2. info[a] \in Seq(Ids) /\ Range(info[a]) \subseteq Agv
  <2>1. \A i \in DOMAIN info[a] : info[a][i] \in Agv
    BY <1>1
  <2>2. Range(info[a]) \subseteq Agv
    BY <2>1 DEF Range
  <2> QED  BY <1>1, <2>2, SeqMonotonic DEF Ids
<1>3. Exited(a) \in Seq(Agv \ Inside(a)) /\ Range(Exited(a)) = Range(info[a]) \cap (Agv \ Inside(a))
  BY <1>1, <1>2, KeepProperties DEF Exited
<1>4. Exited(a) \in Seq(Agv) /\ Range(Exited(a)) = Range(info[a]) \ Inside(a)
  BY <1>2, <1>3, SeqMonotonic
<1>5. NewInfo(a) \in Seq(Agv) /\ Range(NewInfo(a)) = Inside(a)
  BY NewInfoProperties
<1>6. Exited(a) \in Seq(Ids) /\ NewInfo(a) \in Seq(Ids)
  BY <1>4, <1>5, SeqMonotonic DEF Ids
<1>7. Told(a) \in Seq(Ids) /\ Range(Told(a)) = Range(Exited(a)) \cup Range(NewInfo(a))
  BY <1>6, ConcatLists DEF Told
<1> QED  BY <1>4, <1>5, <1>7

LEMMA FirstOnes ==
  ASSUME NEW n \in Nat, NEW S
  PROVE  IsFiniteSet((1..n) \cap S) /\ Cardinality((1..n) \cap S) <= n
<1>1. IsFiniteSet(1..n) /\ Cardinality(1..n) = n
  BY FS_Interval
<1>2. (1..n) \cap S \in SUBSET (1..n)
  OBVIOUS
<1> QED  BY <1>1, <1>2, FS_Subset

(* No more AGVs than the number go on, each of them in the area. *)
LEMMA GoOnProperties ==
  ASSUME AreaTypeOK, NEW a \in Area
  PROVE  /\ GoOn(a) \subseteq Inside(a) \cup {Blank}
         /\ IsFiniteSet(GoOn(a)) /\ Cardinality(GoOn(a)) <= Limit[a]
<1> PICK w : w = Waiting(a)
  OBVIOUS
<1> PICK D : D = (1..Limit[a]) \cap DOMAIN w
  OBVIOUS
<1> PICK f : f = [i \in D |-> w[i]]
  OBVIOUS
<1>1. Limit[a] \in Nat
  BY AreasAssumption
<1>3. IsFiniteSet(D) /\ Cardinality(D) <= Limit[a]
  BY <1>1, FirstOnes
<1>4. f \in Surjection(D, GoOn(a))
  <2>1. f \in [D -> GoOn(a)] /\ \A v \in GoOn(a) : \E i \in D : f[i] = v
    BY DEF GoOn
  <2> QED  BY <2>1, Fun_IsSurj
<1>5. IsFiniteSet(GoOn(a)) /\ Cardinality(GoOn(a)) <= Cardinality(D)
  BY <1>3, <1>4, FS_Surjection
<1>6. GoOn(a) \subseteq Inside(a) \cup {Blank}
  BY WaitingProperties DEF GoOn, Range
<1> QED  BY <1>1, <1>3, <1>5, <1>6, FS_CardinalityType
-----------------------------------------------------------------------------
(***************************************************************************)
(* What a step does to the rows of an AGV.                                 *)
(***************************************************************************)
LEMMA OpValues ==
  /\ Op[1] = "force continue" /\ Op[2] = "force pause"
  /\ Range(Op) = {"force continue", "force pause"}
<1>1. DOMAIN Op = {1, 2} /\ Op[1] = "force continue" /\ Op[2] = "force pause"
  BY DEF Op
<1> QED  BY <1>1 DEF Range

LEMMA CommandType ==
  ASSUME NEW a, NEW v
  PROVE  /\ Command(a, v) \in {1, 2}
         /\ Op[Command(a, v)] = IF Command(a, v) = 1 THEN "force continue" ELSE "force pause"
         /\ Op[Command(a, v)] \in Range(Op)
BY OpValues DEF Command

LEMMA RowsType ==
  ASSUME AreaTypeOK, NEW a, NEW S
  PROVE  Rows(a, S) \in [Agv -> Seq(Range(Op))]
<1> PICK R : R = Range(Op)
  OBVIOUS
<1>1. ops \in [Agv -> Seq(R)]
  BY DEF AreaTypeOK
<1>2. ASSUME NEW v \in Agv
      PROVE  Append(ops[v], Op[Command(a, v)]) \in Seq(R) /\ ops[v] \in Seq(R)
  BY <1>1, CommandType, AppendProperties
<1> QED  BY <1>2 DEF Rows

(* A new row decides. *)
LEMMA ToldByRow ==
  ASSUME AreaTypeOK, NEW v \in Agv, NEW x \in Range(Op), ops'[v] = Append(ops[v], x)
  PROVE  ToldToPause(v)' <=> x = "force pause"
<1> PICK R : R = Range(Op)
  OBVIOUS
<1>1. ops[v] \in Seq(R) /\ x \in R
  BY DEF AreaTypeOK
<1>2. Len(ops[v]) \in Nat /\ Len(ops'[v]) = Len(ops[v]) + 1 /\ ops'[v][Len(ops[v]) + 1] = x
  BY <1>1, AppendProperties
<1>3. ops'[v] # <<>> /\ Last(ops'[v]) = x
  BY <1>2 DEF Last
<1> QED  BY <1>3 DEF ToldToPause

LEMMA ToldSame ==
  ASSUME NEW v, ops'[v] = ops[v], halted'[v] = halted[v]
  PROVE  ToldToPause(v)' <=> ToldToPause(v)
BY DEF ToldToPause

LEMMA TailLast ==
  ASSUME NEW R, NEW s \in Seq(R), s # <<>>, NEW t, t = Tail(s)
  PROVE  /\ t = <<>> => Head(s) = s[Len(s)]
         /\ t # <<>> => t[Len(t)] = s[Len(s)]
<1>1. Len(s) \in Nat \ {0}
  BY EmptySeq
<1>2. t \in Seq(R) /\ Len(t) = Len(s) - 1 /\ \A i \in 1..Len(t) : t[i] = s[i + 1]
  BY HeadTailProperties
<1>3. CASE t = <<>>
  <2>1. Len(t) = 0
    BY <1>3, SMTT(30)
  <2>2. Len(s) = 1
    BY <1>1, <1>2, <2>1
  <2>3. SubSeq(s, 1, 1) = s
    BY <2>2, SubSeqFull
  <2>4. Head(SubSeq(s, 1, 1)) = s[1]
    BY <2>2, HeadTailOfSubSeq
  <2> QED  BY <1>3, <2>2, <2>3, <2>4
<1>4. CASE t # <<>>
  <2>1. Len(t) \in Nat \ {0}
    BY <1>2, <1>4, EmptySeq
  <2>2. t[Len(t)] = s[Len(t) + 1]
    BY <1>2, <2>1
  <2>3. Len(t) + 1 = Len(s)
    BY <1>1, <1>2
  <2> QED  BY <1>4, <2>2, <2>3
<1> QED  BY <1>3, <1>4

LEMMA ToldRead ==
  ASSUME AreaTypeOK, NEW v \in Agv, NEW u \in Agv, ReadRow(u)
  PROVE  ToldToPause(v)' <=> ToldToPause(v)
<1>1. CASE v # u
  <2>1. ops'[v] = ops[v] /\ halted'[v] = halted[v]
    BY <1>1 DEF ReadRow, AreaTypeOK
  <2> QED  BY <2>1, ToldSame
<1>2. CASE v = u
  <2> PICK R : R = Range(Op)
    OBVIOUS
  <2>1. ops[v] \in Seq(R) /\ ops[v] # <<>> /\ ops'[v] = Tail(ops[v])
        /\ halted'[v] = (Head(ops[v]) = "force pause")
    BY <1>2 DEF ReadRow, AreaTypeOK
  <2>2. /\ ops'[v] = <<>> => Head(ops[v]) = ops[v][Len(ops[v])]
        /\ ops'[v] # <<>> => ops'[v][Len(ops'[v])] = ops[v][Len(ops[v])]
    BY <2>1, TailLast
  <2> QED  BY <2>1, <2>2 DEF ToldToPause, Last
<1> QED  BY <1>1, <1>2

(* What controlling an area does, AGV by AGV. *)
LEMMA ControlEffect ==
  ASSUME AreaTypeOK, ControlArea, NEW a, a = Areas[at]
  PROVE  /\ a \in Area /\ at \in 1..Len(Areas) /\ at' = at + 1
         /\ info' = [info EXCEPT ![a] = NewInfo(a)]
         /\ \A v \in Agv :
              /\ v \notin Range(info[a]) \cup Inside(a) =>
                   /\ area_running'[v] = area_running[v]
                   /\ ToldToPause(v)' <=> ToldToPause(v)
                   /\ v \in freed' <=> v \in freed
              /\ v \in Range(info[a]) \cup Inside(a) =>
                   /\ area_running'[v] = Command(a, v)
                   /\ area_running[v] # Command(a, v) => (ToldToPause(v)' <=> Command(a, v) = 2)
                   /\ area_running[v] = Command(a, v) =>
                        (ToldToPause(v)' <=> ToldToPause(v)) /\ (v \in freed' <=> v \in freed)
<1> PICK told : told = Range(Told(a))
  OBVIOUS
<1>1. a \in Area /\ at \in 1..Len(Areas) /\ at' = at + 1
  BY AreasAssumption DEF ControlArea, Area, Range
<1>2. told = Range(info[a]) \cup Inside(a)
  BY <1>1, ToldProperties
<1>3. /\ ops' = Rows(a, told) /\ halted' = halted
      /\ area_running' = [v \in Agv |-> IF v \in told THEN Command(a, v) ELSE area_running[v]]
      /\ info' = [info EXCEPT ![a] = NewInfo(a)]
      /\ freed' = freed \ {v \in told : Command(a, v) # area_running[v]}
  BY DEF ControlArea, agvs
<1>4. ASSUME NEW v \in Agv, v \notin told
      PROVE  /\ area_running'[v] = area_running[v]
             /\ ToldToPause(v)' <=> ToldToPause(v)
             /\ v \in freed' <=> v \in freed
  <2>1. ops'[v] = ops[v] /\ halted'[v] = halted[v]
    BY <1>3, <1>4 DEF Rows
  <2> QED  BY <1>3, <1>4, <2>1, ToldSame
<1>5. ASSUME NEW v \in Agv, v \in told, area_running[v] # Command(a, v)
      PROVE  area_running'[v] = Command(a, v) /\ (ToldToPause(v)' <=> Command(a, v) = 2)
  <2>1. PICK x \in Range(Op) : x = Op[Command(a, v)] /\ (x = "force pause" <=> Command(a, v) = 2)
    BY CommandType, OpValues
  <2>2. ops'[v] = Append(ops[v], x)
    BY <1>3, <1>5, <2>1 DEF Rows
  <2>3. ToldToPause(v)' <=> x = "force pause"
    BY <2>2, ToldByRow
  <2> QED  BY <1>3, <1>5, <2>1, <2>3
<1>6. ASSUME NEW v \in Agv, v \in told, area_running[v] = Command(a, v)
      PROVE  /\ area_running'[v] = Command(a, v)
             /\ ToldToPause(v)' <=> ToldToPause(v)
             /\ v \in freed' <=> v \in freed
  <2>1. ops'[v] = ops[v] /\ halted'[v] = halted[v]
    BY <1>3, <1>6 DEF Rows
  <2> QED  BY <1>3, <1>6, <2>1, ToldSame
<1> QED  BY <1>1, <1>2, <1>3, <1>4, <1>5, <1>6

(* A restart cuts an area off, or changes nothing that an area has told. *)
LEMMA RestartCuts ==
  ASSUME AreaTypeOK, Restart
  PROVE  /\ UNCHANGED <<place, halted, info, seen, still>>
         /\ \/ UNCHANGED <<ops, let, torn>>
            \/ \E a \in Area : \E S \in SUBSET (Range(info[a]) \cup Inside(a)) :
                 S \in SUBSET Agv /\ CutOff(a, S)
<1>1. UNCHANGED <<place, halted, info, seen, still>>
  BY DEF Restart, agvs
<1>2. ASSUME at \in 1..Len(Areas), NEW a, a = Areas[at], NEW k \in 1..Len(Told(a)),
             NEW S, S = Range(SubSeq(Told(a), 1, k))
      PROVE  a \in Area /\ S \in SUBSET (Range(info[a]) \cup Inside(a)) /\ S \in SUBSET Agv
  <2>1. a \in Area
    BY <1>2, AreasAssumption DEF Area, Range
  <2> PICK w : w = Told(a)
    OBVIOUS
  <2>2. w \in Seq(Ids) /\ Range(w) = Range(info[a]) \cup Inside(a)
    BY <2>1, ToldProperties
  <2>3. Len(w) \in Nat /\ k \in 1..Len(w)
    BY <1>2, <2>2
  <2>4. /\ Len(SubSeq(w, 1, k)) = k /\ DOMAIN SubSeq(w, 1, k) = 1..k
        /\ \A i \in 1..k : SubSeq(w, 1, k)[i] = w[i] /\ i \in DOMAIN w
    BY <2>2, <2>3
  <2>5. S \in SUBSET Range(w)
    BY <1>2, <2>4 DEF Range
  <2>6. Range(info[a]) \cup Inside(a) \in SUBSET Agv
    <3>1. info[a] \in Seq(Agv)
      BY <2>1 DEF AreaTypeOK
    <3>2. \A i \in DOMAIN info[a] : info[a][i] \in Agv
      BY <3>1
    <3> QED  BY <3>2 DEF Range, Inside
  <2> QED  BY <2>1, <2>2, <2>5, <2>6
<1>3. \/ UNCHANGED <<ops, let, torn>>
      \/ /\ at \in 1..Len(Areas)
         /\ \E k \in 1..Len(Told(Areas[at])) :
              CutOff(Areas[at], Range(SubSeq(Told(Areas[at]), 1, k)))
  BY DEF Restart
<1> QED  BY <1>1, <1>2, <1>3
-----------------------------------------------------------------------------
LEMMA InitTypes == Init => AreaTypeOK
<1> SUFFICES ASSUME Init PROVE AreaTypeOK
  OBVIOUS
<1>1. Len(Areas) \in Nat /\ <<>> \in Seq(Agv) /\ <<>> \in Seq(Range(Op)) /\ IsInjective(<<>>)
  BY AreasAssumption, EmptySeq, LenProperties DEF IsInjective
<1>2. 0 \in 0..AtRest /\ 0 \in 0..MaxRestarts /\ Outside \in Places
  BY <1>1, AreasAssumption DEF AtRest
<1>3. /\ ops \in [Agv -> Seq(Range(Op))] /\ info \in [Area -> Seq(Agv)]
      /\ \A a \in Area : IsInjective(info[a])
  BY <1>1 DEF Init
<1>4. /\ place \in [Agv -> Places] /\ seen \in [Agv -> Places] /\ halted \in [Agv -> BOOLEAN]
      /\ area_running \in [Agv -> 0..2] /\ let \in [Area -> SUBSET Agv]
  BY <1>2 DEF Init
<1>5. /\ freed \subseteq Agv /\ still \in BOOLEAN /\ torn \in [Area -> SUBSET Agv]
      /\ at \in 0..AtRest /\ restarts \in 0..MaxRestarts
  BY <1>2 DEF Init
<1> QED  BY <1>3, <1>4, <1>5 DEF AreaTypeOK

LEMMA TypesStep ==
  ASSUME AreaTypeOK, [Next]_vars
  PROVE  AreaTypeOK'
<1>1. CASE UNCHANGED vars
  BY <1>1 DEF AreaTypeOK, vars, agvs, history
<1>2. CASE BeginTick
  <2>1. Len(Areas) \in Nat
    BY AreasAssumption
  <2> QED  BY <1>2, <2>1 DEF BeginTick, AreaTypeOK, AtRest, agvs
<1>3. CASE ControlArea
  <2> PICK a : a = Areas[at]
    OBVIOUS
  <2>1. a \in Area /\ at \in 1..Len(Areas) /\ at' = at + 1 /\ Len(Areas) \in Nat
    BY <1>3, ControlEffect, AreasAssumption
  <2>2. ops' \in [Agv -> Seq(Range(Op))]
    BY <1>3, RowsType DEF ControlArea
  <2>3. /\ NewInfo(a) \in Seq(Agv) /\ IsInjective(NewInfo(a))
        /\ GoOn(a) \ {Blank} \subseteq Agv
    BY <2>1, NewInfoProperties, GoOnProperties DEF Inside
  <2>4. /\ info' = [info EXCEPT ![a] = NewInfo(a)]
        /\ let' = [let EXCEPT ![a] = GoOn(a) \ {Blank}]
    BY <1>3 DEF ControlArea
  <2>5. info' \in [Area -> Seq(Agv)] /\ \A b \in Area : IsInjective(info'[b])
    BY <2>1, <2>3, <2>4 DEF AreaTypeOK
  <2>6. let' \in [Area -> SUBSET Agv]
    BY <2>1, <2>3, <2>4 DEF AreaTypeOK
  <2>7. area_running' \in [Agv -> 0..2]
    <3>1. area_running \in [Agv -> 0..2]
      BY DEF AreaTypeOK
    <3>2. \A v : Command(a, v) \in 0..2
      BY DEF Command
    <3> QED  BY <1>3, <3>1, <3>2 DEF ControlArea
  <2>8. freed' \subseteq Agv /\ UNCHANGED <<place, halted, seen, restarts, still>>
    BY <1>3 DEF ControlArea, AreaTypeOK, agvs
  <2>9. torn' \in [Area -> SUBSET Agv]
    BY <1>3, <2>1 DEF ControlArea, AreaTypeOK
  <2> QED  BY <2>1, <2>2, <2>5, <2>6, <2>7, <2>8, <2>9 DEF AreaTypeOK, AtRest
<1>4. CASE Restart
  <2>1. /\ ops' \in [Agv -> Seq(Range(Op))]
        /\ let' \in [Area -> SUBSET Agv] /\ torn' \in [Area -> SUBSET Agv]
    <3>1. /\ ops \in [Agv -> Seq(Range(Op))]
          /\ let \in [Area -> SUBSET Agv] /\ torn \in [Area -> SUBSET Agv]
      BY DEF AreaTypeOK
    <3>2. CASE UNCHANGED <<ops, let, torn>>
      BY <3>1, <3>2
    <3>3. ASSUME NEW a \in Area, NEW S \in SUBSET Agv, CutOff(a, S)
          PROVE  /\ ops' \in [Agv -> Seq(Range(Op))]
                 /\ let' \in [Area -> SUBSET Agv] /\ torn' \in [Area -> SUBSET Agv]
      BY <3>1, <3>3, RowsType DEF CutOff
    <3> QED  BY <1>4, <3>2, <3>3, RestartCuts
  <2>2. restarts' \in 0..MaxRestarts /\ at' \in 0..AtRest
    BY <1>4, AreasAssumption DEF Restart, AreaTypeOK, AtRest
  <2>3. area_running' \in [Agv -> 0..2] /\ freed' \subseteq Agv
        /\ UNCHANGED <<place, halted, info, seen, still>>
    BY <1>4 DEF Restart, agvs
  <2> QED  BY <2>1, <2>2, <2>3 DEF AreaTypeOK
<1>5. ASSUME NEW v \in Agv, UnlockAGV(v)
      PROVE  AreaTypeOK'
  <2> PICK R : R = Range(Op) /\ "force continue" \in R
    BY OpValues
  <2>1. ops \in [Agv -> Seq(R)]
    BY DEF AreaTypeOK
  <2>2. Append(ops[v], "force continue") \in Seq(R)
    BY <2>1, AppendProperties
  <2>3. ops' \in [Agv -> Seq(R)]
    BY <1>5, <2>1, <2>2 DEF UnlockAGV
  <2> QED  BY <1>5, <2>3 DEF UnlockAGV, AreaTypeOK, agvs, AtRest
<1>6. ASSUME NEW v \in Agv, ReadRow(v)
      PROVE  AreaTypeOK'
  <2> PICK R : R = Range(Op)
    OBVIOUS
  <2>1. ops \in [Agv -> Seq(R)]
    BY DEF AreaTypeOK
  <2>2. Tail(ops[v]) \in Seq(R)
    BY <1>6, <2>1, HeadTailProperties DEF ReadRow
  <2>3. ops' \in [Agv -> Seq(R)]
    BY <1>6, <2>1, <2>2 DEF ReadRow
  <2> QED  BY <1>6, <2>3 DEF ReadRow, AreaTypeOK, history, AtRest
<1>7. ASSUME NEW v \in Agv, NEW p \in Places, Drive(v, p)
      PROVE  AreaTypeOK'
  BY <1>7 DEF Drive, AreaTypeOK, history, AtRest
<1> QED  BY <1>1, <1>2, <1>3, <1>4, <1>5, <1>6, <1>7 DEF Next

(***************************************************************************)
(* No AGV is twice in the list of an area, and the lists hold AGVs only.   *)
(***************************************************************************)
THEOREM AreaTypes == Spec => []AreaTypeOK
BY InitTypes, TypesStep, PTL DEF Spec
-----------------------------------------------------------------------------
(***************************************************************************)
(* What the AGVs were told.                                                *)
(***************************************************************************)

(* What was told last is what the AGV will do, unless the operator let it go. *)
ToldIsRead ==
  \A v \in Agv :
    /\ area_running[v] = 1 => ~ToldToPause(v)
    /\ area_running[v] = 2 => ToldToPause(v) \/ v \in freed

LEMMA ToldIsReadStep ==
  ASSUME AreaTypeOK, ToldIsRead, [Next]_vars
  PROVE  ToldIsRead'
<1> SUFFICES ASSUME NEW v \in Agv
             PROVE  /\ area_running'[v] = 1 => ~ToldToPause(v)'
                    /\ area_running'[v] = 2 => ToldToPause(v)' \/ v \in freed'
  BY DEF ToldIsRead
<1>0. /\ area_running[v] = 1 => ~ToldToPause(v)
      /\ area_running[v] = 2 => ToldToPause(v) \/ v \in freed
  BY DEF ToldIsRead
<1>1. CASE UNCHANGED <<ops, halted, area_running, freed>>
  BY <1>0, <1>1, ToldSame
<1>2. CASE ControlArea
  <2> PICK a : a = Areas[at]
    OBVIOUS
  <2>1. CASE v \notin Range(info[a]) \cup Inside(a)
    BY <1>0, <1>2, <2>1, ControlEffect
  <2>2. CASE v \in Range(info[a]) \cup Inside(a) /\ area_running[v] # Command(a, v)
    BY <1>2, <2>2, ControlEffect
  <2>3. CASE v \in Range(info[a]) \cup Inside(a) /\ area_running[v] = Command(a, v)
    BY <1>0, <1>2, <2>3, ControlEffect
  <2> QED  BY <2>1, <2>2, <2>3
<1>3. CASE Restart
  BY <1>3 DEF Restart
<1>4. ASSUME NEW u \in Agv, UnlockAGV(u)
      PROVE  /\ area_running'[v] = 1 => ~ToldToPause(v)'
             /\ area_running'[v] = 2 => ToldToPause(v)' \/ v \in freed'
  <2>1. CASE v # u
    <3>1. /\ ops'[v] = ops[v] /\ halted'[v] = halted[v] /\ freed' = freed \cup {u}
          /\ area_running'[v] = area_running[v]
      BY <1>4, <2>1 DEF UnlockAGV, AreaTypeOK, agvs
    <3> QED  BY <1>0, <2>1, <3>1, ToldSame
  <2>2. CASE v = u
    <3>1. ops'[v] = Append(ops[v], "force continue") /\ "force continue" \in Range(Op)
      BY <1>4, <2>2, OpValues DEF UnlockAGV, AreaTypeOK
    <3>2. ~ToldToPause(v)'
      BY <3>1, ToldByRow
    <3> QED  BY <1>4, <2>2, <3>2 DEF UnlockAGV
  <2> QED  BY <2>1, <2>2
<1>5. ASSUME NEW u \in Agv, ReadRow(u)
      PROVE  /\ area_running'[v] = 1 => ~ToldToPause(v)'
             /\ area_running'[v] = 2 => ToldToPause(v)' \/ v \in freed'
  BY <1>0, <1>5, ToldRead DEF ReadRow, history
<1> QED
  BY <1>1, <1>2, <1>3, <1>4, <1>5 DEF Next, vars, agvs, history, BeginTick, Drive

(***************************************************************************)
(* The order of arrival.                                                   *)
(***************************************************************************)

(* The AGVs an area has let go on are among the first of its INFO, those    *)
(* aside that it told when it was cut off.                                  *)
LetFirst ==
  \A a \in Area : \A v \in let[a] \ torn[a] :
    \E i \in DOMAIN info[a] : i <= Limit[a] /\ info[a][i] = v

LEMMA ControlLets ==
  ASSUME AreaTypeOK, ControlArea, NEW a, a = Areas[at]
  PROVE  /\ let' = [let EXCEPT ![a] = GoOn(a) \ {Blank}]
         /\ \A v \in GoOn(a) \ {Blank} :
              \E i \in DOMAIN NewInfo(a) : i <= Limit[a] /\ NewInfo(a)[i] = v
<1>1. a \in Area /\ let' = [let EXCEPT ![a] = GoOn(a) \ {Blank}]
  BY ControlEffect DEF ControlArea
<1>2. ASSUME NEW v \in GoOn(a) \ {Blank}
      PROVE  \E i \in DOMAIN NewInfo(a) : i <= Limit[a] /\ NewInfo(a)[i] = v
  <2> PICK n : n = NewInfo(a)
    OBVIOUS
  <2>1. PICK j \in (1..Limit[a]) \cap DOMAIN Waiting(a) : v = Waiting(a)[j]
    BY <1>2 DEF GoOn
  <2>2. PICK i \in DOMAIN n : i <= j /\ n[i] = v
    BY <1>1, <1>2, <2>1, NewInfoProperties
  <2>3. n \in Seq(Agv) /\ Limit[a] \in Nat
    BY <1>1, NewInfoProperties, AreasAssumption
  <2>4. i \in Nat /\ i <= Limit[a]
    BY <2>1, <2>2, <2>3
  <2> QED  BY <2>2, <2>4
<1> QED  BY <1>1, <1>2

(* They go on, as long as they are seen in the area. *)
LEMMA LetGoesOn ==
  ASSUME AreaTypeOK, LetFirst, NEW a \in Area, NEW v \in let[a] \ torn[a], v \in Inside(a)
  PROVE  v \in GoOn(a) \ {Blank}
<1>1. PICK i \in DOMAIN info[a] : i <= Limit[a] /\ info[a][i] = v
  BY DEF LetFirst
<1> PICK w : w = Waiting(a)
  OBVIOUS
<1>2. PICK j \in DOMAIN w : j <= i /\ w[j] = v
  BY <1>1, WaitingProperties
<1>3. w \in Seq(Ids) /\ info[a] \in Seq(Agv) /\ Limit[a] \in Nat
  BY WaitingProperties, AreasAssumption DEF AreaTypeOK
<1>4. j \in 1..Limit[a]
  BY <1>1, <1>2, <1>3
<1>5. v \in GoOn(a)
  BY <1>2, <1>4 DEF GoOn
<1> QED  BY <1>5, AreasAssumption DEF Inside

LEMMA LetFirstStep ==
  ASSUME AreaTypeOK, LetFirst, [Next]_vars
  PROVE  LetFirst'
<1>1. CASE UNCHANGED <<info, let, torn>>
  BY <1>1 DEF LetFirst
<1>2. CASE ControlArea
  <2> PICK a : a = Areas[at]
    OBVIOUS
  <2>1. a \in Area /\ info' = [info EXCEPT ![a] = NewInfo(a)]
    BY <1>2, ControlEffect
  <2>2. /\ let' = [let EXCEPT ![a] = GoOn(a) \ {Blank}]
        /\ \A v \in GoOn(a) \ {Blank} :
             \E i \in DOMAIN NewInfo(a) : i <= Limit[a] /\ NewInfo(a)[i] = v
    BY <1>2, ControlLets
  <2>3. /\ info'[a] = NewInfo(a) /\ let'[a] = GoOn(a) \ {Blank}
        /\ \A b \in Area \ {a} :
             info'[b] = info[b] /\ let'[b] = let[b] /\ torn'[b] = torn[b]
    BY <1>2, <2>1, <2>2 DEF AreaTypeOK, ControlArea
  <2> QED  BY <2>2, <2>3 DEF LetFirst
<1>3. ASSUME NEW a \in Area, NEW S \in SUBSET Agv, CutOff(a, S), info' = info
      PROVE  LetFirst'
  <2>1. /\ let'[a] = (let[a] \ S) \cup (GoOn(a) \cap S) /\ torn'[a] = torn[a] \cup (S \ let[a])
        /\ \A b \in Area \ {a} : let'[b] = let[b] /\ torn'[b] = torn[b]
    BY <1>3 DEF CutOff, AreaTypeOK
  <2>2. \A b \in Area : let'[b] \ torn'[b] \subseteq let[b] \ torn[b]
    BY <2>1
  <2> QED  BY <1>3, <2>2 DEF LetFirst
<1>4. CASE Restart
  BY <1>1, <1>3, <1>4, RestartCuts
<1> QED
  BY <1>1, <1>2, <1>4 DEF Next, vars, agvs, history, BeginTick, UnlockAGV, ReadRow, Drive

-----------------------------------------------------------------------------
(* An AGV that will pause is on the list of an area, where its exit is noted. *)
PausedListed ==
  \A v \in Agv : ~Torn(v) /\ ToldToPause(v) => \E a \in Area : v \in Range(info[a])

LEMMA PausedListedStep ==
  ASSUME AreaTypeOK, ToldIsRead, LetFirst, PausedListed, [Next]_vars
  PROVE  PausedListed'
<1> SUFFICES ASSUME NEW v \in Agv, ~Torn(v)', ToldToPause(v)'
             PROVE  \E a \in Area : v \in Range(info'[a])
  BY DEF PausedListed
<1>0. Torn(v) \/ ~ToldToPause(v) \/ \E a \in Area : v \in Range(info[a])
  BY DEF PausedListed
<1>1. CASE UNCHANGED <<ops, halted, info, torn>>
  BY <1>0, <1>1, ToldSame DEF Torn
<1>2. CASE ControlArea
  <2> PICK a : a = Areas[at]
    OBVIOUS
  <2>1. a \in Area /\ torn' = [torn EXCEPT ![a] = @ \ Range(Told(a))]
    BY <1>2, ControlEffect DEF ControlArea
  <2>2. info' = [info EXCEPT ![a] = NewInfo(a)] /\ Range(NewInfo(a)) = Inside(a)
    BY <1>2, <2>1, ControlEffect, NewInfoProperties
  <2>3. info'[a] = NewInfo(a) /\ \A b \in Area \ {a} : info'[b] = info[b]
    BY <2>1, <2>2 DEF AreaTypeOK
  <2>4. CASE v \notin Range(info[a]) \cup Inside(a)
    <3>1. v \notin Range(Told(a))
      BY <2>1, <2>4, ToldProperties
    <3>2. ~Torn(v)
      BY <2>1, <3>1 DEF Torn, AreaTypeOK
    <3>3. PICK b \in Area : v \in Range(info[b])
      BY <1>0, <1>2, <2>1, <2>4, <3>2, ControlEffect
    <3> QED  BY <2>3, <2>4, <3>3
  <2>5. CASE v \in Inside(a)
    BY <2>1, <2>2, <2>3, <2>5
  <2>6. CASE v \in Range(info[a]) \ Inside(a)
    <3>1. Command(a, v) = 1
      BY <2>1, <2>6, ToldProperties DEF Command
    <3> QED  BY <1>2, <2>6, <3>1, ControlEffect DEF ToldIsRead
  <2> QED  BY <2>4, <2>5, <2>6
<1>3. CASE Restart
  <2>1. UNCHANGED <<halted, info>>
    BY <1>3, RestartCuts
  <2>2. ASSUME NEW a \in Area, NEW S \in SUBSET (Range(info[a]) \cup Inside(a)), CutOff(a, S)
        PROVE  \E b \in Area : v \in Range(info'[b])
    <3>1. v \notin torn'[a] /\ torn'[a] = torn[a] \cup (S \ let[a]) /\ ~Torn(v)
      BY <2>2 DEF CutOff, Torn, AreaTypeOK
    <3>2. CASE v \notin S
      <4>1. ops'[v] = ops[v] /\ halted'[v] = halted[v]
        BY <2>1, <2>2, <3>2 DEF CutOff, Rows
      <4> QED  BY <1>0, <2>1, <3>1, <4>1, ToldSame
    <3>3. CASE v \in S
      <4>1. v \in let[a] \ torn[a]
        BY <3>1, <3>3
      <4>2. v \in GoOn(a) \cup Range(Exited(a))
        BY <3>3, <4>1, LetGoesOn, ToldProperties
      <4>3. Command(a, v) = 1
        BY <4>2 DEF Command
      <4>4. CASE area_running[v] = 1
        <5>1. ops'[v] = ops[v] /\ halted'[v] = halted[v]
          BY <2>1, <2>2, <4>3, <4>4 DEF CutOff, Rows
        <5> QED  BY <4>4, <5>1, ToldSame DEF ToldIsRead
      <4>5. CASE area_running[v] # 1
        <5>1. ops'[v] = Append(ops[v], "force continue") /\ "force continue" \in Range(Op)
          BY <2>2, <3>3, <4>3, <4>5, OpValues DEF CutOff, Rows
        <5> QED  BY <5>1, ToldByRow
      <4> QED  BY <4>4, <4>5
    <3> QED  BY <3>2, <3>3
  <2>3. CASE UNCHANGED <<ops, torn>>
    BY <1>1, <2>1, <2>3
  <2> QED  BY <1>3, <2>2, <2>3, RestartCuts
<1>4. ASSUME NEW u \in Agv, UnlockAGV(u)
      PROVE  \E a \in Area : v \in Range(info'[a])
  <2>1. CASE v # u
    <3>1. ops'[v] = ops[v] /\ halted'[v] = halted[v] /\ info' = info /\ torn' = torn
      BY <1>4, <2>1 DEF UnlockAGV, AreaTypeOK, agvs
    <3> QED  BY <1>0, <2>1, <3>1, ToldSame DEF Torn
  <2>2. CASE v = u
    <3>1. ops'[v] = Append(ops[v], "force continue") /\ "force continue" \in Range(Op)
      BY <1>4, <2>2, OpValues DEF UnlockAGV, AreaTypeOK
    <3> QED  BY <3>1, ToldByRow
  <2> QED  BY <2>1, <2>2
<1>5. ASSUME NEW u \in Agv, ReadRow(u)
      PROVE  \E a \in Area : v \in Range(info'[a])
  BY <1>0, <1>5, ToldRead DEF ReadRow, history, Torn
<1> QED
  BY <1>1, <1>2, <1>3, <1>4, <1>5 DEF Next, vars, agvs, history, BeginTick, Drive

(* INFO of the areas that the tick has controlled, and of all of them if the  *)
(* tick before saw the same.                                                  *)
InfoInside ==
  \A i \in 1..Len(Areas) :
    i < at \/ (still /\ at >= 1) => Range(info[Areas[i]]) = Inside(Areas[i])

LEMMA InfoInsideStep ==
  ASSUME AreaTypeOK, InfoInside, [Next]_vars
  PROVE  InfoInside'
<1> SUFFICES ASSUME NEW i \in 1..Len(Areas), i < at' \/ (still' /\ at' >= 1)
             PROVE  Range(info'[Areas[i]]) = Inside(Areas[i])'
  BY DEF InfoInside
<1> PICK b : b = Areas[i]
  OBVIOUS
<1>0. b \in Area /\ (i < at \/ (still /\ at >= 1) => Range(info[b]) = Inside(b))
  <2>1. Areas \in Seq(Area)
    BY AreasAssumption
  <2>2. b \in Area
    BY <2>1
  <2> QED  BY <2>2 DEF InfoInside
<1>1. CASE UNCHANGED <<info, seen, at, still>>
  BY <1>0, <1>1 DEF Inside
<1>2. CASE BeginTick
  <2>1. at = AtRest /\ seen' = seen /\ info' = info /\ i < at
    <3>1. at' = 1 /\ seen' = place /\ info' = info /\ (still' <=> at = AtRest /\ place = seen)
      BY <1>2 DEF BeginTick
    <3>2. Len(Areas) \in Nat /\ i \in 1..Len(Areas)
      BY AreasAssumption
    <3>3. still'
      BY <3>1, <3>2
    <3> QED  BY <3>1, <3>2, <3>3 DEF AtRest
  <2> QED  BY <1>0, <2>1 DEF Inside
<1>3. CASE ControlArea
  <2> PICK a : a = Areas[at]
    OBVIOUS
  <2>1. a \in Area /\ at' = at + 1 /\ at \in 1..Len(Areas) /\ seen' = seen /\ still' = still
    BY <1>3, ControlEffect DEF ControlArea
  <2>2. info' = [info EXCEPT ![a] = NewInfo(a)] /\ Range(NewInfo(a)) = Inside(a)
    BY <1>3, <2>1, ControlEffect, NewInfoProperties
  <2>3. Inside(b)' = Inside(b)
    BY <2>1 DEF Inside
  <2>4. CASE a = b
    BY <1>0, <2>2, <2>3, <2>4 DEF AreaTypeOK
  <2>5. CASE a # b
    <3>1. i # at /\ (i < at \/ (still /\ at >= 1))
      BY <2>1, <2>5
    <3> QED  BY <1>0, <2>1, <2>2, <2>3, <2>5, <3>1 DEF AreaTypeOK
  <2> QED  BY <2>4, <2>5
<1>4. CASE Restart
  BY <1>4 DEF Restart
<1> QED
  BY <1>1, <1>2, <1>3, <1>4 DEF Next, vars, agvs, history, UnlockAGV, ReadRow, Drive
-----------------------------------------------------------------------------
ControlInv == AreaTypeOK /\ ToldIsRead /\ LetFirst /\ PausedListed /\ InfoInside

LEMMA InitControl == Init => ControlInv
<1> SUFFICES ASSUME Init PROVE ControlInv
  OBVIOUS
<1>1. \A v \in Agv : ~ToldToPause(v) /\ area_running[v] = 0
  BY DEF Init, ToldToPause
<1>2. at = 0 /\ ~still
  BY DEF Init
<1>3. InfoInside
  BY <1>2, AreasAssumption DEF InfoInside
<1>4. LetFirst
  BY DEF Init, LetFirst
<1> QED  BY <1>1, <1>3, <1>4, InitTypes DEF ControlInv, ToldIsRead, PausedListed

LEMMA ControlAlways == Spec => []ControlInv
<1>1. ControlInv /\ [Next]_vars => ControlInv'
  BY TypesStep, ToldIsReadStep, LetFirstStep, PausedListedStep, InfoInsideStep DEF ControlInv
<1> QED  BY InitControl, <1>1, PTL DEF Spec

(* An AGV in an area at rest. *)
LEMMA InsideAtRest ==
  ASSUME ControlInv, at = AtRest, NEW a \in Area
  PROVE  Range(info[a]) = Inside(a)
<1>1. Areas \in Seq(Area) /\ Len(Areas) \in Nat
  BY AreasAssumption
<1>2. PICK i \in 1..Len(Areas) : a = Areas[i]
  BY <1>1 DEF Area, Range
<1>3. i < at
  BY <1>1 DEF AtRest
<1> QED  BY <1>2, <1>3 DEF ControlInv, InfoInside

(***************************************************************************)
(* An AGV that a tick has seen outside of every area is not left paused,   *)
(* unless the program has ended between its row and INFO.                  *)
(***************************************************************************)
THEOREM NobodyForgotten == Spec => []NoneForgotten
<1>1. ASSUME ControlInv
      PROVE  NoneForgotten
  <2> SUFFICES ASSUME at = AtRest, NEW v \in Agv, seen[v] = Outside, ~Torn(v), ToldToPause(v)
               PROVE  FALSE
    BY DEF NoneForgotten
  <2>1. PICK a \in Area : v \in Range(info[a])
    BY <1>1 DEF ControlInv, PausedListed
  <2>2. v \in Inside(a)
    BY <1>1, <2>1, InsideAtRest
  <2> QED  BY <2>2 DEF Inside, Outside
<1> QED  BY <1>1, ControlAlways, PTL
-----------------------------------------------------------------------------
(***************************************************************************)
(* An AGV that an area has let go on is not paused by it, or left off the  *)
(* list, before a tick has seen it outside, whoever comes and however      *)
(* often the program starts again, also in the midst of an area; only an   *)
(* AGV that was let go by an area whose INFO was not written any more may  *)
(* lose its turn.                                                          *)
(***************************************************************************)
THEOREM FirstServed == Spec => FirstComeFirstServed
<1>1. ASSUME ControlInv, [Next]_vars, NEW a \in Area, NEW v \in Agv,
             v \in let[a] \ torn[a], a \in seen[v], let'[a] # let[a]
      PROVE  v \in let'[a]
  <2>1. v \in GoOn(a) \ {Blank}
    BY <1>1, LetGoesOn DEF ControlInv, Inside
  <2>2. CASE ControlArea
    <3> PICK b : b = Areas[at]
      OBVIOUS
    <3>1. b \in Area /\ let' = [let EXCEPT ![b] = GoOn(b) \ {Blank}]
      BY <1>1, <2>2, ControlEffect, ControlLets DEF ControlInv
    <3>2. a = b /\ let'[a] = GoOn(a) \ {Blank}
      BY <1>1, <3>1 DEF ControlInv, AreaTypeOK
    <3> QED  BY <2>1, <3>2
  <2>3. CASE Restart
    <3>1. PICK b \in Area : \E S : CutOff(b, S)
      BY <1>1, <2>3, RestartCuts DEF ControlInv
    <3>2. PICK S : let' = [let EXCEPT ![b] = (@ \ S) \cup (GoOn(b) \cap S)]
      BY <3>1 DEF CutOff
    <3>3. a = b /\ let'[a] = (let[a] \ S) \cup (GoOn(a) \cap S)
      BY <1>1, <3>2 DEF ControlInv, AreaTypeOK
    <3> QED  BY <1>1, <2>1, <3>3
  <2> QED
    BY <1>1, <2>2, <2>3 DEF Next, vars, agvs, history, BeginTick, UnlockAGV, ReadRow, Drive
<1>2. ControlInv /\ [Next]_vars =>
        \A a \in Area, v \in Agv :
          /\ v \in let[a] \ torn[a] /\ a \in seen[v]
          /\ let'[a] # let[a]
          => v \in let'[a]
  BY <1>1
<1> QED  BY <1>2, ControlAlways, PTL DEF Spec, FirstComeFirstServed
-----------------------------------------------------------------------------
(***************************************************************************)
(* The number of an area.                                                  *)
(***************************************************************************)

(* The areas do not overlap. *)
Apart == \A p \in Places : \A a, b \in p : a = b

NotPaused(a) == {v \in Inside(a) : area_running[v] # 2}

(* In an area that the tick has controlled no more AGVs than the number were  *)
(* told anything but to pause, and no later area tells them.                  *)
LimitTold ==
  still => \A i \in 1..Len(Areas) :
    i < at => Cardinality(NotPaused(Areas[i])) <= Limit[Areas[i]]

LEMMA LimitToldStep ==
  ASSUME Apart, ControlInv, LimitTold, [Next]_vars
  PROVE  LimitTold'
<1> SUFFICES ASSUME still', NEW i \in 1..Len(Areas), i < at'
             PROVE  Cardinality(NotPaused(Areas[i])') <= Limit[Areas[i]]
  BY DEF LimitTold
<1> PICK b : b = Areas[i]
  OBVIOUS
<1>0. b \in Area /\ (still /\ i < at => Cardinality(NotPaused(b)) <= Limit[b])
  <2>1. Areas \in Seq(Area)
    BY AreasAssumption
  <2>2. b \in Area
    BY <2>1
  <2> QED  BY <2>2 DEF LimitTold
<1>1. CASE UNCHANGED <<seen, area_running, at, still>>
  BY <1>0, <1>1 DEF NotPaused, Inside
<1>2. CASE ControlArea
  <2> PICK a : a = Areas[at]
    OBVIOUS
  <2>1. /\ a \in Area /\ at \in 1..Len(Areas) /\ at' = at + 1 /\ still /\ Inside(b)' = Inside(b)
        /\ Inside(b) \subseteq Agv
    BY <1>2, ControlEffect DEF ControlInv, ControlArea, Inside
  <2>2. Range(info[a]) = Inside(a)
    BY <2>1 DEF ControlInv, InfoInside
  <2>3. CASE i = at
    <3>1. ASSUME NEW v \in Inside(b), area_running'[v] # 2
          PROVE  v \in GoOn(b)
      <4>1. area_running'[v] = Command(a, v)
        BY <1>2, <2>1, <2>3, <3>1, ControlEffect DEF ControlInv
      <4>2. v \notin Range(Exited(a))
        BY <2>1, <2>2, ToldProperties DEF ControlInv
      <4> QED  BY <2>3, <3>1, <4>1, <4>2 DEF Command
    <3>2. NotPaused(b)' \in SUBSET GoOn(b)
      BY <2>1, <3>1 DEF NotPaused
    <3>3. IsFiniteSet(GoOn(b)) /\ Cardinality(GoOn(b)) <= Limit[b] /\ Limit[b] \in Nat
      BY <1>0, GoOnProperties, AreasAssumption DEF ControlInv
    <3>4. /\ Cardinality(NotPaused(b)') <= Cardinality(GoOn(b))
          /\ Cardinality(GoOn(b)) \in Nat /\ Cardinality(NotPaused(b)') \in Nat
      BY <3>2, <3>3, FS_Subset, FS_CardinalityType
    <3> QED  BY <3>3, <3>4
  <2>4. CASE i # at
    <3>1. i < at /\ a # b
      BY <2>1, <2>4, AreasAssumption DEF IsInjective
    <3>2. ASSUME NEW v \in Inside(b)
          PROVE  area_running'[v] = area_running[v]
      <4>1. v \in Agv /\ seen[v] \in Places /\ b \in seen[v]
        BY DEF ControlInv, AreaTypeOK, Inside
      <4>2. v \notin Inside(a)
        BY <3>1, <4>1 DEF Apart, Inside
      <4> QED  BY <1>2, <2>2, <4>1, <4>2, ControlEffect DEF ControlInv
    <3>3. NotPaused(b)' = NotPaused(b)
      BY <2>1, <3>2 DEF NotPaused
    <3> QED  BY <1>0, <2>1, <3>1, <3>3
  <2> QED  BY <2>3, <2>4
<1>3. CASE BeginTick
  BY <1>3 DEF BeginTick
<1>4. CASE Restart
  BY <1>4 DEF Restart
<1> QED
  BY <1>1, <1>2, <1>3, <1>4 DEF Next, vars, agvs, history, UnlockAGV, ReadRow, Drive

(***************************************************************************)
(* Where the areas do not overlap: when two ticks have seen the same, no   *)
(* more AGVs of an area are told to go on than its number allows, those    *)
(* aside that the operator let go.                                         *)
(***************************************************************************)
THEOREM NumberKept == Spec => [](Apart => LimitKept)
<1> DEFINE LimitInv == Apart => LimitTold
<1>1. Init => LimitInv
  BY DEF Init, LimitTold
<1>2. ControlInv /\ LimitInv /\ [Next]_vars => LimitInv'
  BY LimitToldStep DEF Apart
<1>3. ASSUME ControlInv, LimitInv, Apart
      PROVE  LimitKept
  <2> SUFFICES ASSUME at = AtRest, still, NEW a \in Area
               PROVE  Cardinality({v \in Inside(a) : ~ToldToPause(v) /\ v \notin freed}) <= Limit[a]
    BY DEF LimitKept
  <2> PICK G : G = {v \in Inside(a) : ~ToldToPause(v) /\ v \notin freed}
    OBVIOUS
  <2>1. Areas \in Seq(Area) /\ Len(Areas) \in Nat
    BY AreasAssumption
  <2>2. PICK i \in 1..Len(Areas) : a = Areas[i]
    BY <2>1 DEF Area, Range
  <2>3. Cardinality(NotPaused(a)) <= Limit[a] /\ Limit[a] \in Nat
    BY <1>3, <2>1, <2>2, AreasAssumption DEF LimitTold, AtRest
  <2>4. G \in SUBSET NotPaused(a) /\ NotPaused(a) \in SUBSET Agv
    BY <1>3 DEF ControlInv, ToldIsRead, NotPaused, Inside
  <2>5. IsFiniteSet(NotPaused(a))
    BY <2>4, NumbersFinite
  <2>6. /\ Cardinality(G) <= Cardinality(NotPaused(a)) /\ IsFiniteSet(G)
        /\ Cardinality(NotPaused(a)) \in Nat
    BY <2>4, <2>5, FS_Subset, FS_CardinalityType
  <2>7. Cardinality(G) \in Nat
    BY <2>6, FS_CardinalityType
  <2> QED  BY <2>3, <2>6, <2>7
<1> HIDE DEF LimitInv
<1>4. ControlInv /\ LimitInv => (Apart => LimitKept)
  BY <1>3
<1> QED  BY <1>1, <1>2, <1>4, ControlAlways, PTL DEF Spec
=============================================================================
