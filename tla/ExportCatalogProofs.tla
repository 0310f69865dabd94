------------------------- MODULE ExportCatalogProofs -------------------------
(***************************************************************************)
(* What ExportCatalog promises for every set of targets and whatever their *)
(* profiles hold.                                                          *)
(*                                                                         *)
(* betterMember orders the members totally, so a member's place in the     *)
(* sorted list is the number of members before it (Places).  The names     *)
(* count the JA4s before, so they tell the firsts apart (NamesAreUnique),  *)
(* and the least position of a JA4 is its holder (FirstIsNamed).  Ranks,   *)
(* Publication and Faithful follow this through an export.                 *)
(***************************************************************************)
EXTENDS ExportCatalog, FiniteSetTheorems, TLAPS

\* betterMember never ranks two members before each other (export.go:281-298).
LEMMA Asymmetric ==
  ASSUME NEW a \in MemberType, NEW b \in MemberType, Better(a, b)
  PROVE  ~Better(b, a)
  BY ExportAssumption DEF MemberType, Better

\* Two members with different ids are ranked one before the other.
LEMMA Total ==
  ASSUME NEW a \in MemberType, NEW b \in MemberType, a.id # b.id
  PROVE  Better(a, b) \/ Better(b, a)
  BY ExportAssumption DEF MemberType, Better

\* betterMember is transitive across its five criteria.
LEMMA Transitive ==
  ASSUME NEW a \in MemberType, NEW b \in MemberType, NEW c \in MemberType,
         Better(a, b), Better(b, c)
  PROVE  Better(a, c)
  BY ExportAssumption DEF MemberType, Better

\* What is collected of a target that is usable is a member.
LEMMA MemberHasType ==
  ASSUME TypeOK, NEW t \in targets, Usable(t)
  PROVE  Member(t) \in MemberType /\ Member(t).id = t.id
<1>1. t \in Target
  BY ExportAssumption DEF TypeOK
<1>2. profile[t.id] \in Profile
  BY DEF TypeOK, IDs
<1>3. Member(t).at \in Nat
  BY <1>2 DEF Member, Profile
<1>4. Member(t).ja4 \in JA4s
  BY <1>2 DEF Member, Profile, Usable
<1> QED
  BY <1>1, <1>3, <1>4 DEF Member, MemberType, Target

\* Targets are collected once: a new member has an id no member has.
LEMMA TypePreserved ==
  ASSUME TypeOK, [Next]_vars
  PROVE  TypeOK'
<1>1. CASE Start
  BY <1>1 DEF Start, dist, TypeOK, IDs
<1>2. ASSUME NEW t \in targets, Collect(t)
      PROVE  TypeOK'
  <2>1. members' \subseteq MemberType
    BY <1>2, MemberHasType DEF Collect, TypeOK
  <2>2. \A x, y \in members' : x.id = y.id => x = y
    BY <1>2, MemberHasType DEF Collect, TypeOK
  <2>3. todo' \subseteq targets /\ \A m \in members', u \in todo' : m.id # u.id
    <3>1. todo \subseteq targets /\ \A m \in members, u \in todo : m.id # u.id
      BY <1>2 DEF Collect, TypeOK
    <3>2. \A u \in targets : u.id = t.id => u = t
      BY ExportAssumption DEF TypeOK
    <3> QED
      BY <1>2, <3>1, <3>2, MemberHasType DEF Collect
  <2> QED
    BY <1>2, <2>1, <2>2, <2>3 DEF Collect, dist, TypeOK, IDs
<1>3. CASE Rank
  BY <1>3 DEF Rank, dist, TypeOK, IDs
<1>4. CASE RemoveEntry \/ Cleared
  BY <1>4 DEF RemoveEntry, Cleared, result, TypeOK, IDs
<1>5. ASSUME NEW n \in DOMAIN out, NEW file \in {"hello", "manifest"}, CopyFile(n, file)
      PROVE  TypeOK'
  BY <1>5 DEF CopyFile, result, TypeOK, IDs
<1>6. CASE WriteCatalog \/ Crash
  BY <1>6 DEF WriteCatalog, Crash, result, dist, TypeOK, IDs
<1>7. ASSUME NEW id \in IDs, NEW j \in JA4s, Capture(id, j)
      PROVE  TypeOK'
  <2>1. [hello |-> j, meta |-> j, at |-> 10 + captures, manifest |-> j] \in Profile
    BY DEF Profile, TypeOK
  <2>2. profile' \in [IDs -> Profile]
    BY <1>7, <2>1 DEF Capture, TypeOK
  <2> QED
    BY <1>7, <2>2 DEF Capture, result, dist, TypeOK, IDs
<1>8. CASE UNCHANGED vars
  BY <1>8 DEF vars, TypeOK, IDs
<1> QED
  BY <1>1, <1>2, <1>3, <1>4, <1>5, <1>6, <1>7, <1>8 DEF Next

\* Members and profiles keep their types (export.go:57-106).
THEOREM TypeCorrect == Spec => []TypeOK
<1>1. Init => TypeOK
  <2> SUFFICES ASSUME Init PROVE TypeOK
    OBVIOUS
  <2>1. States \subseteq Profile
    BY ExportAssumption
  <2>2. profile \in [IDs -> Profile]
    BY <2>1 DEF Init
  <2> QED
    BY <2>2 DEF Init, TypeOK
<1> QED
  BY <1>1, TypePreserved, PTL DEF Spec

\* The ranking of the members is a strict total order, so that every short name
\* is determined by the targets and their profiles (export.go:121-124, 281-298).
THEOREM RankingIsDetermined == Spec => []MembersAreOrdered
<1>1. ASSUME TypeOK PROVE MembersAreOrdered
  <2> SUFFICES ASSUME NEW a \in members, NEW b \in members, NEW c \in members
               PROVE  /\ ~(Better(a, b) /\ Better(b, a))
                      /\ a # b => Better(a, b) \/ Better(b, a)
                      /\ Better(a, b) /\ Better(b, c) => Better(a, c)
    BY DEF MembersAreOrdered
  <2>1. a \in MemberType /\ b \in MemberType /\ c \in MemberType /\ (a # b => a.id # b.id)
    BY <1>1 DEF TypeOK
  <2> QED
    BY <2>1, Asymmetric, Total, Transitive
<1> QED
  BY <1>1, TypeCorrect, PTL

-----------------------------------------------------------------------------
(* The sorted list, and the names it gives                                 *)

\* A nonempty set of positions has a first one.
LEMMA FirstPosition ==
  ASSUME NEW S \in SUBSET Nat, S # {}
  PROVE  \E i \in S : \A j \in S : i <= j
<1> DEFINE T == {1 .. i : i \in S}
<1>1. IsWellFoundedOn(StrictSubsetOrdering(Nat), FiniteSubsetsOf(Nat))
  BY FS_StrictSubsetOrderingWellFounded
<1>2. T \subseteq FiniteSubsetsOf(Nat)
  <2> SUFFICES ASSUME NEW i \in S PROVE 1 .. i \in FiniteSubsetsOf(Nat)
    OBVIOUS
  <2>1. IsFiniteSet(1 .. i)
    BY FS_Interval
  <2> QED
    BY <2>1 DEF FiniteSubsetsOf
<1>3. T # {}
  OBVIOUS
<1>4. PICK x \in T : \A y \in T : ~(<<y, x>> \in StrictSubsetOrdering(Nat))
  <2> HIDE DEF T
  <2> QED
    BY <1>1, <1>2, <1>3, WFMin
<1>5. PICK i \in S : x = 1 .. i
  OBVIOUS
<1>6. ASSUME NEW j \in S PROVE i <= j
  <2>1. ~(<<1 .. j, 1 .. i>> \in StrictSubsetOrdering(Nat))
    BY <1>4, <1>5
  <2>2. ~((1 .. j) \subseteq (1 .. i)) \/ 1 .. j = 1 .. i
    BY <2>1 DEF StrictSubsetOrdering
  <2>3. i \in Nat /\ j \in Nat
    OBVIOUS
  <2>4. CASE j < i
    <3>1. (1 .. j) \subseteq (1 .. i) /\ i \in 1 .. i /\ i \notin 1 .. j
      BY <2>3, <2>4
    <3> QED
      BY <2>2, <3>1
  <2> QED
    BY <2>3, <2>4
<1> QED
  BY <1>6

List(f) == {m \in members : m.family = f}
Before(f) == [m \in List(f) |-> {o \in List(f) : Better(o, m)}]

\* What the proofs know of the list of a family: it is the family, sorted.
Sorted(s, f) ==
  /\ s \in [1 .. Cardinality(List(f)) -> List(f)]
  /\ \A m \in List(f) : \E i \in DOMAIN s : s[i] = m
  /\ \A i, j \in DOMAIN s : i < j => ~Better(s[j], s[i])

\* The place of a member is the number of members before it: a better one has
\* a smaller place, so that the places are 1 .. n.
LEMMA Places ==
  ASSUME TypeOK, IsFiniteSet(members), NEW f
  PROVE  LET n == Cardinality(List(f)) IN
         \E r \in [List(f) -> 1 .. n] :
           /\ \A a, b \in List(f) : Better(a, b) => r[a] < r[b]
           /\ \A a, b \in List(f) : r[a] = r[b] => a = b
           /\ \A i \in 1 .. n : \E a \in List(f) : r[a] = i
<1> DEFINE L == List(f)
           n == Cardinality(L)
           B(m) == {o \in L : Better(o, m)}
           r == [m \in L |-> Cardinality(B(m)) + 1]
<1>1. IsFiniteSet(L) /\ n \in Nat
  BY FS_Subset, FS_CardinalityType DEF List
<1>2. \A m \in L : m \in MemberType
  BY DEF List, TypeOK
<1>3. \A a, b \in L : a # b => a.id # b.id
  BY DEF List, TypeOK
<1>4. ASSUME NEW m \in L PROVE IsFiniteSet(B(m)) /\ Cardinality(B(m)) \in Nat
  BY <1>1, FS_Subset, FS_CardinalityType
<1>5. ASSUME NEW a \in L, NEW b \in L, Better(a, b) PROVE r[a] < r[b]
  <2>1. B(a) \subseteq B(b)
    BY <1>2, <1>5, Transitive
  <2>2. a \in B(b) /\ a \notin B(a)
    BY <1>2, <1>5, Asymmetric
  <2>3. /\ Cardinality(B(a)) <= Cardinality(B(b))
        /\ Cardinality(B(b)) = Cardinality(B(a)) => B(b) = B(a)
    BY <1>4, <2>1, FS_Subset
  <2>4. B(a) # B(b)
    BY <2>2
  <2>5. r[a] = Cardinality(B(a)) + 1 /\ r[b] = Cardinality(B(b)) + 1
    OBVIOUS
  <2> HIDE DEF r, B
  <2> QED
    BY <1>4, <2>3, <2>4, <2>5
<1>6. ASSUME NEW m \in L PROVE r[m] \in 1 .. n
  <2>1. B(m) \subseteq L /\ m \notin B(m)
    BY <1>2, Asymmetric
  <2>2. Cardinality(B(m)) <= n /\ (n = Cardinality(B(m)) => L = B(m))
    BY <1>1, <2>1, FS_Subset
  <2>3. Cardinality(B(m)) < n
    BY <1>1, <1>4, <2>1, <2>2
  <2>4. r[m] = Cardinality(B(m)) + 1
    OBVIOUS
  <2> HIDE DEF r, B
  <2> QED
    BY <1>1, <1>4, <2>3, <2>4
<1>7. r \in [L -> 1 .. n]
  BY <1>6
<1>8. \A a, b \in L : r[a] = r[b] => a = b
  <2> SUFFICES ASSUME NEW a \in L, NEW b \in L, r[a] = r[b], a # b PROVE FALSE
    OBVIOUS
  <2>1. Better(a, b) \/ Better(b, a)
    BY <1>2, <1>3, Total
  <2>2. r[a] < r[b] \/ r[b] < r[a]
    BY <1>5, <2>1
  <2>3. r[a] \in Nat /\ r[b] \in Nat
    BY <1>6
  <2> HIDE DEF r
  <2> QED
    BY <2>2, <2>3
<1>9. \A i \in 1 .. n : \E a \in L : r[a] = i
  <2>1. r \in Injection(L, 1 .. n)
    BY <1>7, <1>8 DEF Injection, IsInjective
  <2>2. IsFiniteSet(1 .. n) /\ Cardinality(1 .. n) = n
    BY <1>1, FS_Interval
  <2>3. r \in Surjection(L, 1 .. n)
    BY <2>1, <2>2, FS_Injection
  <2> QED
    BY <2>3 DEF Surjection
<1> HIDE DEF r
<1> QED
  BY <1>5, <1>7, <1>8, <1>9

\* sort.SliceStable has a list to find.
LEMMA RankedIsSorted ==
  ASSUME TypeOK, IsFiniteSet(members), NEW f
  PROVE  Sorted(Ranked(f), f)
<1> DEFINE n == Cardinality(List(f))
<1>1. PICK r \in [List(f) -> 1 .. n] :
        /\ \A a, b \in List(f) : Better(a, b) => r[a] < r[b]
        /\ \A a, b \in List(f) : r[a] = r[b] => a = b
        /\ \A i \in 1 .. n : \E a \in List(f) : r[a] = i
  BY Places
<1> DEFINE s == [i \in 1 .. n |-> CHOOSE a \in List(f) : r[a] = i]
<1>2. \A i \in 1 .. n : s[i] \in List(f) /\ r[s[i]] = i
  BY <1>1
<1>3. s \in [1 .. n -> List(f)] /\ DOMAIN s = 1 .. n
  BY <1>2
<1> HIDE DEF s
<1>4. \A m \in List(f) : \E i \in DOMAIN s : s[i] = m
  <2> SUFFICES ASSUME NEW m \in List(f) PROVE s[r[m]] = m /\ r[m] \in DOMAIN s
    OBVIOUS
  <2>1. r[m] \in 1 .. n
    OBVIOUS
  <2>2. s[r[m]] \in List(f) /\ r[s[r[m]]] = r[m]
    BY <1>2, <2>1
  <2> QED
    BY <1>1, <1>3, <2>1, <2>2
<1>5. ASSUME NEW i \in DOMAIN s, NEW j \in DOMAIN s, i < j PROVE ~Better(s[j], s[i])
  <2>1. Better(s[j], s[i]) => j < i
    BY <1>1, <1>2, <1>3
  <2>2. i \in 1 .. n /\ j \in 1 .. n
    BY <1>3
  <2> QED
    BY <1>5, <2>1, <2>2
<1>6. Sorted(s, f)
  BY <1>3, <1>4, <1>5 DEF Sorted
<1>7. Ranked(f) = CHOOSE t : Sorted(t, f)
  BY DEF Ranked, Sorted, List
<1> QED
  BY <1>6, <1>7

LEMMA RankedHas ==
  ASSUME TypeOK, IsFiniteSet(members), NEW f
  PROVE  /\ Cardinality(List(f)) \in Nat
         /\ DOMAIN Ranked(f) = 1 .. Cardinality(List(f))
         /\ FirstOfJA4(Ranked(f)) \subseteq 1 .. Cardinality(List(f))
         /\ \A i \in 1 .. Cardinality(List(f)) : Ranked(f)[i] \in List(f)
<1>1. IsFiniteSet(List(f))
  BY FS_Subset DEF List
<1>2. Cardinality(List(f)) \in Nat
  BY <1>1, FS_CardinalityType
<1>3. Ranked(f) \in [1 .. Cardinality(List(f)) -> List(f)]
  BY RankedIsSorted DEF Sorted
<1> QED
  BY <1>2, <1>3 DEF FirstOfJA4

\* Where the firsts of a sorted list are, their numbers tell them apart.
LEMMA FirstsDiffer ==
  ASSUME TypeOK, IsFiniteSet(members), NEW f,
         NEW i \in FirstOfJA4(Ranked(f)), NEW j \in FirstOfJA4(Ranked(f)),
         Cardinality({k \in FirstOfJA4(Ranked(f)) : k < i})
           = Cardinality({k \in FirstOfJA4(Ranked(f)) : k < j})
  PROVE  i = j
<1> DEFINE n == Cardinality(List(f))
           F == FirstOfJA4(Ranked(f))
           A(k) == {l \in F : l < k}
<1>1. F \subseteq 1 .. n /\ n \in Nat
  BY RankedHas
<1>2. IsFiniteSet(F)
  <2>1. IsFiniteSet(1 .. n)
    BY <1>1, FS_Interval
  <2> HIDE DEF F, n
  <2> QED
    BY <1>1, <2>1, FS_Subset
<1>3. ASSUME NEW k \in F, NEW l \in F, k < l PROVE Cardinality(A(k)) # Cardinality(A(l))
  <2>1. A(k) \subseteq A(l) /\ k \in A(l) /\ k \notin A(k)
    <3>1. \A x \in F : x \in Int
      BY <1>1
    <3> HIDE DEF F
    <3>2. k \in F /\ l \in F
      OBVIOUS
    <3> QED
      BY <1>3, <3>1, <3>2
  <2>2. IsFiniteSet(A(l))
    BY <1>2, FS_Subset
  <2> HIDE DEF A
  <2> QED
    BY <2>1, <2>2, FS_Subset
<1>4. i \in Int /\ j \in Int /\ i \in F /\ j \in F
  BY <1>1
<1>5. Cardinality(A(i)) = Cardinality(A(j))
  OBVIOUS
<1> HIDE DEF F, A
<1> QED
  BY <1>3, <1>4, <1>5

\* A name of the export says where its profile stood in its family.
NameAt(f, i) == <<f, Cardinality({j \in FirstOfJA4(Ranked(f)) : j < i})>>
Outcome == [n \in {x[1] : x \in Named} |-> (CHOOSE x \in Named : x[1] = n)[2]]

LEMMA NamesAreUnique ==
  ASSUME TypeOK, IsFiniteSet(members)
  PROVE  /\ \A f \in Families : \A i \in FirstOfJA4(Ranked(f)) :
              NameAt(f, i) \in DOMAIN Outcome /\ Outcome[NameAt(f, i)] = Ranked(f)[i]
         /\ \A n \in DOMAIN Outcome : \E f \in Families : \E i \in FirstOfJA4(Ranked(f)) : n = NameAt(f, i)
<1>1. \A x : x \in Named <=> \E f \in Families : \E i \in FirstOfJA4(Ranked(f)) :
                                x = <<NameAt(f, i), Ranked(f)[i]>>
  <2>1. \A x, f : x \in NamedOf(f) <=> \E i \in FirstOfJA4(Ranked(f)) : x = <<NameAt(f, i), Ranked(f)[i]>>
    BY DEF NamedOf, NameAt
  <2>2. \A x : x \in Named <=> \E f \in Families : x \in NamedOf(f)
    BY DEF Named
  <2> QED
    BY <2>1, <2>2
<1>2. ASSUME NEW f \in Families, NEW i \in FirstOfJA4(Ranked(f)),
             NEW g \in Families, NEW j \in FirstOfJA4(Ranked(g)), NameAt(f, i) = NameAt(g, j)
      PROVE  f = g /\ i = j
  <2>1. f = g
    BY <1>2 DEF NameAt
  <2>2. Cardinality({k \in FirstOfJA4(Ranked(f)) : k < i}) = Cardinality({k \in FirstOfJA4(Ranked(f)) : k < j})
    BY <1>2, <2>1 DEF NameAt
  <2> QED
    BY <2>1, <2>2, FirstsDiffer
<1>3. ASSUME NEW f \in Families, NEW i \in FirstOfJA4(Ranked(f))
      PROVE  NameAt(f, i) \in DOMAIN Outcome /\ Outcome[NameAt(f, i)] = Ranked(f)[i]
  <2> DEFINE x == <<NameAt(f, i), Ranked(f)[i]>>
             y == CHOOSE y \in Named : y[1] = NameAt(f, i)
  <2>1. x \in Named /\ x[1] = NameAt(f, i)
    BY <1>1
  <2>2. NameAt(f, i) \in DOMAIN Outcome /\ Outcome[NameAt(f, i)] = y[2]
    BY <2>1 DEF Outcome
  <2>3. y \in Named /\ y[1] = NameAt(f, i)
    BY <2>1
  <2>4. PICK g \in Families : \E j \in FirstOfJA4(Ranked(g)) : y = <<NameAt(g, j), Ranked(g)[j]>>
    BY <1>1, <2>3
  <2>5. PICK j \in FirstOfJA4(Ranked(g)) : y = <<NameAt(g, j), Ranked(g)[j]>>
    BY <2>4
  <2>6. NameAt(g, j) = NameAt(f, i) /\ y[2] = Ranked(g)[j]
    <3> HIDE DEF y
    <3> QED
      BY <2>3, <2>5
  <2>7. f = g /\ i = j
    BY <1>2, <2>6
  <2> QED
    BY <2>2, <2>6, <2>7
<1>4. ASSUME NEW n \in DOMAIN Outcome
      PROVE  \E f \in Families : \E i \in FirstOfJA4(Ranked(f)) : n = NameAt(f, i)
  <2>1. PICK x \in Named : n = x[1]
    BY DEF Outcome
  <2> QED
    BY <1>1, <2>1
<1> QED
  BY <1>3, <1>4

\* The first member of a JA4 has a name, and is better than those after it.
LEMMA FirstIsNamed ==
  ASSUME TypeOK, IsFiniteSet(members), NEW m \in members
  PROVE  \E n \in DOMAIN Outcome :
           /\ Outcome[n] \in members
           /\ Outcome[n].family = m.family /\ Outcome[n].ja4 = m.ja4
           /\ Outcome[n] # m => Better(Outcome[n], m)
<1> DEFINE f == m.family
           s == Ranked(f)
<1>1. Sorted(s, f) /\ m \in List(f) /\ f \in Families
  BY RankedIsSorted DEF List, Families
<1>2. DOMAIN s = 1 .. Cardinality(List(f)) /\ \A i \in DOMAIN s : s[i] \in List(f)
  BY <1>1 DEF Sorted
<1>3. PICK i \in DOMAIN s : s[i] = m
  BY <1>1 DEF Sorted
<1> HIDE DEF s
<1> DEFINE S == {k \in DOMAIN s : s[k].ja4 = m.ja4}
<1>4. i \in S /\ S \in SUBSET Nat
  BY <1>2, <1>3
<1>5. PICK k \in S : \A l \in S : k <= l
  BY <1>4, FirstPosition
<1>6. k \in FirstOfJA4(s)
  <2>1. ASSUME NEW j \in 1 .. k - 1 PROVE s[j].ja4 # s[k].ja4
    <3>1. k \in 1 .. Cardinality(List(f)) /\ Cardinality(List(f)) \in Nat
      BY <1>2, FS_Subset, FS_CardinalityType DEF List
    <3>2. j \in DOMAIN s /\ ~(k <= j)
      BY <1>2, <3>1
    <3> QED
      BY <1>5, <3>2
  <2> QED
    BY <1>2, <2>1 DEF FirstOfJA4
<1>7. s[k] \in members /\ s[k].family = f /\ s[k].ja4 = m.ja4
  BY <1>2, <1>5 DEF List
<1>8. s[k] # m => Better(s[k], m)
  <2> SUFFICES ASSUME s[k] # m PROVE Better(s[k], m)
    OBVIOUS
  <2>1. k <= i /\ k # i /\ k \in Nat /\ i \in Nat
    BY <1>3, <1>4, <1>5
  <2>2. k < i
    BY <2>1
  <2>3. ~Better(m, s[k])
    BY <1>1, <1>2, <1>3, <1>5, <2>2 DEF Sorted, s
  <2>4. s[k] \in MemberType /\ m \in MemberType /\ s[k].id # m.id
    BY <1>7 DEF TypeOK
  <2> QED
    BY <2>3, <2>4, Total
<1>9. NameAt(f, k) \in DOMAIN Outcome /\ Outcome[NameAt(f, k)] = s[k]
  BY <1>1, <1>6, NamesAreUnique DEF s
<1> QED
  BY <1>7, <1>8, <1>9

\* One JA4 of a family is kept once.
LEMMA OutcomeOneName ==
  ASSUME TypeOK, IsFiniteSet(members)
  PROVE  /\ \A n \in DOMAIN Outcome : Outcome[n] \in members
         /\ \A n, m \in DOMAIN Outcome :
              Outcome[n].family = Outcome[m].family /\ Outcome[n].ja4 = Outcome[m].ja4 => n = m
<1>1. ASSUME NEW f \in Families, NEW i \in FirstOfJA4(Ranked(f))
      PROVE  /\ Outcome[NameAt(f, i)] = Ranked(f)[i]
             /\ Ranked(f)[i] \in members /\ Ranked(f)[i].family = f
             /\ i \in 1 .. Cardinality(List(f)) /\ Cardinality(List(f)) \in Nat
  <2>1. Ranked(f)[i] \in List(f)
    BY RankedHas
  <2> QED
    BY <2>1, NamesAreUnique, RankedHas DEF List
<1>2. \A n \in DOMAIN Outcome : Outcome[n] \in members
  BY <1>1, NamesAreUnique
<1>3. ASSUME NEW n \in DOMAIN Outcome, NEW m \in DOMAIN Outcome,
             Outcome[n].family = Outcome[m].family, Outcome[n].ja4 = Outcome[m].ja4
      PROVE  n = m
  <2>1. PICK f \in Families : \E i \in FirstOfJA4(Ranked(f)) : n = NameAt(f, i)
    BY NamesAreUnique
  <2>2. PICK i \in FirstOfJA4(Ranked(f)) : n = NameAt(f, i)
    BY <2>1
  <2>3. PICK g \in Families : \E j \in FirstOfJA4(Ranked(g)) : m = NameAt(g, j)
    BY NamesAreUnique
  <2>4. PICK j \in FirstOfJA4(Ranked(g)) : m = NameAt(g, j)
    BY <2>3
  <2>5. f = g
    BY <1>1, <1>3, <2>2, <2>4
  <2>6. Ranked(f)[i].ja4 = Ranked(f)[j].ja4
    BY <1>1, <1>3, <2>2, <2>4, <2>5
  <2>7. i \in Int /\ j \in Int /\ i >= 1 /\ j >= 1
    BY <1>1, <2>5
  <2>8. ~(i < j)
    <3>1. \A k \in 1 .. j - 1 : Ranked(f)[k].ja4 # Ranked(f)[j].ja4
      BY <2>5 DEF FirstOfJA4
    <3> QED
      BY <2>6, <2>7, <3>1
  <2>9. ~(j < i)
    <3>1. \A k \in 1 .. i - 1 : Ranked(f)[k].ja4 # Ranked(f)[i].ja4
      BY DEF FirstOfJA4
    <3> QED
      BY <2>6, <2>7, <3>1
  <2> QED
    BY <2>2, <2>4, <2>5, <2>7, <2>8, <2>9
<1> QED
  BY <1>2, <1>3

-----------------------------------------------------------------------------
(* What holds of an export from its ranking on                             *)

\* The outcome of a ranking is still that of the members collected.
Ranks ==
  /\ IsFiniteSet(members) /\ \A m \in members : m.id \in IDs
  /\ \A n, m \in DOMAIN out : out[n].family = out[m].family /\ out[n].ja4 = out[m].ja4 => n = m
  /\ pc \in {"remove", "copy"} =>
       /\ \A n \in DOMAIN out : out[n] \in members
       /\ \A id \in DOMAIN aliases : aliases[id] \in DOMAIN out
       /\ EveryMemberIsNamed

\* The step that ranks establishes it.
LEMMA RankEstablishes ==
  ASSUME TypeOK, IsFiniteSet(members), \A m \in members : m.id \in IDs, Rank
  PROVE  Ranks'
<1>1. out' = Outcome /\ UNCHANGED <<members, IDs>>
  BY DEF Rank, Outcome, IDs
<1> DEFINE Shared(m) == NameOf(Outcome, m)
<1>2. /\ \A n \in DOMAIN Outcome : Outcome[n] \in members
      /\ \A n, m \in DOMAIN Outcome :
           Outcome[n].family = Outcome[m].family /\ Outcome[n].ja4 = Outcome[m].ja4 => n = m
  BY OutcomeOneName
<1>3. ASSUME NEW m \in members
      PROVE  /\ Shared(m) \in DOMAIN Outcome
             /\ Outcome[Shared(m)].family = m.family /\ Outcome[Shared(m)].ja4 = m.ja4
             /\ Outcome[Shared(m)] # m => Better(Outcome[Shared(m)], m)
  <2>1. PICK n \in DOMAIN Outcome :
          /\ Outcome[n].family = m.family /\ Outcome[n].ja4 = m.ja4
          /\ Outcome[n] # m => Better(Outcome[n], m)
    BY FirstIsNamed
  <2>2. /\ Shared(m) \in DOMAIN Outcome
        /\ Outcome[Shared(m)].family = m.family /\ Outcome[Shared(m)].ja4 = m.ja4
    BY <2>1 DEF NameOf
  <2>3. Shared(m) = n
    BY <1>2, <2>1, <2>2
  <2> QED
    BY <2>1, <2>2, <2>3
<1> DEFINE Dup == Duplicates(Outcome)
<1>4. Dup \subseteq members /\ \A m \in members : m \in Dup \/ \E n \in DOMAIN Outcome : Outcome[n] = m
  BY DEF Duplicates
<1>5. aliases' = [id \in {m.id : m \in Dup} |-> Shared(CHOOSE m \in members : m.id = id)]
  <2>1. aliases' = [id \in {m.id : m \in Duplicates(out')} |->
                      NameOf(out', CHOOSE m \in members : m.id = id)]
    BY DEF Rank
  <2> QED
    BY <1>1, <2>1
<1>6. \A m \in members : (CHOOSE o \in members : o.id = m.id) = m
  BY DEF TypeOK
<1> HIDE DEF Dup, Shared
<1>7. \A m \in Dup : m.id \in DOMAIN aliases' /\ aliases'[m.id] = Shared(m)
  BY <1>4, <1>5, <1>6
<1>8. \A id \in DOMAIN aliases' : aliases'[id] \in DOMAIN Outcome
  <2> SUFFICES ASSUME NEW id \in DOMAIN aliases' PROVE aliases'[id] \in DOMAIN Outcome
    OBVIOUS
  <2>1. PICK m \in Dup : id = m.id
    BY <1>5
  <2> QED
    BY <1>3, <1>4, <1>7, <2>1
<1>9. EveryMemberIsNamed'
  <2> SUFFICES ASSUME NEW m \in members, ~\E n \in DOMAIN Outcome : Outcome[n] = m
               PROVE  /\ m.id \in DOMAIN aliases' /\ aliases'[m.id] \in DOMAIN Outcome
                      /\ Outcome[aliases'[m.id]].family = m.family /\ Outcome[aliases'[m.id]].ja4 = m.ja4
                      /\ Better(Outcome[aliases'[m.id]], m)
    BY <1>1 DEF EveryMemberIsNamed, Better
  <2>1. m \in Dup
    BY <1>4
  <2> QED
    BY <1>3, <1>7, <2>1
<1> QED
  BY <1>1, <1>2, <1>8, <1>9 DEF Ranks

LEMMA RanksKept ==
  ASSUME TypeOK, Ranks, [Next]_vars
  PROVE  Ranks'
<1> DEFINE Same == UNCHANGED <<result, targets>> /\ (pc' \in {"remove", "copy"} => pc \in {"remove", "copy"})
<1>1. ASSUME Same PROVE Ranks'
  BY <1>1 DEF Ranks, result, EveryMemberIsNamed, Better, IDs
<1>2. CASE Start
  BY <1>2, FS_EmptySet DEF Start, Ranks, EveryMemberIsNamed
<1>3. ASSUME NEW t \in targets, Collect(t) PROVE Ranks'
  <2>1. IsFiniteSet(members')
    BY <1>3, FS_AddElement DEF Collect, Ranks
  <2>2. UNCHANGED <<pc, out, aliases, targets>> /\ pc = "collect"
    BY <1>3 DEF Collect
  <2>3. \A m \in members' : m.id \in IDs
    BY <1>3, MemberHasType DEF Collect, Ranks, IDs
  <2> QED
    BY <2>1, <2>2, <2>3 DEF IDs, Ranks, EveryMemberIsNamed
<1>4. CASE Rank
  BY <1>4, RankEstablishes DEF Ranks
<1>5. CASE RemoveEntry \/ Cleared \/ WriteCatalog \/ Crash
  BY <1>1, <1>5 DEF RemoveEntry, Cleared, WriteCatalog, Crash
<1>6. ASSUME NEW n \in DOMAIN out, NEW file \in {"hello", "manifest"}, CopyFile(n, file) PROVE Ranks'
  BY <1>1, <1>6 DEF CopyFile
<1>7. ASSUME NEW id \in IDs, NEW j \in JA4s, Capture(id, j) PROVE Ranks'
  BY <1>1, <1>7 DEF Capture
<1>8. CASE UNCHANGED vars
  BY <1>1, <1>8 DEF vars, result
<1> QED
  BY <1>2, <1>3, <1>4, <1>5, <1>6, <1>7, <1>8 DEF Next

LEMMA RanksHold == Spec => []Ranks
<1>1. Init => Ranks
  BY FS_EmptySet DEF Init, Ranks
<1> QED
  BY <1>1, RanksKept, TypeCorrect, PTL DEF Spec

\* A family has one short name per JA4 (export.go:126-141, 181-191).
THEOREM JA4sHaveOneName == Spec => []OneNamePerJA4
<1>1. Ranks => OneNamePerJA4
  BY DEF Ranks, OneNamePerJA4
<1> QED
  BY <1>1, RanksHold, PTL

\* Every member is published or leads to a better one of its JA4
\* (export.go:143-172).
THEOREM MembersAreNamed == Spec => []EveryMemberIsNamed
<1>1. Ranks => EveryMemberIsNamed
  BY DEF Ranks, EveryMemberIsNamed
<1> QED
  BY <1>1, RanksHold, PTL

-----------------------------------------------------------------------------
(* What is published                                                       *)

Files == {"hello", "manifest"}
Copied == [hello : JA4s \cup {None}, manifest : JA4s \cup {None}]

\* What lies in dist/export is of the profiles, and while files are copied there
\* is no catalog; a file that is done is there.
Publication ==
  /\ \A n \in DOMAIN dirs : dirs[n] \in Copied
  /\ CatalogIsComplete
  /\ pc = "copy" =>
       /\ catalog = None
       /\ \A n \in DOMAIN out, file \in Files :
            <<n, file>> \notin todo => n \in DOMAIN dirs /\ dirs[n][file] # None

LEMMA PublicationKept ==
  ASSUME TypeOK, Ranks, Publication, [Next]_vars
  PROVE  Publication'
<1> DEFINE Same == UNCHANGED dist /\ (pc' = "copy" => pc = "copy" /\ UNCHANGED <<todo, out>>)
<1>1. ASSUME Same PROVE Publication'
  BY <1>1 DEF Publication, dist, CatalogIsComplete
<1>2. CASE Start \/ Rank \/ Crash
  BY <1>1, <1>2 DEF Start, Rank, Crash
<1>3. ASSUME NEW t \in targets, Collect(t) PROVE Publication'
  BY <1>1, <1>3 DEF Collect
<1>4. CASE RemoveEntry
  BY <1>4 DEF RemoveEntry, Publication, CatalogIsComplete
<1>5. CASE Cleared
  BY <1>5 DEF Cleared, result, Removed, Publication, CatalogIsComplete, Files
<1>6. ASSUME NEW n \in DOMAIN out, NEW file \in {"hello", "manifest"}, CopyFile(n, file)
      PROVE  Publication'
  <2> DEFINE content == profile[out[n].id][file]
             old == IF n \in DOMAIN dirs THEN dirs[n] ELSE [hello |-> None, manifest |-> None]
             new == IF content = None THEN old ELSE [old EXCEPT ![file] = content]
  <2>1. content \in JA4s \cup {None}
    <3>1. out[n].id \in IDs
      BY <1>6 DEF CopyFile, Ranks
    <3>2. profile[out[n].id] \in Profile
      BY <3>1 DEF TypeOK
    <3> QED
      BY <1>6, <3>2 DEF Profile
  <2>2. old \in Copied /\ new \in Copied
    BY <2>1 DEF Copied, Publication
  <2>3. dirs' = [m \in DOMAIN dirs \cup {n} |-> IF m # n THEN dirs[m] ELSE new]
    BY <1>6 DEF CopyFile
  <2>4. /\ pc = "copy" /\ catalog = None /\ UNCHANGED <<catalog, out, cut>>
        /\ todo' = todo \ {<<n, file>>}
        /\ pc' = "copy" => content # None
    BY <1>6 DEF CopyFile, Publication, Optional, result
  <2> HIDE DEF content, old, new
  <2>5. \A m \in DOMAIN dirs' : dirs'[m] \in Copied
    BY <2>2, <2>3 DEF Publication
  <2>6. ASSUME pc' = "copy", NEW m \in DOMAIN out, NEW f \in Files, <<m, f>> \notin todo'
        PROVE  m \in DOMAIN dirs' /\ dirs'[m][f] # None
    BY <2>2, <2>3, <2>4, <2>6 DEF Publication, content, old, new, Copied, Files
  <2> QED
    BY <2>4, <2>5, <2>6 DEF Publication, CatalogIsComplete
<1>7. CASE WriteCatalog
  BY <1>7 DEF WriteCatalog, Publication, Ranks, CatalogIsComplete, Files
<1>8. ASSUME NEW id \in IDs, NEW j \in JA4s, Capture(id, j) PROVE Publication'
  BY <1>1, <1>8 DEF Capture, result
<1>9. CASE UNCHANGED vars
  BY <1>1, <1>9 DEF vars, dist
<1> QED
  BY <1>2, <1>3, <1>4, <1>5, <1>6, <1>7, <1>8, <1>9 DEF Next

LEMMA PublicationHolds == Spec => []Publication
<1>1. Init => Publication
  BY DEF Init, Publication, CatalogIsComplete
<1> QED
  BY <1>1, PublicationKept, TypeCorrect, RanksHold, PTL DEF Spec

\* A catalog.json lists what lies beside it and its aliases lead to a profile it
\* lists, but for an export that stopped inside RemoveAll (export.go:193-240).
THEOREM CatalogsAreComplete == Spec => []CatalogIsComplete
<1>1. Publication => CatalogIsComplete
  BY DEF Publication
<1> QED
  BY <1>1, PublicationHolds, PTL

-----------------------------------------------------------------------------
(* What the catalog says of the hellos                                     *)

\* The profiles that are there are whole.
WholeNow == \A id \in IDs :
  profile[id].hello # None => {profile[id].meta, profile[id].manifest} \subseteq {profile[id].hello, None}

\* Until a capture comes in between, the JA4 of a member is that of the hello
\* that lies in its profile, and is copied.
Faithful == ~overtaken =>
  /\ pc \in {"collect", "remove", "copy"} => \A m \in members : profile[m.id].hello = m.ja4
  /\ pc = "copy" => \A n \in DOMAIN dirs \cap DOMAIN out : dirs[n].hello \in {None, out[n].ja4}
  /\ CatalogIsTrue

LEMMA WholeKept ==
  ASSUME TypeOK, WholeNow, [Next]_vars
  PROVE  WholeNow'
<1>1. UNCHANGED <<targets, profile>> \/ \E id \in IDs, j \in JA4s : Capture(id, j)
  BY DEF Next, vars, Start, Collect, Rank, RemoveEntry, Cleared, CopyFile, WriteCatalog, Crash
<1>2. CASE UNCHANGED <<targets, profile>>
  BY <1>2 DEF WholeNow, IDs
<1>3. ASSUME NEW id \in IDs, NEW j \in JA4s, Capture(id, j) PROVE WholeNow'
  BY <1>3 DEF Capture, WholeNow, IDs, TypeOK
<1> QED
  BY <1>1, <1>2, <1>3

LEMMA FaithfulKept ==
  ASSUME TypeOK, Ranks, Publication, WholeNow, Faithful, [Next]_vars
  PROVE  Faithful'
<1> SUFFICES ASSUME ~overtaken' PROVE Faithful'
  BY DEF Faithful
<1>0. ~overtaken
  BY DEF Next, vars, Start, Collect, Rank, RemoveEntry, Cleared, CopyFile, WriteCatalog, Crash, Capture,
         result, dist
<1> DEFINE Same == /\ UNCHANGED <<members, out, profile>> /\ UNCHANGED dist
                   /\ pc' \in {"collect", "remove", "copy"} => pc \in {"collect", "remove", "copy"}
                   /\ pc' = "copy" => pc = "copy"
<1>1. ASSUME Same PROVE Faithful'
  BY <1>0, <1>1 DEF Faithful, dist, CatalogIsTrue
<1>2. CASE Start
  BY <1>0, <1>2 DEF Start, dist, Faithful, CatalogIsTrue
<1>3. ASSUME NEW t \in targets, Collect(t) PROVE Faithful'
  <2>1. Usable(t) => profile[t.id].hello = Member(t).ja4 /\ Member(t).id = t.id
    <3>1. t.id \in IDs
      BY DEF IDs
    <3> QED
      BY <3>1 DEF Usable, Member, WholeNow
  <2> QED
    BY <1>0, <1>3, <2>1 DEF Collect, dist, Faithful, CatalogIsTrue
<1>4. CASE Rank
  BY <1>0, <1>4 DEF Rank, dist, Faithful, CatalogIsTrue
<1>5. CASE RemoveEntry
  BY <1>0, <1>5 DEF RemoveEntry, result, Faithful, CatalogIsTrue
<1>6. CASE Cleared
  BY <1>0, <1>6 DEF Cleared, Removed, result, Faithful, CatalogIsTrue
<1>7. ASSUME NEW n \in DOMAIN out, NEW file \in {"hello", "manifest"}, CopyFile(n, file)
      PROVE  Faithful'
  <2> DEFINE content == profile[out[n].id][file]
             old == IF n \in DOMAIN dirs THEN dirs[n] ELSE [hello |-> None, manifest |-> None]
             new == IF content = None THEN old ELSE [old EXCEPT ![file] = content]
  <2>1. /\ dirs' = [m \in DOMAIN dirs \cup {n} |-> IF m # n THEN dirs[m] ELSE new]
        /\ pc = "copy" /\ UNCHANGED <<members, out, profile, catalog>> /\ catalog = None
        /\ pc' \in {"copy", "failed"}
    BY <1>7 DEF CopyFile, result, Publication
  <2>2. profile[out[n].id].hello = out[n].ja4
    BY <1>0, <2>1 DEF Faithful, Ranks
  <2>3. old \in Copied
    BY DEF Publication, Copied
  <2>4. new.hello \in {None, out[n].ja4}
    <3>1. old.hello \in {None, out[n].ja4}
      BY <1>0, <2>1 DEF Faithful
    <3>2. CASE file = "hello"
      BY <2>2, <2>3, <3>1, <3>2 DEF Copied
    <3>3. CASE file = "manifest"
      BY <2>3, <3>1, <3>3 DEF Copied
    <3> QED
      BY <3>2, <3>3
  <2> HIDE DEF new, old, content
  <2>5. \A m \in DOMAIN dirs' \cap DOMAIN out : dirs'[m].hello \in {None, out[m].ja4}
    BY <1>0, <2>1, <2>4 DEF Faithful
  <2> QED
    BY <1>0, <2>1, <2>5 DEF Faithful, CatalogIsTrue
<1>8. CASE WriteCatalog
  BY <1>0, <1>8 DEF WriteCatalog, result, Publication, Faithful, CatalogIsTrue, Files
<1>9. CASE Crash
  BY <1>1, <1>9 DEF Crash, result
<1>10. ASSUME NEW id \in IDs, NEW j \in JA4s, Capture(id, j) PROVE Faithful'
  BY <1>0, <1>10 DEF Capture, result, dist, Faithful, CatalogIsTrue
<1>11. CASE UNCHANGED vars
  BY <1>1, <1>11 DEF vars, dist
<1> QED
  BY <1>2, <1>3, <1>4, <1>5, <1>6, <1>7, <1>8, <1>9, <1>10, <1>11 DEF Next

\* With whole profiles a catalog states the JA4 of the hello beside it, until a
\* capture comes in the middle of an export (export.go:57-106, 202-240).
THEOREM CatalogsAreTrue ==
  ASSUME ProfilesAreWhole
  PROVE  Spec => []CatalogIsTrue
<1>1. Init => WholeNow /\ Faithful
  <2> SUFFICES ASSUME Init PROVE WholeNow /\ Faithful
    OBVIOUS
  <2>1. WholeNow
    BY DEF Init, WholeNow, ProfilesAreWhole
  <2> QED
    BY <2>1 DEF Init, Faithful, CatalogIsTrue
<1>2. Faithful => CatalogIsTrue
  BY DEF Faithful, CatalogIsTrue
<1> QED
  BY <1>1, <1>2, WholeKept, FaithfulKept, TypeCorrect, RanksHold, PublicationHolds, PTL DEF Spec
=============================================================================
