------------------------- MODULE BrownoutRun_proof -------------------------
(* What holds of a compiled plan and of its incident for all services,       *)
(* events, limits and options.                                               *)
EXTENDS BrownoutRun, FiniteSetTheorems, FunctionTheorems, SequenceTheorems, NaturalsInduction, WellFoundedInduction, TLAPS

-----------------------------------------------------------------------------
(* Least and greatest elements.                                              *)
LEMMA NatMin ==
  ASSUME NEW T \in SUBSET Nat, T # {}
  PROVE  \E n \in T : \A m \in T : n <= m
<1> DEFINE R == {ss \in Nat \X Nat : ss[1] < ss[2]}
<1>1. R = OpToRel(<, Nat)  BY Zenon DEF OpToRel
<1>2. IsWellFoundedOn(R, Nat)  BY <1>1, NatLessThanWellFounded
<1> HIDE DEF R
<1>3. PICK n \in T : \A m \in T : <<m, n>> \notin R  BY <1>2, WFMin
<1>4. \A m \in T : ~(m < n)  BY <1>3 DEF R
<1> QED  BY <1>4

LEMMA MinOfNats ==
  ASSUME NEW T \in SUBSET Nat, T # {}
  PROVE  Min(T) \in T /\ \A m \in T : Min(T) <= m
<1>1. \E n \in T : \A m \in T : n <= m  BY NatMin
<1> QED  BY <1>1 DEF Min

LEMMA MaxUpTo ==
  ASSUME NEW bound \in Nat, NEW T \in SUBSET 0..bound, T # {}
  PROVE  Max(T) \in T /\ \A m \in T : m <= Max(T)
<1> DEFINE U == {n \in Nat : n <= bound /\ bound - n \in T}
<1>1. PICK t \in T : TRUE  OBVIOUS
<1>2. bound - t \in U  BY <1>1
<1>3. PICK u \in U : \A v \in U : u <= v  BY <1>2, NatMin
<1>4. bound - u \in T  BY <1>3
<1>5. \A m \in T : m <= bound - u
  <2> SUFFICES ASSUME NEW m \in T PROVE m <= bound - u  OBVIOUS
  <2>1. bound - m \in U  OBVIOUS
  <2>2. u <= bound - m  BY <1>3, <2>1
  <2> QED  BY <2>2, <1>3
<1>6. \E x \in T : \A m \in T : m <= x  BY <1>4, <1>5
<1> QED  BY <1>6 DEF Max

-----------------------------------------------------------------------------
(* A strict total order puts all of a finite set into a sequence.            *)
IsOrderOf(before, S) ==
  /\ \A a \in S : <<a, a>> \notin before
  /\ \A a, b, c \in S : <<a, b>> \in before /\ <<b, c>> \in before => <<a, c>> \in before
  /\ \A a, b \in S : a = b \/ <<a, b>> \in before \/ <<b, a>> \in before

LEMMA InOrderHasAll ==
  ASSUME NEW S, IsFiniteSet(S), NEW before, IsOrderOf(before, S)
  PROVE  /\ InOrder(S, before) \in [1..Cardinality(S) -> S]
         /\ \A a \in S : \E r \in 1..Cardinality(S) : InOrder(S, before)[r] = a
<1> DEFINE Below(a) == {b \in S : <<b, a>> \in before}
           n == Cardinality(S)
           rank == [a \in S |-> Cardinality(Below(a)) + 1]
<1>1. n \in Nat  BY FS_CardinalityType
<1>2. ASSUME NEW a \in S
      PROVE  IsFiniteSet(Below(a)) /\ Cardinality(Below(a)) \in Nat /\ Cardinality(Below(a)) + 1 \in 1..n
  <2>1. a \notin Below(a)  BY DEF IsOrderOf
  <2>2. Below(a) \in SUBSET S /\ Below(a) # S  BY <2>1
  <2>3. IsFiniteSet(Below(a)) /\ Cardinality(Below(a)) <= n /\ Cardinality(Below(a)) # n
    <3> HIDE DEF Below
    <3> QED  BY <2>2, FS_Subset
  <2>4. Cardinality(Below(a)) \in Nat  BY <2>3, FS_CardinalityType
  <2> QED  BY <2>3, <2>4, <1>1
<1>3. ASSUME NEW a \in S, NEW b \in S, <<a, b>> \in before
      PROVE  Cardinality(Below(a)) # Cardinality(Below(b))
  <2>1. a \in Below(b) /\ a \notin Below(a)  BY <1>3 DEF IsOrderOf
  <2>2. Below(a) \in SUBSET Below(b)  BY <1>3 DEF IsOrderOf
  <2>3. IsFiniteSet(Below(b))  BY <1>2
  <2> HIDE DEF Below
  <2> QED  BY <2>1, <2>2, <2>3, FS_Subset
<1>4. rank \in [S -> 1..n]  BY <1>2
<1>5. \A a, b \in S : rank[a] = rank[b] => a = b
  <2> SUFFICES ASSUME NEW a \in S, NEW b \in S, a # b PROVE rank[a] # rank[b]  OBVIOUS
  <2>a. <<a, b>> \in before \/ <<b, a>> \in before  BY DEF IsOrderOf
  <2>1. Cardinality(Below(a)) # Cardinality(Below(b))
    <3> HIDE DEF Below, rank
    <3> QED  BY <2>a, <1>3
  <2>2. Cardinality(Below(a)) \in Nat /\ Cardinality(Below(b)) \in Nat  BY <1>2
  <2>3. rank[a] = Cardinality(Below(a)) + 1 /\ rank[b] = Cardinality(Below(b)) + 1  OBVIOUS
  <2> HIDE DEF rank, Below
  <2> QED  BY <2>1, <2>2, <2>3
<1>6. rank \in Injection(S, 1..n)  BY <1>4, <1>5 DEF Injection, IsInjective
<1>7. IsFiniteSet(1..n) /\ Cardinality(1..n) = n
  <2> HIDE DEF n
  <2>1. n - 1 + 1 = n  BY <1>1
  <2> QED  BY <1>1, <2>1, FS_Interval
<1>8. rank \in Surjection(S, 1..n)
  <2> HIDE DEF rank
  <2> QED  BY <1>6, <1>7, FS_Injection
<1>9. \A r \in 1..n : \E a \in S : rank[a] = r  BY <1>8 DEF Surjection
<1>10. ASSUME NEW r \in 1..n
       PROVE  InOrder(S, before)[r] \in S /\ rank[InOrder(S, before)[r]] = r
  <2>1. InOrder(S, before)[r] = CHOOSE a \in S : Cardinality(Below(a)) = r - 1  BY DEF InOrder
  <2>2. PICK a \in S : rank[a] = r  BY <1>9
  <2>3. Cardinality(Below(a)) = r - 1
    <3>1. rank[a] = Cardinality(Below(a)) + 1 /\ Cardinality(Below(a)) \in Nat  BY <1>2
    <3> HIDE DEF rank, Below
    <3> QED  BY <2>2, <3>1
  <2>4. InOrder(S, before)[r] \in S /\ Cardinality(Below(InOrder(S, before)[r])) = r - 1
    <3> HIDE DEF Below
    <3> QED  BY <2>1, <2>3
  <2> QED  BY <2>4, <1>2
<1>11. InOrder(S, before) \in [1..n -> S]
  <2>1. \A r \in 1..n : (CHOOSE a \in S : Cardinality({b \in S : <<b, a>> \in before}) = r - 1) \in S
    BY <1>10 DEF InOrder
  <2> QED  BY <2>1 DEF InOrder
<1>12. ASSUME NEW a \in S PROVE \E r \in 1..n : InOrder(S, before)[r] = a
  <2> HIDE DEF rank
  <2>1. rank[a] \in 1..n  BY <1>4
  <2> QED  BY <2>1, <1>5, <1>10
<1> QED  BY <1>11, <1>12

(* The order of keys compares the first place in which they differ.          *)
LEMMA LexLessIsOrder ==
  ASSUME NEW n \in Nat, NEW s \in [1..n -> Int], NEW t \in [1..n -> Int], NEW u \in [1..n -> Int]
  PROVE  /\ ~LexLess(s, s)
         /\ LexLess(s, t) /\ LexLess(t, u) => LexLess(s, u)
         /\ s = t \/ LexLess(s, t) \/ LexLess(t, s)
<1>1. ~LexLess(s, s)  BY DEF LexLess
<1>2. ASSUME LexLess(s, t), LexLess(t, u) PROVE LexLess(s, u)
  <2>1. PICK i \in 1..n : s[i] < t[i] /\ \A m \in 1..(i - 1) : s[m] = t[m]  BY <1>2 DEF LexLess
  <2>2. PICK j \in 1..n : t[j] < u[j] /\ \A m \in 1..(j - 1) : t[m] = u[m]  BY <1>2 DEF LexLess
  <2> DEFINE k == IF i < j THEN i ELSE j
  <2>3. k \in 1..n /\ \A m \in 1..(k - 1) : m \in 1..n /\ m \in 1..(i - 1) /\ m \in 1..(j - 1)  OBVIOUS
  <2>4. \A m \in 1..(k - 1) : s[m] = u[m]  BY <2>1, <2>2, <2>3
  <2>5. s[k] < u[k]
    <3>1. CASE i < j
      <4>1. t[i] = u[i]  BY <2>2, <3>1
      <4> QED  BY <4>1, <2>1, <3>1
    <3>2. CASE i = j
      <4>1. s[i] \in Int /\ t[i] \in Int /\ u[i] \in Int  OBVIOUS
      <4> QED  BY <4>1, <2>1, <2>2, <3>2
    <3>3. CASE j < i
      <4>1. s[j] = t[j]  BY <2>1, <3>3
      <4> QED  BY <4>1, <2>2, <3>3
    <3> QED  BY <3>1, <3>2, <3>3
  <2> HIDE DEF k
  <2> QED  BY <2>3, <2>4, <2>5 DEF LexLess
<1>3. ASSUME s # t PROVE LexLess(s, t) \/ LexLess(t, s)
  <2> DEFINE D == {i \in 1..n : s[i] # t[i]}
  <2>a. s = [i \in 1..n |-> s[i]] /\ t = [i \in 1..n |-> t[i]]  OBVIOUS
  <2>b. PICK d \in 1..n : s[d] # t[d]  BY Zenon, <1>3, <2>a
  <2>c. d \in D  BY <2>b
  <2>d. \A i \in D : i \in Nat  OBVIOUS
  <2>1. D \in SUBSET Nat /\ D # {}
    <3> HIDE DEF D
    <3> QED  BY <2>c, <2>d
  <2>2. PICK i \in D : \A m \in D : i <= m
    <3> HIDE DEF D
    <3> QED  BY <2>1, NatMin
  <2>3. i \in 1..n /\ \A m \in 1..(i - 1) : s[m] = t[m]  BY <2>2
  <2>4. s[i] < t[i] \/ t[i] < s[i]
    <3>1. s[i] \in Int /\ t[i] \in Int /\ s[i] # t[i]  BY <2>2
    <3> QED  BY <3>1
  <2>5. DOMAIN s = 1..n /\ DOMAIN t = 1..n  OBVIOUS
  <2> QED  BY <2>3, <2>4, <2>5 DEF LexLess
<1> QED  BY <1>1, <1>2, <1>3

LEMMA ImageIsFinite ==
  ASSUME NEW S, IsFiniteSet(S), NEW f
  PROVE  IsFiniteSet({f[x] : x \in S})
<1> DEFINE T == {f[x] : x \in S}
           g == [x \in S |-> f[x]]
<1>1. g \in Surjection(S, T)  BY DEF Surjection
<1> HIDE DEF g, T
<1> QED  BY <1>1, FS_Surjection DEF T

LEMMA IntervalIsFinite ==
  ASSUME NEW n \in Nat
  PROVE  IsFiniteSet(1..n)
BY FS_Interval

-----------------------------------------------------------------------------
(* The endpoints a target may stand for, and the one that is taken.          *)
LEMMA ListType ==
  ASSUME NEW s, IsList(s)
  PROVE  Len(s) \in Nat /\ DOMAIN s = 1..Len(s)
BY DEF IsList

LEMMA FoundType ==
  ASSUME NEW ss, NEW target, NEW i, NEW j
  PROVE  <<i, j>> \in TargetMatches(ss, target)
           <=> i \in DOMAIN ss /\ j \in DOMAIN ss[i].endpoints /\ EndpointMatches(target, ss[i].endpoints[j])
BY DEF TargetMatches

LEMMA FoundArePairs ==
  ASSUME NEW ss, NEW target, NEW m \in TargetMatches(ss, target)
  PROVE  m = <<m[1], m[2]>>
BY DEF TargetMatches

LEMMA FoundIsFinite ==
  ASSUME NEW ss, IsList(ss), \A i \in DOMAIN ss : IsList(ss[i].endpoints), NEW target
  PROVE  IsFiniteSet(TargetMatches(ss, target))
<1> DEFINE Own(i) == {<<i, j>> : j \in {j \in DOMAIN ss[i].endpoints : EndpointMatches(target, ss[i].endpoints[j])}}
           own == [i \in DOMAIN ss |-> Own(i)]
<1>1. ASSUME NEW i \in DOMAIN ss PROVE IsFiniteSet(Own(i))
  <2> DEFINE J == {j \in DOMAIN ss[i].endpoints : EndpointMatches(target, ss[i].endpoints[j])}
             f == [j \in J |-> <<i, j>>]
  <2>1. IsFiniteSet(DOMAIN ss[i].endpoints)  BY ListType, IntervalIsFinite
  <2>2. J \in SUBSET DOMAIN ss[i].endpoints  OBVIOUS
  <2>3. IsFiniteSet(J)
    <3> HIDE DEF J
    <3> QED  BY <2>1, <2>2, FS_Subset
  <2>4. Own(i) = {f[j] : j \in J}  OBVIOUS
  <2>5. IsFiniteSet({f[j] : j \in J})
    <3> HIDE DEF J, f
    <3> QED  BY <2>3, ImageIsFinite
  <2> QED  BY <2>4, <2>5
<1>2. IsFiniteSet(DOMAIN ss)  BY ListType, IntervalIsFinite
<1> DEFINE all == {own[i] : i \in DOMAIN ss}
<1>3. IsFiniteSet(all)
  <2> HIDE DEF own
  <2> QED  BY <1>2, ImageIsFinite
<1>4. \A T \in all : IsFiniteSet(T)  BY <1>1
<1>5. TargetMatches(ss, target) = UNION all  BY DEF TargetMatches
<1> HIDE DEF all
<1> QED  BY <1>3, <1>4, <1>5, FS_UNION

(* The match that is taken is one, and none comes before it.                 *)
LEMMA ChosenIsFirst ==
  ASSUME NEW ss, IsList(ss), \A i \in DOMAIN ss : ServiceAssumption(ss[i]), NEW target,
         TargetMatches(ss, target) # {}
  PROVE  LET m == Chosen(ss, TargetMatches(ss, target))
         IN  /\ m \in TargetMatches(ss, target)
             /\ \A n \in TargetMatches(ss, target) : ss[m[1]].priority <= ss[n[1]].priority
<1> DEFINE found == TargetMatches(ss, target)
           rank(m) == ss[m[1]].priority
           P == {p \in Nat : \E m \in found : rank(m) = p}
<1>1. ASSUME NEW m \in found
      PROVE  m = <<m[1], m[2]>> /\ m[1] \in Nat /\ m[2] \in Nat /\ rank(m) \in Nat
  <2>1. m = <<m[1], m[2]>>  BY FoundArePairs
  <2>2. m[1] \in DOMAIN ss /\ m[2] \in DOMAIN ss[m[1]].endpoints  BY <2>1, FoundType
  <2>3. ServiceAssumption(ss[m[1]])  BY <2>2
  <2>4. m[1] \in Nat  BY <2>2, ListType
  <2>5. m[2] \in Nat  BY <2>2, <2>3, ListType DEF ServiceAssumption
  <2>6. rank(m) \in Nat  BY <2>3 DEF ServiceAssumption
  <2> QED  BY <2>1, <2>4, <2>5, <2>6
<1> HIDE DEF found
<1>2. found # {}  BY DEF found
<1>3. PICK p \in P : \A q \in P : p <= q
  <2>1. P # {} /\ P \in SUBSET Nat  BY <1>1, <1>2
  <2> HIDE DEF P
  <2> QED  BY <2>1, NatMin
<1> DEFINE I == {i \in Nat : \E m \in found : rank(m) = p /\ m[1] = i}
<1>4. PICK i \in I : \A q \in I : i <= q
  <2>1. I # {} /\ I \in SUBSET Nat  BY <1>1, <1>3
  <2> HIDE DEF I
  <2> QED  BY <2>1, NatMin
<1> DEFINE J == {j \in Nat : \E m \in found : rank(m) = p /\ m[1] = i /\ m[2] = j}
<1>5. PICK j \in J : \A q \in J : j <= q
  <2>1. J # {} /\ J \in SUBSET Nat  BY <1>1, <1>4
  <2> HIDE DEF J
  <2> QED  BY <2>1, NatMin
<1>6. PICK best \in found : rank(best) = p /\ best[1] = i /\ best[2] = j  BY <1>5
<1>7. ASSUME NEW n \in found \ {best} PROVE Before(ss, best, n)
  <2>1. p <= rank(n)  BY <1>1, <1>3
  <2>2. rank(n) = p => i <= n[1]  BY <1>1, <1>4
  <2>3. rank(n) = p /\ n[1] = i => j <= n[2]  BY <1>1, <1>5
  <2>4. n[1] # i \/ n[2] # j
    <3>1. n = <<n[1], n[2]>> /\ best = <<best[1], best[2]>>  BY <1>1
    <3> QED  BY <3>1, <1>6
  <2>5. rank(n) \in Nat /\ n[1] \in Nat /\ n[2] \in Nat /\ p \in Nat /\ i \in Nat /\ j \in Nat
    BY <1>1, <1>3, <1>4, <1>5
  <2>6. p < rank(n) \/ (p = rank(n) /\ (i < n[1] \/ (i = n[1] /\ j < n[2])))
    BY <2>1, <2>2, <2>3, <2>4, <2>5
  <2> QED  BY <2>6, <1>6 DEF Before, InFileOrder
<1> DEFINE m == Chosen(ss, found)
<1>8. m \in found /\ \A n \in found \ {m} : Before(ss, m, n)
  BY <1>6, <1>7, Zenon DEF Chosen
<1>9. ASSUME NEW n \in found PROVE rank(m) <= rank(n)
  <2>1. rank(m) \in Nat /\ rank(n) \in Nat  BY <1>1, <1>8
  <2>2. n = m \/ Before(ss, m, n)  BY <1>8
  <2> QED  BY <2>1, <2>2 DEF Before
<1> QED  BY <1>8, <1>9 DEF found

-----------------------------------------------------------------------------
(* Times and risks.                                                          *)
LEMMA MinOfFive ==
  ASSUME NEW a \in Int, NEW b \in Int, NEW c \in Int, NEW d \in Int, NEW e \in Int
  PROVE  \E m \in {a, b, c, d} \cup {e} : \A y \in {a, b, c, d} \cup {e} : m <= y
OBVIOUS

LEMMA MinOfFour ==
  ASSUME NEW a \in Int, NEW b \in Int, NEW c \in Int, NEW d \in Int
  PROVE  \E m \in {a, b, c, d} : \A y \in {a, b, c, d} : m <= y
OBVIOUS

LEMMA TtlType ==
  ASSUME NEW type, NEW service, ServiceAssumption(service), NEW limits, LimitsAssumption(limits)
  PROVE  /\ TtlFor(type, service, limits) \in Int
         /\ type = "TEMPORARY_NULL_ROUTE" => TtlFor(type, service, limits) <= limits.nullRoute
<1>1. /\ limits.default \in Int /\ limits.max \in Int /\ limits.nullRoute \in Int
      /\ limits.priority[service.priority] \in Int /\ service.maxTtl \in Int
  BY DEF LimitsAssumption, ServiceAssumption
<1> DEFINE S == {limits.default, limits.max, limits.priority[service.priority], service.maxTtl}
<1>2. CASE type = "TEMPORARY_NULL_ROUTE"
  <2>1. \E m \in S \cup {limits.nullRoute} : \A y \in S \cup {limits.nullRoute} : m <= y  BY <1>1, MinOfFive
  <2>2. TtlFor(type, service, limits) = Min(S \cup {limits.nullRoute})  BY <1>2, Zenon DEF TtlFor
  <2>3. Min(S \cup {limits.nullRoute}) \in S \cup {limits.nullRoute} /\ Min(S \cup {limits.nullRoute}) <= limits.nullRoute
    <3> HIDE DEF S
    <3> QED  BY <2>1 DEF Min
  <2> QED  BY <2>2, <2>3, <1>1
<1>3. CASE type # "TEMPORARY_NULL_ROUTE"
  <2>1. \E m \in S : \A y \in S : m <= y  BY <1>1, MinOfFour
  <2>2. TtlFor(type, service, limits) = Min(S)
    <3>1. S \cup {} = S  OBVIOUS
    <3> QED  BY <1>3, <3>1, Zenon DEF TtlFor
  <2>3. Min(S) \in S
    <3> HIDE DEF S
    <3> QED  BY <2>1 DEF Min
  <2> QED  BY <2>2, <2>3, <1>1, <1>3
<1> QED  BY <1>2, <1>3

LEMMA RiskType ==
  ASSUME NEW type, NEW service, NEW packRisk, \A x \in DOMAIN packRisk : packRisk[x] \in Low..Critical
  PROVE  ScoreRisk(type, service, packRisk) \in 0..4
<1> DEFINE base == IF type \in DOMAIN packRisk THEN packRisk[type] ELSE DefaultRisk(type)
           extra == IF \/ type = "SHED_LOW_PRIORITY" /\ service.priority = 3
                       \/ service.approval
                       \/ service.id \in {AdminAccess, VpnAccess} /\ type # "PRIORITIZE"
                    THEN {High} ELSE {}
<1>1. ScoreRisk(type, service, packRisk) = IF type = "TEMPORARY_NULL_ROUTE" THEN Critical ELSE Max({base} \cup extra)
  BY Zenon DEF ScoreRisk
<1>2. base \in 0..4  BY DEF DefaultRisk, Low, Medium, High, Critical
<1>3. extra \in SUBSET {3}  BY DEF High
<1> HIDE DEF base, extra
<1>4. {base} \cup extra \in SUBSET 0..4 /\ {base} \cup extra # {}  BY <1>2, <1>3
<1>5. 4 \in Nat  OBVIOUS
<1>6. Max({base} \cup extra) \in 0..4  BY <1>4, <1>5, MaxUpTo
<1> QED  BY <1>1, <1>6 DEF Critical

-----------------------------------------------------------------------------
(* What a compilation whose targets are all matched has to go by.            *)
Found(t) == TargetMatches(services, targets[t])

Mapped(t) == matches[t] = IF Found(t) = {} THEN <<>> ELSE Chosen(services, Found(t))

AllMapped == input \in Inputs /\ Len(matches) = Len(targets) /\ \A t \in DOMAIN targets : Mapped(t)

Owner(t) == services[matches[t][1]]

Access(t) == Owner(t).endpoints[matches[t][2]]

CallsFor(t) == IF matches[t] = <<>> THEN {} ELSE CandidateTypes(Owner(t), input.event.context, input.options)

Refused(t, type) == Refusal(type, Owner(t), services, targets[t], input.limits)

Proposed == UNION {Proposals(t).made : t \in DOMAIN targets}

LEMMA InputType ==
  ASSUME input \in Inputs
  PROVE  /\ IsList(services) /\ DOMAIN services = 1..Len(services) /\ Len(services) \in Nat
         /\ \A i \in DOMAIN services : ServiceAssumption(services[i]) /\ IsList(services[i].endpoints)
         /\ IsList(targets) /\ DOMAIN targets = 1..Len(targets) /\ Len(targets) \in Nat /\ 1 \in DOMAIN targets
         /\ \A t \in DOMAIN targets : targets[t].ip \in Int
         /\ LimitsAssumption(input.limits) /\ ActionLimit \in Int
         /\ \A x \in DOMAIN input.packRisk : input.packRisk[x] \in Low..Critical
<1>1. /\ IsList(services) /\ \A i \in DOMAIN services : ServiceAssumption(services[i])
      /\ IsList(targets) /\ targets # <<>>
      /\ \A t \in DOMAIN targets : targets[t].ip \in Int
      /\ LimitsAssumption(input.limits) /\ input.options.maxActions \in Int
      /\ \A x \in DOMAIN input.packRisk : input.packRisk[x] \in Low..Critical
  BY InputsAssumption DEF InputsAssumption, services, targets
<1>2. \A i \in DOMAIN services : IsList(services[i].endpoints)  BY <1>1 DEF ServiceAssumption
<1>3. DOMAIN services = 1..Len(services) /\ Len(services) \in Nat  BY <1>1, ListType
<1>4. DOMAIN targets = 1..Len(targets) /\ Len(targets) \in Nat  BY <1>1, ListType
<1>5. Len(targets) # 0  BY <1>1 DEF IsList
<1>6. ActionLimit \in Int  BY <1>1 DEF ActionLimit, LimitsAssumption
<1> HIDE DEF targets
<1>7. 1 \in DOMAIN targets  BY <1>4, <1>5
<1> QED  BY <1>1, <1>2, <1>3, <1>4, <1>6, <1>7

LEMMA MatchedOne ==
  ASSUME AllMapped, NEW t \in DOMAIN targets, matches[t] # <<>>
  PROVE  /\ matches[t] = <<matches[t][1], matches[t][2]>>
         /\ matches[t][1] \in DOMAIN services /\ matches[t][2] \in DOMAIN Owner(t).endpoints
         /\ EndpointMatches(targets[t], Access(t))
         /\ \A i \in DOMAIN services : \A j \in DOMAIN services[i].endpoints :
              EndpointMatches(targets[t], services[i].endpoints[j]) => Owner(t).priority <= services[i].priority
<1>1. /\ IsList(services) /\ \A i \in DOMAIN services : ServiceAssumption(services[i])
  BY InputType DEF AllMapped
<1>2. Found(t) # {} /\ matches[t] = Chosen(services, Found(t))  BY DEF AllMapped, Mapped
<1>3. matches[t] \in Found(t) /\ \A n \in Found(t) : Owner(t).priority <= services[n[1]].priority
  BY <1>1, <1>2, ChosenIsFirst DEF Found, Owner
<1>4. matches[t] = <<matches[t][1], matches[t][2]>>  BY <1>3, FoundArePairs DEF Found
<1>5. /\ matches[t][1] \in DOMAIN services /\ matches[t][2] \in DOMAIN Owner(t).endpoints
      /\ EndpointMatches(targets[t], Access(t))
  BY <1>3, <1>4, FoundType DEF Found, Owner, Access
<1>6. ASSUME NEW i \in DOMAIN services, NEW j \in DOMAIN services[i].endpoints,
             EndpointMatches(targets[t], services[i].endpoints[j])
      PROVE  Owner(t).priority <= services[i].priority
  <2>1. <<i, j>> \in Found(t)  BY <1>6, FoundType DEF Found
  <2>2. <<i, j>>[1] = i  OBVIOUS
  <2> QED  BY <1>3, <2>1, <2>2
<1> QED  BY <1>4, <1>5, <1>6

LEMMA CallTypes ==
  ASSUME NEW service, NEW context, NEW options, NEW type \in CandidateTypes(service, context, options)
  PROVE  type \in ActionType
<1>1. type \in Offered(service, context, options) \cup {"NO_ACTION", "MONITOR_ONLY"}  BY DEF CandidateTypes
<1>2. Offered(service, context, options) \subseteq ActionType  BY DEF Offered, ActionType
<1> QED  BY <1>1, <1>2 DEF ActionType

LEMMA ProposalsMade ==
  ASSUME NEW t
  PROVE  /\ Proposals(t).made = {MakeAction(type, t) : type \in {c \in CallsFor(t) : Refused(t, c) = {}}}
         /\ \A type \in CallsFor(t) : Refused(t, type) \subseteq Proposals(t).blockers
<1>1. CASE matches[t] = <<>>
  BY <1>1 DEF Proposals, CallsFor
<1>2. CASE matches[t] # <<>>
  BY <1>2 DEF Proposals, CallsFor, Refused, Owner
<1> QED  BY <1>1, <1>2

(* Every action is a proposal for a target that is matched, or a monitor.    *)
IsProposal(a) ==
  \E t \in DOMAIN targets : \E type \in CallsFor(t) : Refused(t, type) = {} /\ a = MakeAction(type, t)

IsMonitor(a) ==
  \/ \E t \in DOMAIN targets : matches[t] = <<>> /\ a = MakeMonitorOnly(t, FALSE, Low)
  \/ a = MakeMonitorOnly(1, TRUE, High)

LEMMA ActionKinds ==
  ASSUME proposed = Proposed, NEW a \in AllActions
  PROVE  IsProposal(a) \/ IsMonitor(a)
<1>1. CASE a \in proposed
  <2>1. PICK t \in DOMAIN targets : a \in Proposals(t).made  BY <1>1 DEF Proposed
  <2>2. a \in {MakeAction(type, t) : type \in {c \in CallsFor(t) : Refused(t, c) = {}}}  BY <2>1, ProposalsMade, Zenon
  <2> QED  BY <2>2 DEF IsProposal
<1>2. CASE a \in UnmatchedMonitors  BY <1>2 DEF UnmatchedMonitors, IsMonitor
<1>3. CASE a \in SourceReview  BY <1>3 DEF SourceReview, IsMonitor
<1> QED  BY <1>1, <1>2, <1>3 DEF AllActions

LEMMA ProposalFields ==
  ASSUME AllMapped, NEW t \in DOMAIN targets, NEW type \in CallsFor(t), NEW a, a = MakeAction(type, t)
  PROVE  /\ matches[t] # <<>> /\ type \in ActionType
         /\ a.type = type /\ a.service = matches[t][1] /\ a.priority = Owner(t).priority /\ a.target = t
         /\ a.protocol = Access(t).protocol
         /\ a.ports = IF targets[t].portsKnown /\ targets[t].ports # {} THEN targets[t].ports ELSE Access(t).ports
         /\ a.ttl = TtlFor(type, Owner(t), input.limits) /\ a.approval = ApprovalRequired(type, Owner(t))
         /\ a.risk \in 0..4
<1>1. matches[t] # <<>> /\ type \in ActionType
  <2>1. matches[t] # <<>>  BY DEF CallsFor
  <2>2. type \in CandidateTypes(Owner(t), input.event.context, input.options)  BY <2>1 DEF CallsFor
  <2> QED  BY <2>1, <2>2, CallTypes
<1> DEFINE risk == ScoreRisk(type, Owner(t), input.packRisk)
<1>2. /\ a.type = type /\ a.service = matches[t][1] /\ a.priority = Owner(t).priority /\ a.target = t
      /\ a.protocol = Access(t).protocol
      /\ a.ports = IF targets[t].portsKnown /\ targets[t].ports # {} THEN targets[t].ports ELSE Access(t).ports
      /\ a.ttl = TtlFor(type, Owner(t), input.limits) /\ a.approval = ApprovalRequired(type, Owner(t))
      /\ a.risk = IF ApprovalRequired(type, Owner(t)) THEN Max({risk, High}) ELSE risk
  BY DEF MakeAction, Owner, Access
<1>3. risk \in 0..4  BY InputType, RiskType DEF AllMapped
<1> HIDE DEF risk
<1>4. {risk, High} \in SUBSET 0..4 /\ {risk, High} # {} /\ 4 \in Nat  BY <1>3 DEF High
<1>5. Max({risk, High}) \in 0..4  BY <1>4, MaxUpTo
<1> QED  BY <1>1, <1>2, <1>3, <1>5

LEMMA MonitorFields ==
  ASSUME NEW t, NEW approval, NEW risk, NEW a, a = MakeMonitorOnly(t, approval, risk)
  PROVE  a.type = "MONITOR_ONLY" /\ a.service = 0 /\ a.priority = 4 /\ a.target = t /\ a.risk = risk
BY DEF MakeMonitorOnly

LEMMA TypePlace ==
  ASSUME NEW type \in ActionType
  PROVE  LET n == CHOOSE n \in DOMAIN TypeOrder : TypeOrder[n] = type
         IN  n \in 1..12 /\ TypeOrder[n] = type
<1>1. DOMAIN TypeOrder = 1..12  BY DEF TypeOrder
<1>2. \E n \in 1..12 : TypeOrder[n] = type
  <2>1. /\ TypeOrder[1] = "ALLOW_TRUSTED_SOURCES" /\ TypeOrder[2] = "CHALLENGE" /\ TypeOrder[3] = "DENY_UNTRUSTED"
        /\ TypeOrder[4] = "DEPRIORITIZE" /\ TypeOrder[5] = "MONITOR_ONLY" /\ TypeOrder[6] = "NO_ACTION"
        /\ TypeOrder[7] = "PRIORITIZE" /\ TypeOrder[8] = "RATE_LIMIT" /\ TypeOrder[9] = "RATE_LIMIT_UNTRUSTED"
        /\ TypeOrder[10] = "SHED_LOW_PRIORITY" /\ TypeOrder[11] = "TEMPORARY_BLOCK_PORT"
        /\ TypeOrder[12] = "TEMPORARY_NULL_ROUTE"
    BY DEF TypeOrder
  <2>2. \A n \in {1, 2, 3, 4, 5, 6, 7, 8, 9, 10, 11, 12} : n \in 1..12  OBVIOUS
  <2> QED  BY <2>1, <2>2 DEF ActionType
<1> QED  BY <1>1, <1>2

(* What tells actions apart: the key that they are sorted by.                *)
LEMMA ActionIsTyped ==
  ASSUME AllMapped, proposed = Proposed, NEW a \in AllActions
  PROVE  /\ a.priority \in Int /\ a.risk \in Int /\ a.service \in 0..Len(services) /\ a.type \in ActionType
         /\ a.target \in DOMAIN targets /\ targets[a.target].ip \in Int
<1>1. CASE IsProposal(a)
  <2>0. PICK t \in DOMAIN targets : \E type \in CallsFor(t) : a = MakeAction(type, t)  BY <1>1 DEF IsProposal
  <2>1. PICK type \in CallsFor(t) : a = MakeAction(type, t)  BY <2>0
  <2>2. /\ matches[t] # <<>> /\ type \in ActionType /\ a.type = type /\ a.service = matches[t][1]
        /\ a.priority = Owner(t).priority /\ a.target = t /\ a.risk \in 0..4
    BY <2>1, ProposalFields
  <2>3. matches[t][1] \in DOMAIN services  BY <2>2, MatchedOne
  <2>4. Owner(t).priority \in 0..4  BY <2>3, InputType DEF AllMapped, ServiceAssumption, Owner
  <2> QED  BY <2>2, <2>3, <2>4, InputType DEF AllMapped
<1>2. CASE IsMonitor(a)
  <2>1. PICK t \in DOMAIN targets, approval \in BOOLEAN, risk \in {Low, High} : a = MakeMonitorOnly(t, approval, risk)
    BY <1>2, InputType DEF IsMonitor, AllMapped
  <2>2. a.type = "MONITOR_ONLY" /\ a.service = 0 /\ a.priority = 4 /\ a.target = t /\ a.risk = risk
    BY <2>1, MonitorFields
  <2> QED  BY <2>2, InputType DEF AllMapped, ActionType, Low, High
<1> QED  BY <1>1, <1>2, ActionKinds

LEMMA SixNumbers ==
  \A u, v, w, x, y, z \in Int : <<u, v, w, x, y, z>> \in [1..6 -> Int]
OBVIOUS

LEMMA KeyFields ==
  ASSUME AllMapped, proposed = Proposed, NEW a \in AllActions
  PROVE  /\ SortKey(a) \in [1..6 -> Int]
         /\ SortKey(a)[2] = Critical - a.risk
         /\ a.service # 0 => SortKey(a)[3] \in 1..Len(services)
         /\ a.service = 0 => SortKey(a)[3] = Len(services) + 1
         /\ TypeOrder[SortKey(a)[4]] = a.type
         /\ SortKey(a)[6] = a.target
<1> DEFINE place == CHOOSE n \in DOMAIN TypeOrder : TypeOrder[n] = a.type
           own == IF a.service = 0 THEN Len(services) + 1 ELSE IdPlace(a.service)
           risk == Critical - a.risk
           ip == targets[a.target].ip
<1>1. /\ a.priority \in Int /\ a.risk \in Int /\ a.service \in 0..Len(services) /\ a.type \in ActionType
      /\ a.target \in DOMAIN targets /\ ip \in Int
  BY ActionIsTyped
<1>2. Len(services) \in Nat /\ DOMAIN targets = 1..Len(targets)  BY InputType DEF AllMapped
<1>3. place \in 1..12 /\ TypeOrder[place] = a.type  BY <1>1, TypePlace
<1>0. a.service # 0 => IdPlace(a.service) \in 1..Len(services)
  <2> SUFFICES ASSUME a.service # 0 PROVE IdPlace(a.service) \in 1..Len(services)  OBVIOUS
  <2> DEFINE same == {i \in DOMAIN services : services[i].id = services[a.service].id}
  <2>1. DOMAIN services = 1..Len(services)  BY InputType DEF AllMapped
  <2>2. a.service \in same  BY <1>1, <1>2, <2>1
  <2>3. same \in SUBSET (1..Len(services)) /\ same \in SUBSET Nat  BY <1>2, <2>1
  <2>4. IdPlace(a.service) = Min(same)  BY DEF IdPlace
  <2> HIDE DEF same
  <2>5. Min(same) \in same  BY <2>2, <2>3, MinOfNats
  <2> QED  BY <2>3, <2>4, <2>5
<1>4. own \in Int /\ risk \in Int /\ a.target \in Int  BY <1>0, <1>1, <1>2 DEF Critical
<1>5. SortKey(a) = <<a.priority, risk, own, place, ip, a.target>>  BY Zenon DEF SortKey
<1> HIDE DEF place, own, risk, ip
<1>6. place \in Int  BY <1>3
<1>7. <<a.priority, risk, own, place, ip, a.target>> \in [1..6 -> Int]
  <2>1. a.priority \in Int /\ risk \in Int /\ own \in Int /\ place \in Int /\ ip \in Int /\ a.target \in Int
    BY <1>1, <1>4, <1>6
  <2> QED  BY ONLY <2>1, SixNumbers
<1>8. SortKey(a)[2] = risk /\ SortKey(a)[3] = own /\ SortKey(a)[4] = place /\ SortKey(a)[6] = a.target  BY <1>5
<1> QED  BY <1>0, <1>3, <1>5, <1>7, <1>8 DEF risk, own

LEMMA KeyTellsActions ==
  ASSUME AllMapped, proposed = Proposed, NEW a \in AllActions, NEW b \in AllActions, SortKey(a) = SortKey(b)
  PROVE  a = b
<1>1. a.type = b.type /\ a.target = b.target /\ Critical - a.risk = Critical - b.risk
  BY KeyFields
<1>2. a.risk = b.risk
  <2>1. a.risk \in Int /\ b.risk \in Int  BY ActionIsTyped
  <2> QED  BY <1>1, <2>1 DEF Critical
<1>3. a.service = 0 <=> b.service = 0
  <2>1. Len(services) \in Nat  BY InputType DEF AllMapped
  <2>2. ~(Len(services) + 1 \in 1..Len(services))  BY <2>1
  <2> QED  BY <2>2, KeyFields
<1>4. ASSUME NEW c \in AllActions, IsProposal(c)
      PROVE  c = MakeAction(c.type, c.target) /\ c.service # 0
  <2>1. PICK t \in DOMAIN targets : \E type \in CallsFor(t) : c = MakeAction(type, t)  BY <1>4 DEF IsProposal
  <2>2. PICK type \in CallsFor(t) : c = MakeAction(type, t)  BY <2>1
  <2>3. matches[t] # <<>> /\ c.type = type /\ c.target = t /\ c.service = matches[t][1]  BY <2>2, ProposalFields
  <2>4. matches[t][1] \in 1..Len(services) /\ Len(services) \in Nat  BY <2>3, MatchedOne, InputType DEF AllMapped
  <2> QED  BY <2>2, <2>3, <2>4
<1>5. ASSUME NEW c \in AllActions, IsMonitor(c)
      PROVE  c.service = 0 /\ c = MakeMonitorOnly(c.target, c.risk = High, c.risk)
  <2>1. CASE c = MakeMonitorOnly(1, TRUE, High)
    <3>1. c.service = 0 /\ c.target = 1 /\ c.risk = High  BY <2>1 DEF MakeMonitorOnly
    <3>2. (c.risk = High) = TRUE  BY <3>1
    <3> QED  BY <2>1, <3>1, <3>2, Zenon
  <2>2. CASE c # MakeMonitorOnly(1, TRUE, High)
    <3>1. PICK t \in DOMAIN targets : c = MakeMonitorOnly(t, FALSE, Low)  BY <1>5, <2>2 DEF IsMonitor
    <3>2. c.service = 0 /\ c.target = t /\ c.risk = Low  BY <3>1 DEF MakeMonitorOnly
    <3>3. (c.risk = High) = FALSE  BY <3>2 DEF Low, High
    <3> QED  BY <3>1, <3>2, <3>3, Zenon
  <2> QED  BY <2>1, <2>2
<1>6. CASE IsProposal(a) /\ IsProposal(b)
  <2>1. a = MakeAction(a.type, a.target) /\ b = MakeAction(b.type, b.target)  BY <1>4, <1>6
  <2> QED  BY <1>1, <2>1, Zenon
<1>7. CASE IsMonitor(a) /\ IsMonitor(b)
  <2>1. a = MakeMonitorOnly(a.target, a.risk = High, a.risk) /\ b = MakeMonitorOnly(b.target, b.risk = High, b.risk)
    BY <1>5, <1>7
  <2> QED  BY <1>1, <1>2, <2>1, Zenon
<1>8. (IsProposal(a) \/ IsMonitor(a)) /\ (IsProposal(b) \/ IsMonitor(b))  BY ActionKinds
<1>9. (IsProposal(a) <=> a.service # 0) /\ (IsProposal(b) <=> b.service # 0)  BY <1>4, <1>5, <1>8
<1> QED  BY <1>3, <1>6, <1>7, <1>8, <1>9

(* The plan before it is cut: all actions, in order.                         *)
LEMMA AllActionsFinite ==
  ASSUME AllMapped, proposed = Proposed
  PROVE  IsFiniteSet(AllActions)
<1>1. IsFiniteSet(DOMAIN targets)  BY InputType, IntervalIsFinite DEF AllMapped
<1>2. IsFiniteSet(ActionType)
  <2>1. ActionType = {TypeOrder[n] : n \in 1..12}
    <3>1. \A type \in ActionType : \E n \in 1..12 : TypeOrder[n] = type
      <4> SUFFICES ASSUME NEW type \in ActionType PROVE \E n \in 1..12 : TypeOrder[n] = type  OBVIOUS
      <4> QED  BY TypePlace
    <3>2. \A n \in 1..12 : TypeOrder[n] \in ActionType  BY DEF TypeOrder, ActionType
    <3> QED  BY <3>1, <3>2
  <2>2. IsFiniteSet({TypeOrder[n] : n \in 1..12})  BY ImageIsFinite, IntervalIsFinite
  <2> QED  BY <2>1, <2>2
<1>3. ASSUME NEW t \in DOMAIN targets PROVE IsFiniteSet(Proposals(t).made)
  <2> DEFINE types == {c \in CallsFor(t) : Refused(t, c) = {}}
             f == [type \in types |-> MakeAction(type, t)]
  <2>1. types \in SUBSET ActionType  BY CallTypes DEF CallsFor
  <2>2. IsFiniteSet(types)
    <3> HIDE DEF types
    <3> QED  BY <1>2, <2>1, FS_Subset
  <2>3. Proposals(t).made = {f[type] : type \in types}  BY ProposalsMade
  <2> HIDE DEF types, f
  <2> QED  BY <2>2, <2>3, ImageIsFinite
<1>4. IsFiniteSet(proposed)
  <2> DEFINE made == [t \in DOMAIN targets |-> Proposals(t).made]
             all == {made[t] : t \in DOMAIN targets}
  <2>1. proposed = UNION all  BY DEF Proposed
  <2>2. \A T \in all : IsFiniteSet(T)  BY <1>3
  <2>3. IsFiniteSet(all)
    <3> HIDE DEF made
    <3> QED  BY <1>1, ImageIsFinite
  <2> HIDE DEF all
  <2> QED  BY <2>1, <2>2, <2>3, FS_UNION
<1>5. IsFiniteSet(UnmatchedMonitors)
  <2> DEFINE T == {u \in DOMAIN targets : matches[u] = <<>>}
             f == [t \in T |-> MakeMonitorOnly(t, FALSE, Low)]
  <2>1. IsFiniteSet(T)
    <3>1. T \in SUBSET DOMAIN targets  OBVIOUS
    <3> HIDE DEF T
    <3> QED  BY <3>1, <1>1, FS_Subset
  <2>2. UnmatchedMonitors = {f[t] : t \in T}  BY DEF UnmatchedMonitors
  <2> HIDE DEF T, f
  <2> QED  BY <2>1, <2>2, ImageIsFinite
<1>6. IsFiniteSet(SourceReview)
  <2>1. SourceReview = {} \/ SourceReview = {MakeMonitorOnly(1, TRUE, High)}  BY DEF SourceReview
  <2>2. IsFiniteSet({})  BY FS_EmptySet
  <2>3. IsFiniteSet({MakeMonitorOnly(1, TRUE, High)})
    <3> DEFINE only == MakeMonitorOnly(1, TRUE, High)
    <3> HIDE DEF only
    <3> QED  BY FS_Singleton
  <2> QED  BY <2>1, <2>2, <2>3
<1> QED  BY <1>4, <1>5, <1>6, FS_Union DEF AllActions

LEMMA SortedHasAll ==
  ASSUME AllMapped, proposed = Proposed
  PROVE  /\ Cardinality(AllActions) \in Nat
         /\ SortedActions(AllActions) \in [1..Cardinality(AllActions) -> AllActions]
         /\ \A a \in AllActions : \E r \in 1..Cardinality(AllActions) : SortedActions(AllActions)[r] = a
<1> DEFINE before == {p \in AllActions \X AllActions : LexLess(SortKey(p[1]), SortKey(p[2]))}
<1>1. \A a, b \in AllActions : <<a, b>> \in before <=> LexLess(SortKey(a), SortKey(b))  OBVIOUS
<1>2. \A a \in AllActions : SortKey(a) \in [1..6 -> Int]  BY KeyFields
<1>3. SortedActions(AllActions) = InOrder(AllActions, before)  BY DEF SortedActions
<1> HIDE DEF before
<1>4. ASSUME NEW a \in AllActions, NEW b \in AllActions, NEW c \in AllActions
      PROVE  /\ <<a, a>> \notin before
             /\ <<a, b>> \in before /\ <<b, c>> \in before => <<a, c>> \in before
             /\ a = b \/ <<a, b>> \in before \/ <<b, a>> \in before
  <2>1. 6 \in Nat /\ SortKey(a) \in [1..6 -> Int] /\ SortKey(b) \in [1..6 -> Int] /\ SortKey(c) \in [1..6 -> Int]  BY <1>2
  <2>2. /\ ~LexLess(SortKey(a), SortKey(a))
        /\ LexLess(SortKey(a), SortKey(b)) /\ LexLess(SortKey(b), SortKey(c)) => LexLess(SortKey(a), SortKey(c))
        /\ SortKey(a) = SortKey(b) \/ LexLess(SortKey(a), SortKey(b)) \/ LexLess(SortKey(b), SortKey(a))
    BY <2>1, LexLessIsOrder
  <2>3. SortKey(a) = SortKey(b) => a = b  BY KeyTellsActions
  <2> QED  BY <1>1, <2>2, <2>3
<1>5. IsOrderOf(before, AllActions)  BY <1>4 DEF IsOrderOf
<1>6. IsFiniteSet(AllActions)  BY AllActionsFinite
<1> QED  BY <1>3, <1>5, <1>6, InOrderHasAll, FS_CardinalityType

LEMMA CappedType ==
  ASSUME input \in Inputs, NEW S, NEW n \in Nat, NEW list \in [1..n -> S]
  PROVE  /\ Capped(list) \in Seq(S)
         /\ n <= ActionLimit => Capped(list) = list
<1> DEFINE m == IF ActionLimit < 0 THEN n + ActionLimit ELSE Min({ActionLimit, n})
<1>1. ActionLimit \in Int  BY InputType
<1>2. list \in Seq(S) /\ Len(list) = n  BY SeqDef
<1>3. m \in Int /\ m <= n /\ (n <= ActionLimit => m = n)
  <2>1. CASE ActionLimit < 0  BY <1>1, <2>1
  <2>2. CASE ~(ActionLimit < 0)
    <3>1. {ActionLimit, n} \in SUBSET Nat /\ {ActionLimit, n} # {}  BY <1>1, <2>2
    <3>2. Min({ActionLimit, n}) \in {ActionLimit, n} /\ Min({ActionLimit, n}) <= n /\ Min({ActionLimit, n}) <= ActionLimit
      BY <3>1, MinOfNats
    <3>3. m = Min({ActionLimit, n})  BY <2>2
    <3> HIDE DEF m
    <3> QED  BY <1>1, <2>2, <3>1, <3>2, <3>3
  <2> QED  BY <2>1, <2>2
<1>4. Capped(list) = SubSeq(list, 1, m)  BY <1>2 DEF Capped
<1> HIDE DEF m
<1>5. SubSeq(list, 1, m) \in Seq(S)  BY <1>2, <1>3
<1>6. SubSeq(list, 1, n) = list  BY <1>2
<1> QED  BY <1>3, <1>4, <1>5, <1>6

(* What a rollback plan takes back, and when it is due.                      *)
LEMMA RollbackCovers ==
  ASSUME NEW list, Len(list) \in Nat, DOMAIN list = 1..Len(list),
         \A k \in DOMAIN list : list[k].type \notin NoChange => list[k].ttl \in Nat,
         NEW id \in DOMAIN list, list[id].type \notin NoChange
  PROVE  LET plan == MakeRollback(list)
         IN  /\ \E n \in DOMAIN plan.entries : plan.entries[n] = [action |-> id, due |-> list[id].ttl]
             /\ plan.deadline <= list[id].ttl
<1> DEFINE changing == {k \in DOMAIN list : list[k].type \notin NoChange}
           before == {p \in changing \X changing : p[1] > p[2]}
           order == InOrder(changing, before)
           dues == {list[k].ttl : k \in changing}
<1>1. id \in changing /\ changing \in SUBSET (1..Len(list))  OBVIOUS
<1>2. IsFiniteSet(changing)
  <2> HIDE DEF changing
  <2> QED  BY <1>1, IntervalIsFinite, FS_Subset
<1>3. IsOrderOf(before, changing)  BY DEF IsOrderOf
<1>4. /\ MakeRollback(list).entries = [n \in DOMAIN order |-> [action |-> order[n], due |-> list[order[n]].ttl]]
      /\ MakeRollback(list).deadline = IF changing = {} THEN 0 ELSE Min(dues)
  BY DEF MakeRollback
<1>5. dues \in SUBSET Nat /\ list[id].ttl \in dues  BY <1>1
<1> HIDE DEF changing, before, order, dues
<1>6. order \in [1..Cardinality(changing) -> changing] /\ \E n \in 1..Cardinality(changing) : order[n] = id
  BY <1>1, <1>2, <1>3, InOrderHasAll DEF order
<1>7. PICK n \in DOMAIN order : order[n] = id  BY <1>6
<1>8. n \in DOMAIN MakeRollback(list).entries
      /\ MakeRollback(list).entries[n] = [action |-> id, due |-> list[id].ttl]
  BY <1>4, <1>7
<1>9. Min(dues) <= list[id].ttl  BY <1>5, MinOfNats
<1> QED  BY <1>1, <1>4, <1>8, <1>9

LEMMA ChangesAreTimed ==
  ASSUME AllMapped, proposed = Proposed, NEW a \in AllActions, a.type \notin NoChange
  PROVE  IsProposal(a) /\ a.ttl \in Nat /\ a.ttl > 0
<1>1. ~IsMonitor(a)  BY DEF IsMonitor, NoChange, MakeMonitorOnly
<1>2. IsProposal(a)  BY <1>1, ActionKinds
<1>3. PICK t \in DOMAIN targets : \E type \in CallsFor(t) : Refused(t, type) = {} /\ a = MakeAction(type, t)
  BY <1>2 DEF IsProposal
<1>4. PICK type \in CallsFor(t) : Refused(t, type) = {} /\ a = MakeAction(type, t)  BY <1>3
<1>5. matches[t] # <<>> /\ a.ttl = TtlFor(type, Owner(t), input.limits)  BY <1>4, ProposalFields
<1>6. ServiceAssumption(Owner(t)) /\ LimitsAssumption(input.limits)
  BY <1>5, MatchedOne, InputType DEF AllMapped, Owner
<1>7. a.ttl \in Int  BY <1>5, <1>6, TtlType
<1>8. ~(TtlFor(type, Owner(t), input.limits) <= 0)  BY <1>4 DEF Refused, Refusal
<1> QED  BY <1>2, <1>5, <1>7, <1>8

-----------------------------------------------------------------------------
(* The inductive invariant: every list is what the code before it made of    *)
(* the input, and what was left out of it left a warning or a blocker.       *)
Matching == phase \in {"validate", "match"}

Planned == phase \in {"decide", "refused", "incident", "closed"}

MatchesAreChosen ==
  /\ input \in Inputs /\ matches \in Seq({<<>>} \cup Nat \X Nat)
  /\ phase = "validate" => matches = <<>>
  /\ IF Matching THEN Len(matches) < Len(targets) ELSE Len(matches) = Len(targets)
  /\ \A t \in 1..Len(matches) :
       /\ Mapped(t)
       /\ Found(t) = {} => "UNMAPPED_ATTACK_TARGET" \in warnings
       /\ Cardinality(Found(t)) > 1 => "TARGET_MATCHES_MULTIPLE_SERVICES" \in warnings

ProposalsAreMade ==
  Planned \/ phase = "assemble" =>
    proposed = Proposed /\ \A t \in DOMAIN targets : Proposals(t).blockers \subseteq blockers

PlanIsCut ==
  Planned =>
    /\ actions \in Seq(AllActions)
    /\ "ACTION_LIMIT_REACHED" \in warnings \/ \A a \in AllActions : \E k \in DOMAIN actions : actions[k] = a
    /\ rollback = MakeRollback(actions)

IsDone(id) == ~NotRecorded(id) /\ ~LacksEvidence(id)

OutcomeIsOfPlan ==
  /\ Published => status = LintStatus(actions, warnings, blockers)
  /\ records \in Seq([id : Nat, did : {"applied", "skipped", "other"}, evidence : BOOLEAN])
  /\ verdict = "MATCHED_REVIEW_RECORDS" => phase = "closed" /\ \A id \in DOMAIN actions : IsDone(id)

Compiled == MatchesAreChosen /\ ProposalsAreMade /\ PlanIsCut /\ OutcomeIsOfPlan

(* What depends on the input, the matches and the proposals alone.           *)
LEMMA InputStays ==
  ASSUME UNCHANGED input
  PROVE  services' = services /\ targets' = targets /\ ActionLimit' = ActionLimit
BY DEF services, targets, ActionLimit

LEMMA FoundStays ==
  ASSUME UNCHANGED input, NEW t
  PROVE  Found(t)' = Found(t)
BY DEF Found, services, targets

LEMMA ProposalsStay ==
  ASSUME UNCHANGED <<input, matches>>, NEW t
  PROVE  Proposals(t)' = Proposals(t)
BY DEF Proposals, MakeAction, services, targets

LEMMA AllActionsStay ==
  ASSUME UNCHANGED <<input, matches, proposed>>
  PROVE  AllActions' = AllActions
BY DEF AllActions, UnmatchedMonitors, SourceReview, MakeMonitorOnly, targets

LEMMA ChosenIsPair ==
  ASSUME input \in Inputs, NEW t, Found(t) # {}
  PROVE  Chosen(services, Found(t)) \in Nat \X Nat
<1> DEFINE m == Chosen(services, Found(t))
<1>1. IsList(services) /\ \A i \in DOMAIN services : ServiceAssumption(services[i])  BY InputType
<1>2. m \in Found(t)  BY <1>1, ChosenIsFirst DEF Found
<1> HIDE DEF m
<1>3. m = <<m[1], m[2]>>  BY <1>2, FoundArePairs DEF Found
<1>4. m[1] \in DOMAIN services /\ m[2] \in DOMAIN services[m[1]].endpoints  BY <1>2, <1>3, FoundType DEF Found
<1>5. m[1] \in Nat /\ m[2] \in Nat
  <2>1. IsList(services[m[1]].endpoints)  BY <1>4, InputType
  <2> QED  BY <1>1, <1>4, <2>1, ListType
<1> QED  BY <1>3, <1>5 DEF m

(* A match that is kept, with warnings that are, stays what it was.          *)
LEMMA MatchesKept ==
  ASSUME MatchesAreChosen, UNCHANGED <<input, matches>>, warnings \subseteq warnings',
         IF Matching' THEN Len(matches) < Len(targets) ELSE Len(matches) = Len(targets),
         phase' # "validate"
  PROVE  MatchesAreChosen'
<1>1. services' = services /\ targets' = targets  BY InputStays
<1>2. ASSUME NEW t \in 1..Len(matches')
      PROVE  /\ Mapped(t)'
             /\ Found(t)' = {} => "UNMAPPED_ATTACK_TARGET" \in warnings'
             /\ Cardinality(Found(t)') > 1 => "TARGET_MATCHES_MULTIPLE_SERVICES" \in warnings'
  <2>1. Found(t)' = Found(t)  BY FoundStays
  <2>2. /\ Mapped(t)
        /\ Found(t) = {} => "UNMAPPED_ATTACK_TARGET" \in warnings
        /\ Cardinality(Found(t)) > 1 => "TARGET_MATCHES_MULTIPLE_SERVICES" \in warnings
    BY <1>2 DEF MatchesAreChosen
  <2> QED  BY <1>1, <2>1, <2>2 DEF Mapped
<1>3. /\ input' \in Inputs /\ matches' \in Seq({<<>>} \cup Nat \X Nat)
      /\ IF Matching' THEN Len(matches') < Len(targets') ELSE Len(matches') = Len(targets')
  BY <1>1 DEF MatchesAreChosen
<1> QED  BY <1>2, <1>3 DEF MatchesAreChosen

LEMMA ProposalsKept ==
  ASSUME ProposalsAreMade, Planned \/ phase = "assemble",
         UNCHANGED <<input, matches, proposed>>, blockers \subseteq blockers'
  PROVE  ProposalsAreMade'
<1>1. targets' = targets  BY InputStays
<1>2. \A t : Proposals(t)' = Proposals(t)  BY ProposalsStay
<1>3. proposed = Proposed /\ \A t \in DOMAIN targets : Proposals(t).blockers \subseteq blockers  BY DEF ProposalsAreMade
<1>4. Proposed' = Proposed  BY <1>1, <1>2 DEF Proposed
<1>5. \A t \in DOMAIN targets' : Proposals(t)'.blockers \subseteq blockers'  BY <1>1, <1>2, <1>3
<1> QED  BY <1>3, <1>4, <1>5 DEF ProposalsAreMade

LEMMA PlanKept ==
  ASSUME PlanIsCut, Planned, UNCHANGED <<input, matches, proposed, actions, warnings, rollback>>
  PROVE  PlanIsCut'
<1>1. AllActions' = AllActions  BY AllActionsStay
<1> QED  BY <1>1 DEF PlanIsCut

LEMMA SettledMatches ==
  ASSUME MatchesAreChosen, ~Matching
  PROVE  AllMapped
BY InputType DEF MatchesAreChosen, AllMapped

(* All of it holds in every state of a compilation and of its incident.      *)
THEOREM CompiledHolds == Spec => []Compiled
<1>1. Init => Compiled
  <2> SUFFICES ASSUME Init PROVE Compiled  OBVIOUS
  <2>1. MatchesAreChosen
    <3>1. input \in Inputs /\ matches = <<>> /\ Len(matches) = 0 /\ phase = "validate"  BY DEF Init
    <3>2. Len(targets) \in Nat /\ 1 \in 1..Len(targets)  BY <3>1, InputType
    <3>3. matches \in Seq({<<>>} \cup Nat \X Nat)  BY <3>1
    <3> QED  BY <3>1, <3>2, <3>3 DEF MatchesAreChosen, Matching
  <2>2. ProposalsAreMade /\ PlanIsCut  BY DEF Init, ProposalsAreMade, PlanIsCut, Planned
  <2>3. OutcomeIsOfPlan  BY DEF Init, OutcomeIsOfPlan, Published
  <2> QED  BY <2>1, <2>2, <2>3 DEF Compiled
<1>2. Compiled /\ [Next]_vars => Compiled'
  <2> SUFFICES ASSUME Compiled, [Next]_vars PROVE Compiled'  OBVIOUS
  <2>0. MatchesAreChosen /\ ProposalsAreMade /\ PlanIsCut /\ OutcomeIsOfPlan  BY DEF Compiled
  <2>1. CASE Validate
    <3>1. phase = "validate" /\ phase' = "match" /\ matches = <<>>  BY <2>0, <2>1 DEF Validate, MatchesAreChosen
    <3>2. UNCHANGED <<input, matches, proposed, actions, rollback, status, records, verdict>>  BY <2>1 DEF Validate
    <3>3. MatchesAreChosen'
      <4>1. targets' = targets  BY <3>2, InputStays
      <4>2. \A t \in 1..Len(matches') : FALSE  BY <3>1, <3>2
      <4> QED  BY <2>0, <3>1, <3>2, <4>1, <4>2 DEF MatchesAreChosen, Matching
    <3>4. ProposalsAreMade' /\ PlanIsCut'  BY <3>1 DEF ProposalsAreMade, PlanIsCut, Planned
    <3>5. OutcomeIsOfPlan'  BY <2>0, <3>1, <3>2 DEF OutcomeIsOfPlan, Published
    <3> QED  BY <3>3, <3>4, <3>5 DEF Compiled
  <2>2. CASE MatchTarget
    <3> DEFINE n == Len(matches) + 1
               found == Found(n)
               match == IF found = {} THEN <<>> ELSE Chosen(services, found)
    <3>1. /\ phase = "match" /\ phase' = IF Len(matches') = Len(targets) THEN "propose" ELSE "match"
          /\ matches' = Append(matches, match)
          /\ warnings \subseteq warnings'
          /\ found = {} => "UNMAPPED_ATTACK_TARGET" \in warnings'
          /\ Cardinality(found) > 1 => "TARGET_MATCHES_MULTIPLE_SERVICES" \in warnings'
          /\ UNCHANGED <<input, proposed, actions, rollback, status, records, verdict>>
      BY <2>2 DEF MatchTarget, Found, Codes
    <3>2. services' = services /\ targets' = targets  BY <3>1, InputStays
    <3>3. /\ matches \in Seq({<<>>} \cup Nat \X Nat) /\ Len(matches) < Len(targets)
          /\ Len(matches) \in Nat /\ Len(targets) \in Nat
      <4>1. input \in Inputs /\ matches \in Seq({<<>>} \cup Nat \X Nat)  BY <2>0 DEF MatchesAreChosen
      <4>2. Len(matches) < Len(targets)  BY <2>0, <3>1 DEF MatchesAreChosen, Matching
      <4>3. Len(targets) \in Nat  BY <4>1, InputType
      <4> QED  BY <4>1, <4>2, <4>3
    <3>4. match \in {<<>>} \cup Nat \X Nat  BY <2>0, ChosenIsPair DEF MatchesAreChosen
    <3> HIDE DEF match
    <3>5. /\ matches' \in Seq({<<>>} \cup Nat \X Nat) /\ Len(matches') = n /\ matches'[n] = match
          /\ \A t \in 1..Len(matches) : matches'[t] = matches[t]
      BY <3>1, <3>3, <3>4
    <3>6. ASSUME NEW t \in 1..n
          PROVE  /\ Mapped(t)'
                 /\ Found(t)' = {} => "UNMAPPED_ATTACK_TARGET" \in warnings'
                 /\ Cardinality(Found(t)') > 1 => "TARGET_MATCHES_MULTIPLE_SERVICES" \in warnings'
      <4>1. Found(t)' = Found(t)  BY <3>1, FoundStays
      <4>2. CASE t = n  BY <3>1, <3>2, <3>5, <4>1, <4>2 DEF Mapped, match
      <4>3. CASE t \in 1..Len(matches)
        <5>1. /\ Mapped(t)
              /\ Found(t) = {} => "UNMAPPED_ATTACK_TARGET" \in warnings
              /\ Cardinality(Found(t)) > 1 => "TARGET_MATCHES_MULTIPLE_SERVICES" \in warnings
          BY <2>0, <4>3 DEF MatchesAreChosen
        <5> QED  BY <3>1, <3>2, <3>5, <4>1, <4>3, <5>1 DEF Mapped
      <4> QED  BY <3>3, <4>2, <4>3
    <3>7. IF Matching' THEN Len(matches') < Len(targets') ELSE Len(matches') = Len(targets')
      BY <3>1, <3>2, <3>3, <3>5 DEF Matching
    <3>8. MatchesAreChosen'
      <4>1. input' \in Inputs /\ phase' # "validate"  BY <2>0, <3>1 DEF MatchesAreChosen
      <4> QED  BY <3>5, <3>6, <3>7, <4>1 DEF MatchesAreChosen
    <3>9. phase' \in {"propose", "match"}  BY <3>1
    <3>10. ProposalsAreMade' /\ PlanIsCut'  BY <3>9 DEF ProposalsAreMade, PlanIsCut, Planned
    <3>11. OutcomeIsOfPlan'  BY <2>0, <3>1, <3>9 DEF OutcomeIsOfPlan, Published
    <3> QED  BY <3>8, <3>10, <3>11 DEF Compiled
  <2>3. CASE Propose
    <3>1. /\ phase = "propose" /\ phase' = "assemble" /\ proposed' = Proposed
          /\ warnings \subseteq warnings'
          /\ \A t \in DOMAIN targets : Proposals(t).blockers \subseteq blockers'
          /\ UNCHANGED <<input, matches, actions, rollback, status, records, verdict>>
      BY <2>3 DEF Propose, Proposed
    <3>2. MatchesAreChosen'
      <4>1. ~Matching /\ ~Matching' /\ phase' # "validate"  BY <3>1 DEF Matching
      <4>2. Len(matches) = Len(targets)  BY <2>0, <4>1 DEF MatchesAreChosen
      <4> QED  BY <2>0, <3>1, <4>1, <4>2, MatchesKept
    <3>3. ProposalsAreMade'
      <4>1. targets' = targets  BY <3>1, InputStays
      <4>2. \A t : Proposals(t)' = Proposals(t)  BY <3>1, ProposalsStay
      <4>3. Proposed' = Proposed  BY <4>1, <4>2 DEF Proposed
      <4>4. \A t \in DOMAIN targets' : Proposals(t)'.blockers \subseteq blockers'  BY <3>1, <4>1, <4>2
      <4> QED  BY <3>1, <4>3, <4>4 DEF ProposalsAreMade
    <3>4. PlanIsCut'  BY <3>1 DEF PlanIsCut, Planned
    <3>5. OutcomeIsOfPlan'  BY <2>0, <3>1 DEF OutcomeIsOfPlan, Published
    <3> QED  BY <3>2, <3>3, <3>4, <3>5 DEF Compiled
  <2>4. CASE Assemble
    <3>1. /\ phase = "assemble" /\ phase' = "decide" /\ actions' = Capped(SortedActions(AllActions))
          /\ warnings \subseteq warnings' /\ blockers \subseteq blockers'
          /\ Cardinality(AllActions) > ActionLimit => "ACTION_LIMIT_REACHED" \in warnings'
          /\ rollback' = MakeRollback(actions')
          /\ UNCHANGED <<input, matches, proposed, status, records, verdict>>
      BY <2>4 DEF Assemble, Codes
    <3>2. MatchesAreChosen'
      <4>1. ~Matching /\ ~Matching' /\ phase' # "validate"  BY <3>1 DEF Matching
      <4>2. Len(matches) = Len(targets)  BY <2>0, <4>1 DEF MatchesAreChosen
      <4> QED  BY <2>0, <3>1, <4>1, <4>2, MatchesKept
    <3>3. ProposalsAreMade'  BY <2>0, <3>1, ProposalsKept
    <3>4. PlanIsCut'
      <4> DEFINE size == Cardinality(AllActions)
      <4>1. AllMapped /\ proposed = Proposed /\ input \in Inputs
        BY <2>0, <3>1, SettledMatches DEF ProposalsAreMade, Matching, MatchesAreChosen
      <4>2. /\ size \in Nat
            /\ SortedActions(AllActions) \in [1..size -> AllActions]
            /\ \A a \in AllActions : \E r \in 1..size : SortedActions(AllActions)[r] = a
        BY <4>1, SortedHasAll
      <4>3. actions' \in Seq(AllActions) /\ (size <= ActionLimit => actions' = SortedActions(AllActions))
        BY <3>1, <4>1, <4>2, CappedType
      <4>4. AllActions' = AllActions  BY <3>1, AllActionsStay
      <4>5. ActionLimit \in Int  BY <4>1, InputType
      <4>6. CASE size > ActionLimit  BY <3>1, <4>3, <4>4, <4>6 DEF PlanIsCut
      <4>7. CASE size <= ActionLimit
        <5>1. actions' = SortedActions(AllActions) /\ DOMAIN actions' = 1..size  BY <4>2, <4>3, <4>7
        <5>2. \A a \in AllActions : \E k \in DOMAIN actions' : actions'[k] = a  BY <4>2, <5>1
        <5> QED  BY <3>1, <4>3, <4>4, <5>2 DEF PlanIsCut
      <4> QED  BY <4>2, <4>5, <4>6, <4>7
    <3>5. OutcomeIsOfPlan'  BY <2>0, <3>1 DEF OutcomeIsOfPlan, Published
    <3> QED  BY <3>2, <3>3, <3>4, <3>5 DEF Compiled
  <2>5. CASE Refuse \/ Publish \/ RecordChange \/ CloseIncident
    <3>1. /\ Planned /\ Planned' /\ UNCHANGED <<input, matches, proposed, actions, warnings, blockers, rollback>>
      BY <2>5 DEF Refuse, Publish, RecordChange, CloseIncident, Planned
    <3>2. MatchesAreChosen'
      <4>1. ~Matching /\ ~Matching' /\ phase' # "validate"  BY <3>1 DEF Matching, Planned
      <4>2. Len(matches) = Len(targets)  BY <2>0, <4>1 DEF MatchesAreChosen
      <4> QED  BY <2>0, <3>1, <4>1, <4>2, MatchesKept
    <3>3. ProposalsAreMade'  BY <2>0, <3>1, ProposalsKept
    <3>4. PlanIsCut'  BY <2>0, <3>1, PlanKept
    <3>5. OutcomeIsOfPlan'
      <4>1. CASE Refuse  BY <2>0, <4>1 DEF Refuse, OutcomeIsOfPlan, Published
      <4>2. CASE Publish  BY <2>0, <4>2 DEF Publish, OutcomeIsOfPlan, Published
      <4>3. CASE RecordChange
        <5>1. PICK id \in 0..(Len(actions) + 1), did \in {"applied", "skipped", "other"}, evidence \in BOOLEAN :
                records' = Append(records, [id |-> id, did |-> did, evidence |-> evidence])
          BY <4>3 DEF RecordChange
        <5>2. /\ phase = "incident" /\ phase' = "incident"
              /\ UNCHANGED <<status, actions, warnings, blockers, verdict>>
          BY <4>3 DEF RecordChange
        <5> DEFINE entry == [id |-> id, did |-> did, evidence |-> evidence]
        <5>3. entry \in [id : Nat, did : {"applied", "skipped", "other"}, evidence : BOOLEAN]
          BY <2>0, <3>1 DEF PlanIsCut
        <5> HIDE DEF entry
        <5>4. records' \in Seq([id : Nat, did : {"applied", "skipped", "other"}, evidence : BOOLEAN])
          BY <2>0, <5>1, <5>3 DEF OutcomeIsOfPlan, entry
        <5>5. verdict # "MATCHED_REVIEW_RECORDS"  BY <2>0, <5>2 DEF OutcomeIsOfPlan
        <5>6. status' = LintStatus(actions', warnings', blockers')  BY <2>0, <5>2 DEF OutcomeIsOfPlan, Published
        <5> QED  BY <5>2, <5>4, <5>5, <5>6 DEF OutcomeIsOfPlan
      <4>4. CASE CloseIncident
        <5>1. /\ phase = "incident" /\ phase' = "closed"
              /\ UNCHANGED <<actions, warnings, blockers, status, records>>
              /\ verdict' = "MATCHED_REVIEW_RECORDS" => \A id \in DOMAIN actions : IsDone(id)
          BY <4>4 DEF CloseIncident, IsDone
        <5>2. \A id \in DOMAIN actions : IsDone(id)' <=> IsDone(id)
          BY <5>1 DEF IsDone, NotRecorded, LacksEvidence, LastEntry, Entered
        <5>3. /\ status' = LintStatus(actions', warnings', blockers')
              /\ records' \in Seq([id : Nat, did : {"applied", "skipped", "other"}, evidence : BOOLEAN])
          BY <2>0, <5>1 DEF OutcomeIsOfPlan, Published
        <5> QED  BY <5>1, <5>2, <5>3 DEF OutcomeIsOfPlan
      <4> QED  BY <2>5, <4>1, <4>2, <4>3, <4>4
    <3> QED  BY <3>2, <3>3, <3>4, <3>5 DEF Compiled
  <2>6. CASE UNCHANGED vars
    <3>1. UNCHANGED <<input, phase, matches, proposed, actions, warnings, blockers, rollback, status, records, verdict>>
      BY <2>6 DEF vars
    <3>2. MatchesAreChosen'
      <4>1. services' = services /\ targets' = targets /\ \A t : Found(t)' = Found(t)  BY <3>1, InputStays, FoundStays
      <4>2. \A t : Mapped(t)' <=> Mapped(t)  BY <3>1, <4>1 DEF Mapped
      <4> QED  BY <2>0, <3>1, <4>1, <4>2 DEF MatchesAreChosen, Matching
    <3>3. ProposalsAreMade'
      <4>1. CASE Planned \/ phase = "assemble"  BY <2>0, <3>1, <4>1, ProposalsKept
      <4>2. CASE ~(Planned \/ phase = "assemble")  BY <3>1, <4>2 DEF ProposalsAreMade, Planned
      <4> QED  BY <4>1, <4>2
    <3>4. PlanIsCut'
      <4>1. CASE Planned  BY <2>0, <3>1, <4>1, PlanKept
      <4>2. CASE ~Planned  BY <3>1, <4>2 DEF PlanIsCut, Planned
      <4> QED  BY <4>1, <4>2
    <3>5. OutcomeIsOfPlan'
      BY <2>0, <3>1 DEF OutcomeIsOfPlan, Published, IsDone, NotRecorded, LacksEvidence, LastEntry, Entered
    <3> QED  BY <3>2, <3>3, <3>4, <3>5 DEF Compiled
  <2> QED  BY <2>1, <2>2, <2>3, <2>4, <2>5, <2>6 DEF Next
<1> QED  BY <1>1, <1>2, PTL DEF Spec

-----------------------------------------------------------------------------
LEMMA PublishedIsPlanned ==
  ASSUME Compiled, Published
  PROVE  /\ AllMapped /\ proposed = Proposed
         /\ actions \in Seq(AllActions) /\ Len(actions) \in Nat /\ DOMAIN actions = 1..Len(actions)
         /\ \A k \in DOMAIN actions : actions[k] \in AllActions
<1>1. Planned /\ ~Matching  BY DEF Published, Planned, Matching
<1>2. actions \in Seq(AllActions)  BY <1>1 DEF Compiled, PlanIsCut
<1>3. AllMapped /\ proposed = Proposed  BY <1>1, SettledMatches DEF Compiled, ProposalsAreMade
<1> QED  BY <1>2, <1>3

(* A null route that a published plan has was asked for, waits for approval, *)
(* ends by its limit, and takes no second service off the network.           *)
LEMMA NullRouteOffered ==
  ASSUME NEW service, service.priority \in 0..4, NEW context, NEW options,
         "TEMPORARY_NULL_ROUTE" \in CandidateTypes(service, context, options)
  PROVE  options.nullRoute /\ service.priority \in {3, 4}
<1>1. "TEMPORARY_NULL_ROUTE" \in Offered(service, context, options)  BY DEF CandidateTypes
<1>2. service.priority # 0 /\ service.priority # 1 /\ service.priority # 2  BY <1>1 DEF Offered
<1>3. options.nullRoute  BY <1>1, <1>2 DEF Offered
<1> QED  BY <1>2, <1>3

THEOREM NullRouteHolds == Spec => []NullRouteHitsOneService
<1>1. Compiled => NullRouteHitsOneService
  <2> SUFFICES ASSUME Compiled, Published, NEW k \in DOMAIN actions, actions[k].type = "TEMPORARY_NULL_ROUTE"
               PROVE  /\ input.options.nullRoute /\ actions[k].approval
                      /\ actions[k].ttl \in 1..input.limits.nullRoute
                      /\ services[actions[k].service].priority \in {3, 4}
                      /\ \A i \in DOMAIN services : \A j \in DOMAIN services[i].endpoints :
                           targets[actions[k].target].ip \in services[i].endpoints[j].ips
                             => services[i].id = services[actions[k].service].id
    BY DEF NullRouteHitsOneService
  <2> DEFINE a == actions[k]
             type == "TEMPORARY_NULL_ROUTE"
  <2>1. AllMapped /\ proposed = Proposed /\ a \in AllActions /\ a.type = type  BY PublishedIsPlanned
  <2> HIDE DEF a
  <2>2. IsProposal(a) /\ a.ttl \in Nat /\ a.ttl > 0
    <3>1. a.type \notin NoChange  BY <2>1 DEF NoChange
    <3> QED  BY <2>1, <3>1, ChangesAreTimed
  <2>3. PICK t \in DOMAIN targets : \E x \in CallsFor(t) : Refused(t, x) = {} /\ a = MakeAction(x, t)
    BY <2>2 DEF IsProposal
  <2>4. PICK x \in CallsFor(t) : Refused(t, x) = {} /\ a = MakeAction(x, t)  BY <2>3
  <2>5. /\ matches[t] # <<>> /\ x = type /\ a.service = matches[t][1] /\ a.target = t
        /\ a.ttl = TtlFor(type, Owner(t), input.limits) /\ a.approval = ApprovalRequired(type, Owner(t))
    BY <2>1, <2>4, ProposalFields
  <2>6. /\ a.service \in DOMAIN services /\ Owner(t) = services[a.service] /\ matches[t][2] \in DOMAIN Owner(t).endpoints
        /\ EndpointMatches(targets[t], Access(t))
    BY <2>1, <2>5, MatchedOne DEF Owner
  <2>7. ServiceAssumption(Owner(t)) /\ LimitsAssumption(input.limits)
    BY <2>1, <2>6, InputType DEF AllMapped
  <2>8. a.ttl \in 1..input.limits.nullRoute
    <3>1. input.limits.nullRoute \in Int  BY <2>7 DEF LimitsAssumption
    <3>2. a.ttl <= input.limits.nullRoute  BY <2>5, <2>7, TtlType
    <3> QED  BY <2>2, <3>1, <3>2
  <2>9. a.approval  BY <2>5 DEF ApprovalRequired
  <2>10. input.options.nullRoute /\ services[a.service].priority \in {3, 4}
    <3>1. type \in CandidateTypes(Owner(t), input.event.context, input.options)  BY <2>4, <2>5 DEF CallsFor
    <3>2. Owner(t).priority \in 0..4  BY <2>7 DEF ServiceAssumption
    <3> QED  BY <2>6, <3>1, <3>2, NullRouteOffered
  <2>11. ASSUME NEW i \in DOMAIN services, NEW j \in DOMAIN services[i].endpoints,
                targets[t].ip \in services[i].endpoints[j].ips
         PROVE  services[i].id = services[a.service].id
    <3> DEFINE sharing == SharingDestination(services, targets[t])
    <3>1. services[i].id \in sharing  BY <2>11 DEF SharingDestination
    <3>2. services[a.service].id \in sharing  BY <2>6 DEF SharingDestination, EndpointMatches, Access
    <3>3. ~(Cardinality(sharing) > 1)  BY <2>4, <2>5 DEF Refused, Refusal
    <3>4. IsFiniteSet(sharing)
      <4>1. IsFiniteSet(DOMAIN services)  BY <2>1, InputType, IntervalIsFinite DEF AllMapped
      <4> DEFINE at == {n \in DOMAIN services : \E m \in DOMAIN services[n].endpoints :
                          targets[t].ip \in services[n].endpoints[m].ips}
                 ids == [n \in DOMAIN services |-> services[n].id]
      <4>2. at \in SUBSET DOMAIN services  OBVIOUS
      <4>3. sharing = {ids[n] : n \in at}  BY DEF SharingDestination
      <4> HIDE DEF sharing, at, ids
      <4>4. IsFiniteSet(at)  BY <4>1, <4>2, FS_Subset
      <4> QED  BY <4>3, <4>4, ImageIsFinite
    <3> HIDE DEF sharing
    <3>5. Cardinality(sharing) \in Nat /\ Cardinality(sharing) # 0
      BY <3>1, <3>4, FS_CardinalityType, FS_EmptySet
    <3>6. Cardinality(sharing) = 1  BY <3>3, <3>5
    <3>7. \E x1 : sharing = {x1}  BY <3>4, <3>6, FS_Singleton
    <3> QED  BY <3>1, <3>2, <3>7
  <2> QED  BY <2>5, <2>8, <2>9, <2>10, <2>11 DEF a
<1> QED  BY <1>1, CompiledHolds, PTL

(* What a published plan would degrade is no more critical than what it is   *)
(* meant for, but by the one way that the property leaves open.              *)
THEOREM DegradeHolds == Spec => []DegradeSparesCritical
<1>1. Compiled => DegradeSparesCritical
  <2> SUFFICES ASSUME Compiled, Published, NEW k \in DOMAIN actions, QueueFor(actions[k]) = "degrade_candidate",
                      NEW i \in DOMAIN services, NEW j \in DOMAIN services[i].endpoints,
                      EndpointMatches([ip |-> targets[actions[k].target].ip, protocol |-> actions[k].protocol,
                                       ports |-> actions[k].ports, portsKnown |-> TRUE], services[i].endpoints[j])
               PROVE  \/ services[i].priority >= actions[k].priority
                      \/ /\ actions[k].protocol = "any"
                         /\ ~ProtocolsMatch(targets[actions[k].target].protocol, services[i].endpoints[j].protocol)
    BY Zenon DEF DegradeSparesCritical
  <2> DEFINE a == actions[k]
             target == targets[a.target]
             endpoint == services[i].endpoints[j]
  <2>1. AllMapped /\ proposed = Proposed /\ a \in AllActions  BY PublishedIsPlanned
  <2>2. /\ target.ip \in endpoint.ips /\ ProtocolsMatch(a.protocol, endpoint.protocol)
        /\ a.ports \cap endpoint.ports # {}
    BY DEF EndpointMatches, PortsOverlap
  <2>3. a.type \notin NoChange  BY DEF QueueFor, NoChange
  <2> HIDE DEF a
  <2>4. PICK t \in DOMAIN targets : \E x \in CallsFor(t) : Refused(t, x) = {} /\ a = MakeAction(x, t)
    BY <2>1, <2>3, ChangesAreTimed DEF IsProposal
  <2>5. PICK x \in CallsFor(t) : a = MakeAction(x, t)  BY <2>4
  <2>6. /\ matches[t] # <<>> /\ a.target = t /\ a.priority = Owner(t).priority /\ a.protocol = Access(t).protocol
        /\ a.ports = IF target.portsKnown /\ target.ports # {} THEN target.ports ELSE Access(t).ports
    BY <2>1, <2>5, ProposalFields
  <2>7. /\ matches[t][1] \in DOMAIN services /\ EndpointMatches(target, Access(t))
        /\ EndpointMatches(target, endpoint) => Owner(t).priority <= services[i].priority
    BY <2>1, <2>6, MatchedOne
  <2>8. a.priority \in Int /\ services[i].priority \in Int /\ a.priority = Owner(t).priority
    <3>1. \A n \in DOMAIN services : services[n].priority \in 0..4  BY <2>1, InputType DEF AllMapped, ServiceAssumption
    <3>2. Owner(t).priority \in 0..4  BY <2>7, <3>1 DEF Owner
    <3> QED  BY <2>6, <3>1, <3>2
  <2>9. CASE ProtocolsMatch(target.protocol, endpoint.protocol)
    <3>1. PortsOverlap(target, endpoint)
      <4> SUFFICES ASSUME target.portsKnown PROVE target.ports \cap endpoint.ports # {}  BY DEF PortsOverlap
      <4>1. target.ports \cap Access(t).ports # {}  BY <2>7, Zenon DEF EndpointMatches, PortsOverlap
      <4>2. target.ports # {}  BY <4>1
      <4>3. a.ports = target.ports  BY <2>6, <4>2, Zenon
      <4> QED  BY <2>2, <4>3
    <3>2. EndpointMatches(target, endpoint)  BY <2>2, <2>9, <3>1 DEF EndpointMatches
    <3> QED  BY <2>7, <2>8, <3>2 DEF a
  <2>10. CASE ~ProtocolsMatch(target.protocol, endpoint.protocol)
    <3>1. ProtocolsMatch(target.protocol, a.protocol)  BY <2>6, <2>7 DEF EndpointMatches
    <3>2. a.protocol = "any"  BY <2>2, <2>10, <3>1 DEF ProtocolsMatch
    <3> QED  BY <2>10, <3>2 DEF a
  <2> QED  BY <2>9, <2>10
<1> QED  BY <1>1, CompiledHolds, PTL

(* A published PASS leaves no target, no call for action and no approval     *)
(* open, and the brief made from the plan alone agrees with it.              *)
LEMMA PassLeavesNothing ==
  ASSUME Compiled, Published, status = "PASS"
  PROVE  /\ blockers = {} /\ warnings \subseteq Informational
         /\ \A k \in DOMAIN actions : ~NeedsOperator(actions[k])
BY Zenon DEF Compiled, OutcomeIsOfPlan, LintStatus

LEMMA PairIsSomething == \A pair \in Nat \X Nat : pair # <<>>
OBVIOUS

LEMMA FoundOne ==
  ASSUME Compiled, Published, status = "PASS", NEW t \in DOMAIN targets
  PROVE  Cardinality(Found(t)) = 1 /\ matches[t] # <<>>
<1>1. AllMapped  BY PublishedIsPlanned
<1>2. t \in 1..Len(matches)  BY <1>1, InputType DEF AllMapped
<1>3. warnings \subseteq Informational  BY PassLeavesNothing
<1>4. Found(t) # {} /\ ~(Cardinality(Found(t)) > 1)
  BY <1>2, <1>3 DEF Compiled, MatchesAreChosen, Informational
<1>5. IsFiniteSet(Found(t))  BY <1>1, InputType, FoundIsFinite DEF AllMapped, Found
<1>6. Cardinality(Found(t)) \in Nat /\ Cardinality(Found(t)) # 0  BY <1>4, <1>5, FS_CardinalityType, FS_EmptySet
<1>7. matches[t] # <<>>
  <2>1. matches[t] = Chosen(services, Found(t))  BY <1>1, <1>4 DEF AllMapped, Mapped
  <2>2. Chosen(services, Found(t)) \in Nat \X Nat  BY <1>1, <1>4, ChosenIsPair DEF AllMapped
  <2>3. matches[t] \in Nat \X Nat  BY <2>1, <2>2
  <2> QED  BY <2>3, PairIsSomething
<1> QED  BY <1>4, <1>6, <1>7

THEOREM PassHolds == Spec => []PassLeavesNothingOpen
<1>1. Compiled => PassLeavesNothingOpen
  <2> SUFFICES ASSUME Compiled, Published PROVE PassLeavesNothingOpen  BY DEF PassLeavesNothingOpen
  <2>1. status = LintStatus(actions, warnings, blockers)  BY DEF Compiled, OutcomeIsOfPlan
  <2>2. status = "FAIL" <=> BriefStatus(actions, warnings, blockers) = "FAIL"
    BY <2>1, Zenon DEF LintStatus, BriefStatus
  <2>3. status = "PASS" => BriefStatus(actions, warnings, blockers) = "PASS"
    BY <2>1, Zenon DEF LintStatus, BriefStatus
  <2>4. ASSUME status = "PASS"
        PROVE  /\ \A k \in DOMAIN actions : ~NeedsOperator(actions[k])
               /\ \A t \in DOMAIN targets : Cardinality(TargetMatches(services, targets[t])) = 1
               /\ \A t \in DOMAIN targets :
                    \A type \in CandidateTypes(services[matches[t][1]], input.event.context, input.options) :
                      \E k \in DOMAIN actions : actions[k].type = type /\ actions[k].target = t
    <3>1. blockers = {} /\ warnings \subseteq Informational /\ \A k \in DOMAIN actions : ~NeedsOperator(actions[k])
      BY <2>4, PassLeavesNothing
    <3>2. \A t \in DOMAIN targets : Cardinality(TargetMatches(services, targets[t])) = 1 /\ matches[t] # <<>>
      BY <2>4, FoundOne DEF Found
    <3>3. ASSUME NEW t \in DOMAIN targets,
                 NEW type \in CandidateTypes(services[matches[t][1]], input.event.context, input.options)
          PROVE  \E k \in DOMAIN actions : actions[k].type = type /\ actions[k].target = t
      <4>1. AllMapped /\ proposed = Proposed  BY PublishedIsPlanned
      <4>2. type \in CallsFor(t)  BY <3>2, <3>3 DEF CallsFor, Owner
      <4>3. Planned  BY DEF Published, Planned
      <4>4. Refused(t, type) = {}
        <5>1. Proposals(t).blockers \subseteq blockers  BY <4>3 DEF Compiled, ProposalsAreMade
        <5> QED  BY <3>1, <4>2, <5>1, ProposalsMade
      <4> DEFINE a == MakeAction(type, t)
      <4>5. a \in AllActions
        <5>1. a \in Proposals(t).made  BY <4>2, <4>4, ProposalsMade
        <5> HIDE DEF a
        <5> QED  BY <4>1, <5>1 DEF Proposed, AllActions
      <4>6. \E k \in DOMAIN actions : actions[k] = a
        BY <3>1, <4>3, <4>5 DEF Compiled, PlanIsCut, Informational
      <4>7. a.type = type /\ a.target = t  BY <4>1, <4>2, ProposalFields
      <4> QED  BY <4>6, <4>7
    <3> QED  BY <3>1, <3>2, <3>3
  <2> QED  BY <2>2, <2>3, <2>4 DEF PassLeavesNothingOpen
<1> QED  BY <1>1, CompiledHolds, PTL

(* When the diff finds plan and entries to match, every change is taken back *)
(* or was not made, and the rollback plan has it, in time.                   *)
THEOREM MatchedHolds == Spec => []MatchedMeansTakenBack
<1>1. Compiled => MatchedMeansTakenBack
  <2> SUFFICES ASSUME Compiled, verdict = "MATCHED_REVIEW_RECORDS",
                      NEW id \in DOMAIN actions, actions[id].type \notin NoChange
               PROVE  /\ \E k \in DOMAIN records :
                           /\ records[k].id = id /\ \A l \in (k + 1)..Len(records) : records[l].id # id
                           /\ records[k].did = "skipped" \/ records[k].evidence
                      /\ \E n \in DOMAIN rollback.entries :
                           rollback.entries[n] = [action |-> id, due |-> actions[id].ttl]
                      /\ rollback.deadline <= actions[id].ttl
    BY DEF MatchedMeansTakenBack
  <2>1. phase = "closed" /\ IsDone(id)  BY DEF Compiled, OutcomeIsOfPlan
  <2>2. Published /\ Planned  BY <2>1 DEF Published, Planned
  <2>3. \E k \in DOMAIN records :
          /\ records[k].id = id /\ \A l \in (k + 1)..Len(records) : records[l].id # id
          /\ records[k].did = "skipped" \/ records[k].evidence
    <3>1. Len(records) \in Nat /\ DOMAIN records = 1..Len(records)  BY DEF Compiled, OutcomeIsOfPlan
    <3>2. Entered(id) # {} /\ Entered(id) \in SUBSET (1..Len(records)) /\ Entered(id) \in SUBSET (0..Len(records))
      BY <2>1, <3>1 DEF IsDone, NotRecorded, Entered
    <3> DEFINE k == Max(Entered(id))
    <3>3. k \in Entered(id) /\ \A m \in Entered(id) : m <= k  BY <3>1, <3>2, MaxUpTo
    <3> HIDE DEF k
    <3>4. \A l \in (k + 1)..Len(records) : records[l].id # id
      <4> SUFFICES ASSUME NEW l \in (k + 1)..Len(records), records[l].id = id PROVE FALSE  OBVIOUS
      <4>1. k \in 1..Len(records)  BY <3>2, <3>3
      <4>2. l \in Entered(id)  BY <3>1, <4>1 DEF Entered
      <4> QED  BY <3>3, <4>1, <4>2
    <3>5. records[k].did = "skipped" \/ records[k].evidence
      <4>1. LastEntry(id) = records[k]  BY DEF LastEntry, k
      <4>2. records[k].did \in {"applied", "skipped"}  BY <2>1, <4>1 DEF IsDone, NotRecorded
      <4>3. records[k].did = "applied" => records[k].evidence
        BY <2>1, <3>2, <4>1, Zenon DEF IsDone, LacksEvidence
      <4> QED  BY <4>2, <4>3
    <3>6. k \in DOMAIN records /\ records[k].id = id  BY <3>3 DEF Entered
    <3> QED  BY <3>4, <3>5, <3>6
  <2>4. \A k \in DOMAIN actions : actions[k].type \notin NoChange => actions[k].ttl \in Nat
    BY <2>2, PublishedIsPlanned, ChangesAreTimed
  <2>5. rollback = MakeRollback(actions)  BY <2>2 DEF Compiled, PlanIsCut
  <2> QED  BY <2>2, <2>3, <2>4, <2>5, PublishedIsPlanned, RollbackCovers
<1> QED  BY <1>1, CompiledHolds, PTL
=============================================================================
