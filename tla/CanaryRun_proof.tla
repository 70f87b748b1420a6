-------------------------- MODULE CanaryRun_proof --------------------------
(* What holds of a canary run for all users, documents, policies and         *)
(* endpoints.  How the pack was made counts for some of it.                  *)
EXTENDS CanaryRun, SequenceTheorems, NaturalsInduction, WellFoundedInduction, TLAPS

-----------------------------------------------------------------------------
(* Induction over the naturals, for what a recursive function computes.      *)
LEMMA NatMin ==
  ASSUME NEW T \in SUBSET Nat, T # {}
  PROVE  \E n \in T : \A m \in T : n <= m
<1> DEFINE R == {ss \in Nat \X Nat : ss[1] < ss[2]}
<1>1. R = OpToRel(<, Nat)  BY Zenon DEF OpToRel
<1>2. IsWellFoundedOn(R, Nat)  BY <1>1, NatLessThanWellFounded
<1> HIDE DEF R
<1>3. PICK n \in T : \A m \in T : <<m, n>> \notin R  BY <1>2, WFMin
<1>4. \A m \in T : ~(m < n)  BY <1>3 DEF R
<1> QED  BY <1>4

LEMMA SetInduction ==
  ASSUME NEW S \in SUBSET Nat, 0 \in S, \A n \in S : n + 1 \in S
  PROVE  S = Nat
<1> SUFFICES ASSUME Nat \ S # {} PROVE FALSE
  OBVIOUS
<1>1. PICK n \in Nat \ S : \A m \in Nat \ S : n <= m  BY NatMin
<1>2. n - 1 \in Nat /\ n - 1 \in S  BY <1>1
<1> QED  BY <1>1, <1>2

LEMMA FunctionIsSeq ==
  ASSUME NEW S, NEW n \in Nat, NEW f \in [1..n -> S]
  PROVE  f \in Seq(S) /\ Len(f) = n
BY SeqDef

(* What FlattenSeq's recursion defines is there for every number of parts.   *)
LEMMA FlattenUnfold ==
  ASSUME NEW S, NEW seqs \in Seq(Seq(S)), Len(seqs) # 0
  PROVE  \E f : /\ f = [i \in 1..Len(seqs) |-> IF i = 1 THEN seqs[i] ELSE f[i-1] \o seqs[i]]
                /\ FlattenSeq(seqs) = f[Len(seqs)]
<1> DEFINE Good(n, f) == f = [i \in 1..n |-> IF i = 1 THEN seqs[i] ELSE f[i-1] \o seqs[i]]
           Lengths == {n \in Nat : \E f : Good(n, f)}
<1>1. 0 \in Lengths
  <2>1. Good(0, [i \in 1..0 |-> 0])  OBVIOUS
  <2> QED  BY <2>1
<1>2. ASSUME NEW n \in Lengths PROVE n + 1 \in Lengths
  <2>1. PICK f : Good(n, f)  OBVIOUS
  <2> DEFINE g == [i \in 1..(n+1) |-> IF i = 1 THEN seqs[i] ELSE f[i-1] \o seqs[i]]
  <2>2. ASSUME NEW i \in 1..n PROVE  g[i] = f[i]
    <3>1. f[i] = IF i = 1 THEN seqs[i] ELSE f[i-1] \o seqs[i]  BY <2>1, Zenon
    <3> QED  BY <3>1
  <2>3. Good(n+1, g)
    <3>1. ASSUME NEW i \in 1..(n+1) PROVE g[i] = IF i = 1 THEN seqs[i] ELSE g[i-1] \o seqs[i]
      <4>1. i # 1 => i - 1 \in 1..n  OBVIOUS
      <4>2. i # 1 => g[i-1] = f[i-1]  BY <4>1, <2>2
      <4> QED  BY <4>2
    <3> HIDE DEF g
    <3>2. g = [i \in 1..(n+1) |-> g[i]]  BY DEF g
    <3> QED  BY <3>1, <3>2
  <2> HIDE DEF g, Good
  <2> QED  BY <2>3
<1>3. Lengths = Nat
  <2> HIDE DEF Lengths
  <2>1. Lengths \in SUBSET Nat  BY DEF Lengths
  <2> QED  BY <2>1, <1>1, <1>2, SetInduction
<1>4. Len(seqs) \in Nat  OBVIOUS
<1>5. \E f : Good(Len(seqs), f)  BY <1>3, <1>4
<1> DEFINE F == CHOOSE f : Good(Len(seqs), f)
<1>6. Good(Len(seqs), F)  BY <1>5
<1>7. FlattenSeq(seqs) = F[Len(seqs)]  BY DEF FlattenSeq
<1> QED  BY <1>6, <1>7

(* Nothing comes into a flattened sequence that is in none of its parts.     *)
LEMMA FlattenType ==
  ASSUME NEW S, NEW seqs \in Seq(Seq(S))
  PROVE  FlattenSeq(seqs) \in Seq(S)
<1>1. CASE Len(seqs) = 0
  <2>1. seqs = <<>>  BY <1>1, EmptySeq
  <2> QED  BY <1>1, <2>1, EmptySeq DEF FlattenSeq
<1>2. CASE Len(seqs) # 0
  <2>1. PICK f : /\ f = [i \in 1..Len(seqs) |-> IF i = 1 THEN seqs[i] ELSE f[i-1] \o seqs[i]]
                 /\ FlattenSeq(seqs) = f[Len(seqs)]
    BY <1>2, FlattenUnfold
  <2>2. Len(seqs) \in Nat /\ \A i \in 1..Len(seqs) : seqs[i] \in Seq(S)  OBVIOUS
  <2>3. ASSUME NEW i \in 1..Len(seqs) PROVE f[i] = IF i = 1 THEN seqs[i] ELSE f[i-1] \o seqs[i]
    BY <2>1, Zenon
  <2> DEFINE T == {n \in Nat : n \in 1..Len(seqs) => f[n] \in Seq(S)}
  <2>4. ASSUME NEW n \in T PROVE n + 1 \in T
    <3> SUFFICES ASSUME n + 1 \in 1..Len(seqs) PROVE f[n + 1] \in Seq(S)
      OBVIOUS
    <3>1. f[n + 1] = IF n + 1 = 1 THEN seqs[n + 1] ELSE f[n + 1 - 1] \o seqs[n + 1]  BY <2>3
    <3>2. CASE n = 0  BY <3>1, <3>2, <2>2
    <3>3. CASE n # 0
      <4>1. n \in 1..Len(seqs) /\ n + 1 - 1 = n  BY <3>3, <2>2
      <4>2. f[n] \in Seq(S) /\ seqs[n + 1] \in Seq(S)  BY <4>1, <2>2
      <4>3. n + 1 # 1  BY <3>3
      <4>4. f[n + 1] = f[n] \o seqs[n + 1]  BY <3>1, <4>1, <4>3
      <4> QED  BY <4>2, <4>4, ConcatProperties
    <3> QED  BY <3>2, <3>3
  <2>5. 0 \in T  OBVIOUS
  <2>6. T = Nat
    <3> HIDE DEF T
    <3>1. T \in SUBSET Nat  BY DEF T
    <3> QED  BY <3>1, <2>4, <2>5, SetInduction
  <2>7. Len(seqs) \in 1..Len(seqs)  BY <1>2, <2>2
  <2> QED  BY <2>1, <2>2, <2>6, <2>7
<1> QED  BY <1>1, <1>2

-----------------------------------------------------------------------------
(* The pack is sound: a case expects what the policy says of its user and    *)
(* its document.                                                             *)
Sound(p) == {c \in Case : c.expected = ExpectedAccess(p, c.user, c.target)}

LEMMA CandidatesSound ==
  ASSUME NEW p, NEW user \in Users, NEW access \in {"ALLOWED", "FORBIDDEN"}
  PROVE  Candidates(p, user, access) \in Seq(Sound(p))
<1> DEFINE part(i) == IF ExpectedAccess(p, user, DocOrder[i]) = access /\ DocOrder[i] \in Seeded
                        THEN <<[user |-> user, target |-> DocOrder[i], expected |-> access]>> ELSE <<>>
           parts == [i \in DOMAIN DocOrder |-> part(i)]
<1>1. DocOrder \in Seq(Docs) /\ Len(DocOrder) \in Nat /\ DOMAIN DocOrder = 1..Len(DocOrder)
  BY FixtureAssumption, LenProperties
<1>2. ASSUME NEW i \in 1..Len(DocOrder) PROVE part(i) \in Seq(Sound(p))
  <2>1. DocOrder[i] \in Docs  BY <1>1, ElementOfSeq
  <2> DEFINE c == [user |-> user, target |-> DocOrder[i], expected |-> access]
  <2>2. ExpectedAccess(p, user, DocOrder[i]) = access => c \in Sound(p)  BY <2>1 DEF Sound, Case
  <2> HIDE DEF c
  <2>3. c \in Sound(p) => <<c>> \in Seq(Sound(p))  OBVIOUS
  <2>4. <<>> \in Seq(Sound(p))  BY EmptySeq
  <2> QED  BY <2>2, <2>3, <2>4 DEF c
<1>3. parts \in Seq(Seq(Sound(p)))
  <2> HIDE DEF part
  <2>1. parts \in [1..Len(DocOrder) -> Seq(Sound(p))]  BY <1>1, <1>2
  <2> QED  BY <1>1, <2>1, FunctionIsSeq
<1>4. FlattenSeq(parts) \in Seq(Sound(p))
  <2> HIDE DEF parts
  <2> QED  BY <1>3, FlattenType
<1> QED  BY <1>4 DEF Candidates

LEMMA UpToKeeps ==
  ASSUME NEW S, NEW s \in Seq(S), NEW limit \in Int
  PROVE  UpTo(limit, s) \in Seq(S)
<1> DEFINE n == IF limit < Len(s) THEN limit ELSE Len(s)
<1>1. Len(s) \in Nat  OBVIOUS
<1>2. n \in Int /\ n <= Len(s)  BY <1>1
<1> HIDE DEF n
<1>3. \A i \in 1..n : s[i] \in S  BY <1>1, <1>2, ElementOfSeq
<1>4. SubSeq(s, 1, n) \in Seq(S)  BY <1>2, <1>3, SubSeqProperties
<1> QED  BY <1>4 DEF UpTo, n

LEMMA TakeSound ==
  ASSUME NEW p, NEW access \in {"ALLOWED", "FORBIDDEN"}, NEW limit \in Int
  PROVE  BalancedTake(p, access, limit) \in Seq(Sound(p))
<1> DEFINE n == Len(UserOrder)
           m == n * Len(DocOrder)
           cases(t) == Candidates(p, UserOrder[((t - 1) % n) + 1], access)
           round(t) == ((t - 1) \div n) + 1
           turn(t) == IF round(t) \in DOMAIN cases(t) THEN <<cases(t)[round(t)]>> ELSE <<>>
           turns == [t \in 1..m |-> turn(t)]
<1>1. UserOrder \in Seq(Users) /\ n \in Nat /\ Len(DocOrder) \in Nat
  BY FixtureAssumption, LenProperties
<1>2. m \in Nat  BY <1>1
<1>3. ASSUME NEW t \in 1..m PROVE turn(t) \in Seq(Sound(p))
  <2>1. n # 0  BY <1>1
  <2>2. ((t - 1) % n) + 1 \in 1..n
    <3> HIDE DEF n, m
    <3> QED  BY <1>1, <1>2, <2>1
  <2>3. UserOrder[((t - 1) % n) + 1] \in Users  BY <1>1, <2>2, ElementOfSeq
  <2>4. cases(t) \in Seq(Sound(p))  BY <2>3, CandidatesSound
  <2> HIDE DEF cases, round
  <2>5. CASE round(t) \in DOMAIN cases(t)
    <3>1. cases(t)[round(t)] \in Sound(p)  BY <2>4, <2>5
    <3>2. <<cases(t)[round(t)]>> \in Seq(Sound(p))  BY <3>1
    <3> QED  BY <2>5, <3>2
  <2>6. CASE round(t) \notin DOMAIN cases(t)  BY <2>6, EmptySeq
  <2> QED  BY <2>5, <2>6
<1>4. turns \in Seq(Seq(Sound(p)))
  <2> HIDE DEF turn, m
  <2>1. turns \in [1..m -> Seq(Sound(p))]  BY <1>3
  <2> QED  BY <1>2, <2>1, FunctionIsSeq
<1>5. UpTo(limit, FlattenSeq(turns)) \in Seq(Sound(p))
  <2> HIDE DEF turns
  <2> QED  BY <1>4, FlattenType, UpToKeeps
<1> QED  BY <1>5 DEF BalancedTake

LEMMA InterleavedKeeps ==
  ASSUME NEW S, NEW s \in Seq(S), NEW t \in Seq(S)
  PROVE  Interleaved(s, t) \in Seq(S)
<1> DEFINE one(u, i) == IF i \in DOMAIN u THEN <<u[i]>> ELSE <<>>
           n == Len(s) + Len(t)
           pairs == [i \in 1..n |-> one(s, i) \o one(t, i)]
<1>1. n \in Nat  OBVIOUS
<1>2. ASSUME NEW u \in Seq(S), NEW i PROVE one(u, i) \in Seq(S)
  <2>1. CASE i \in DOMAIN u
    <3>1. u[i] \in S  BY <2>1
    <3> QED  BY <2>1, <3>1
  <2>2. CASE i \notin DOMAIN u  BY <2>2, EmptySeq
  <2> QED  BY <2>1, <2>2
<1>3. pairs \in Seq(Seq(S))
  <2> HIDE DEF one, n
  <2>1. \A i \in 1..n : one(s, i) \o one(t, i) \in Seq(S)  BY <1>2, ConcatProperties
  <2>2. pairs \in [1..n -> Seq(S)]  BY <2>1
  <2> QED  BY <1>1, <2>2, FunctionIsSeq
<1>4. FlattenSeq(pairs) \in Seq(S)
  <2> HIDE DEF pairs
  <2> QED  BY <1>3, FlattenType
<1> QED  BY <1>4 DEF Interleaved

LEMMA TotalIsInt == ASSUME NEW perUser \in Int PROVE TargetTotal(perUser) \in Int
<1> DEFINE wanted == (IF perUser < 1 THEN 1 ELSE perUser) * Len(UserOrder)
           both == {DefaultTotal, wanted}
<1>1. Len(UserOrder) \in Nat  BY FixtureAssumption, LenProperties
<1>2. wanted \in Int /\ DefaultTotal \in Int  BY <1>1, FixtureAssumption
<1> HIDE DEF wanted
<1>3. \E x \in both : \A y \in both : x <= y  BY <1>2
<1>4. Min(both) \in both  BY <1>3 DEF Min
<1>5. Min(both) \in Int  BY <1>2, <1>4
<1> QED  BY <1>5 DEF TargetTotal, wanted

LEMMA PackSound ==
  ASSUME NEW p, NEW perUser \in Int
  PROVE  Pack(p, perUser) \in Seq(Sound(p))
<1> DEFINE total == TargetTotal(perUser)
<1>1. total \in Int  BY TotalIsInt
<1> HIDE DEF total
<1>2. total \div 2 \in Int /\ total - total \div 2 \in Int  BY <1>1
<1>3. AllowedPart(p, perUser) \in Seq(Sound(p))
  BY <1>2, TakeSound DEF AllowedPart, total
<1>4. ForbiddenPart(p, perUser) \in Seq(Sound(p))
  BY <1>2, TakeSound DEF ForbiddenPart, total
<1> QED  BY <1>3, <1>4, InterleavedKeeps DEF Pack

-----------------------------------------------------------------------------
Faithful(r) ==
  \/ r.status = "SKIPPED" /\ r.response = NoResponse
  \/ /\ r.response \in Responses
     /\ r.status = StatusOf(policy, opts.strict, r.case, r.response)

Kept == {r \in [case : Sound(policy), status : {"PASS", "FAIL", "REVIEW", "SKIPPED"}, response : Responses \cup {NoResponse}] :
           Faithful(r)}

(* The pack is sound, what is kept for a case is its score, the results are  *)
(* those of the first cases, one each, and a run that ends has them all.     *)
IInv ==
  /\ policy \in Policies /\ opts \in Options
  /\ phase \in {"generate", "refused", "run", "done", "raised"}
  /\ pack \in Seq(Sound(policy)) /\ results \in Seq(Kept)
  /\ Len(results) <= Len(pack)
  /\ \A i \in 1..Len(results) : results[i].case = pack[i]
  /\ phase = "generate" => results = <<>>
  /\ phase = "done" => Len(results) = Len(pack)

LEMMA InitHolds == ASSUME Init PROVE IInv
<1>1. /\ policy \in Policies /\ opts \in Options
      /\ phase = "generate" /\ pack = <<>> /\ results = <<>>  BY DEF Init
<1>2. <<>> \in Seq(Sound(policy)) /\ <<>> \in Seq(Kept) /\ Len(<<>>) = 0  BY EmptySeq
<1> QED  BY <1>1, <1>2 DEF IInv

LEMMA RecordKeeps ==
  ASSUME IInv, Running, NEW status \in {"PASS", "FAIL", "REVIEW", "SKIPPED"}, NEW response \in Responses \cup {NoResponse},
         Record(status, response), Faithful([case |-> current, status |-> status, response |-> response])
  PROVE  IInv'
<1> DEFINE r == [case |-> current, status |-> status, response |-> response]
<1>1. results' = Append(results, r) /\ UNCHANGED <<policy, opts, phase, pack>>  BY DEF Record
<1>2. results \in Seq(Kept) /\ pack \in Seq(Sound(policy)) /\ Len(results) < Len(pack) /\ phase = "run"
  BY DEF IInv, Running
<1>3. Len(results) \in Nat /\ Len(pack) \in Nat  BY <1>2
<1>4. current \in Sound(policy) /\ current = pack[Len(results) + 1]  BY <1>2, <1>3 DEF current
<1>5. r \in Kept  BY <1>4 DEF Kept
<1>6. r.case = pack[Len(results) + 1]  BY <1>4
<1> HIDE DEF r
<1>7. /\ results' \in Seq(Kept) /\ Len(results') = Len(results) + 1
      /\ \A i \in 1..Len(results) : results'[i] = results[i]
      /\ results'[Len(results) + 1] = r
  BY <1>1, <1>2, <1>5, AppendProperties
<1>8. Sound(policy)' = Sound(policy)  BY <1>1 DEF Sound
<1>9. Kept' = Kept  BY <1>1 DEF Kept, Sound, Faithful
<1>10. \A i \in 1..Len(results') : results'[i].case = pack[i]  BY <1>3, <1>6, <1>7 DEF IInv
<1>11. Len(results') <= Len(pack)  BY <1>2, <1>3, <1>7
<1> QED  BY <1>1, <1>2, <1>7, <1>8, <1>9, <1>10, <1>11 DEF IInv

LEMMA NextKeeps == ASSUME IInv, [Next]_vars PROVE IInv'
<1>1. ASSUME UNCHANGED <<policy, opts, results>>, pack' \in Seq(Sound(policy)), pack' = pack \/ results = <<>>,
             phase' \in {"refused", "run", "done", "raised"}, phase' = "done" => Len(results) = Len(pack')
      PROVE  IInv'
  <2>1. Sound(policy)' = Sound(policy)  BY <1>1 DEF Sound
  <2>2. Kept' = Kept  BY <1>1 DEF Kept, Sound, Faithful
  <2>3. CASE pack' = pack  BY <1>1, <2>1, <2>2, <2>3 DEF IInv
  <2>4. CASE results = <<>>
    <3>1. Len(results) = 0 /\ Len(pack') \in Nat  BY <2>4, <1>1, EmptySeq
    <3> QED  BY <1>1, <2>1, <2>2, <3>1 DEF IInv
  <2> QED  BY <1>1, <2>3, <2>4
<1>2. CASE Generate
  <2>1. /\ phase = "generate" /\ phase' \in {"refused", "run"} /\ UNCHANGED <<policy, opts, results>>
        /\ pack' = pack \/ pack' = UpTo(opts.maxQueries, Pack(policy, opts.perUser))
    BY <1>2 DEF Generate
  <2>2. opts \in Options /\ opts.perUser \in Int /\ opts.maxQueries \in Int  BY OptionsAssumption DEF IInv
  <2>3. Pack(policy, opts.perUser) \in Seq(Sound(policy))  BY <2>2, PackSound
  <2>4. UpTo(opts.maxQueries, Pack(policy, opts.perUser)) \in Seq(Sound(policy))  BY <2>2, <2>3, UpToKeeps
  <2>5. results = <<>> /\ pack' \in Seq(Sound(policy))  BY <2>1, <2>4 DEF IInv
  <2> QED  BY <1>1, <2>1, <2>5
<1>3. CASE SkipCase
  <2>1. Running /\ Record("SKIPPED", NoResponse)  BY <1>3 DEF SkipCase
  <2>2. Faithful([case |-> current, status |-> "SKIPPED", response |-> NoResponse])  BY DEF Faithful
  <2> QED  BY <2>1, <2>2, RecordKeeps
<1>4. CASE TokenMissing
  <2>1. phase' = "raised" /\ UNCHANGED <<policy, opts, pack, results>>  BY <1>4 DEF TokenMissing
  <2>2. pack' \in Seq(Sound(policy))  BY <2>1 DEF IInv
  <2> QED  BY <1>1, <2>1, <2>2
<1>5. CASE SendCase
  <2>1. PICK response \in Responses : Record(StatusOf(policy, opts.strict, current, response), response)
    BY <1>5 DEF SendCase
  <2>2. Running  BY <1>5 DEF SendCase
  <2>3. Faithful([case |-> current, status |-> StatusOf(policy, opts.strict, current, response),
                  response |-> response])
    BY DEF Faithful
  <2>4. StatusOf(policy, opts.strict, current, response) \in {"PASS", "FAIL", "REVIEW", "SKIPPED"}
    BY DEF StatusOf, ScoreCase
  <2> QED  BY <2>1, <2>2, <2>3, <2>4, RecordKeeps
<1>6. CASE Finish
  <2>1. /\ phase' = "done" /\ UNCHANGED <<policy, opts, pack, results>> /\ Len(results) = Len(pack)
    BY <1>6 DEF Finish
  <2>2. pack' \in Seq(Sound(policy))  BY <2>1 DEF IInv
  <2> QED  BY <1>1, <2>1, <2>2
<1>7. CASE UNCHANGED vars
  <2>1. UNCHANGED <<policy, opts, results, pack, phase>>  BY <1>7 DEF vars
  <2>2. Sound(policy)' = Sound(policy)  BY <2>1 DEF Sound
  <2>3. Kept' = Kept  BY <2>1 DEF Kept, Sound, Faithful
  <2> QED  BY <2>1, <2>2, <2>3 DEF IInv
<1> QED  BY <1>2, <1>3, <1>4, <1>5, <1>6, <1>7 DEF Next

LEMMA AllKept == ASSUME IInv, NEW r \in All PROVE r \in Kept
BY DEF IInv, All

LEMMA Inductive == Spec => []IInv
<1>1. Init => IInv  BY InitHolds
<1>2. IInv /\ [Next]_vars => IInv'  BY NextKeeps
<1> QED  BY <1>1, <1>2, PTL DEF Spec

-----------------------------------------------------------------------------
(* Whatever the pack and the endpoint, a finished run in which a forbidden   *)
(* document showed in any response blocks the release and ends with code 2   *)
(* (leakage_detect.py: detect_leakage, scoring.py: _aggregate).              *)
THEOREM LeakIsBlocked == Spec => []LeakBlocksRelease
<1>1. IInv => LeakBlocksRelease
  <2> SUFFICES ASSUME IInv, phase = "done", NEW r \in All, r.response.kind = "json",
                      NEW d \in (r.response.shown \cup r.response.context)
                                  \cap ForbiddenDocs(policy, r.case.user)
               PROVE  ReleaseDecision = "BLOCK_RELEASE" /\ ExitCode = 2
    BY DEF LeakBlocksRelease
  <2>1. Faithful(r)  BY AllKept DEF Kept
  <2>2. r.response # NoResponse  BY DEF NoResponse
  <2>3. r.status = StatusOf(policy, opts.strict, r.case, r.response)  BY <2>1, <2>2 DEF Faithful
  <2>4. d \in Extracted(r.response) \cup ExtractedContext(r.response)
    BY DEF Extracted, ExtractedContext
  <2>5. Leaks(policy, r.case, r.response)  BY <2>4 DEF Leaks
  <2>6. r.status = "FAIL"  BY <2>3, <2>5 DEF StatusOf, ScoreCase
  <2>7. Has("FAIL")  BY <2>6 DEF Has
  <2>8. results # <<>>
    <3>1. PICK i \in DOMAIN results : r = results[i]  BY DEF All
    <3>2. DOMAIN <<>> = {}  BY EmptySeq, LenProperties
    <3> QED  BY <3>1, <3>2
  <2>9. Aggregate = "FAIL"  BY <2>7, <2>8 DEF Aggregate
  <2> QED  BY <2>9 DEF ReleaseDecision, ExitCode
<1> QED  BY <1>1, Inductive, PTL

(* Whatever the policy, the options and the endpoint: a release is let        *)
(* through only when every case was sent and answered, and every user tested *)
(* got evidence of an allowed document, or the query back, in one case and   *)
(* asked in vain for a forbidden one in another (scoring.py: _aggregate).    *)
THEOREM ReleaseIsEarned == Spec => []ReleaseNeedsBothWays
<1>1. IInv => ReleaseNeedsBothWays
  <2> SUFFICES ASSUME IInv, phase = "done", ReleaseDecision = "ALLOW_NEXT_STAGE"
               PROVE  /\ Len(results) = Len(pack)
                      /\ \A r \in All : r.response.kind \in {"json", "opaque"}
                      /\ \A r \in All :
                           /\ \E s \in All :
                                /\ s.case.user = r.case.user /\ s.case.expected = "ALLOWED"
                                /\ s.case.target \in s.response.shown \/ s.response.echoed
                           /\ \E s \in All :
                                /\ s.case.user = r.case.user /\ s.case.expected = "FORBIDDEN"
                                /\ s.response.kind = "json" => s.case.target \notin s.response.shown
    BY DEF ReleaseNeedsBothWays
  <2>1. Len(results) = Len(pack)  BY DEF IInv
  <2>2. Aggregate = "PASS"  BY DEF ReleaseDecision, Aggregate
  <2>3. /\ ~Has("FAIL") /\ ~Has("REVIEW") /\ ~Has("SKIPPED")
        /\ \A r \in All : PassedBothWays(r.case.user)
    BY <2>2 DEF Aggregate
  <2>4. ASSUME NEW r \in All
        PROVE  /\ r.response \in Responses
               /\ r.status = StatusOf(policy, opts.strict, r.case, r.response)
               /\ r.status \notin {"FAIL", "REVIEW", "SKIPPED"}
    <3>1. r.status \notin {"FAIL", "REVIEW", "SKIPPED"}  BY <2>3 DEF Has
    <3>2. Faithful(r)  BY AllKept DEF Kept
    <3> QED  BY <3>1, <3>2 DEF Faithful
  <2>5. ASSUME NEW r \in All PROVE r.response.kind \in {"json", "opaque"}
    <3>1. r.response.kind \in {"json", "opaque", "auth", "error"}  BY <2>4, ResponsesAssumption
    <3>2. r.response.kind # "auth"  BY <2>4 DEF StatusOf
    <3>3. r.response.kind # "error"  BY <2>4 DEF StatusOf
    <3> QED  BY <3>1, <3>2, <3>3
  <2>6. ASSUME NEW r \in All
        PROVE  \E s \in All :
                 /\ s.case.user = r.case.user /\ s.case.expected = "ALLOWED"
                 /\ s.case.target \in s.response.shown \/ s.response.echoed
    <3>1. PICK s \in All : s.status = "PASS" /\ s.case.user = r.case.user /\ s.case.expected = "ALLOWED"
      BY <2>3 DEF PassedBothWays
    <3>2. s.response.kind \in {"json", "opaque"}  BY <2>5
    <3>3. s.status = ScoreCase(policy, s.case, s.response)  BY <2>4, <3>2 DEF StatusOf
    <3>4. EvidenceFound(s.case, s.response)  BY <3>1, <3>3 DEF ScoreCase
    <3> QED  BY <3>1, <3>4 DEF EvidenceFound
  <2>7. ASSUME NEW r \in All
        PROVE  \E s \in All :
                 /\ s.case.user = r.case.user /\ s.case.expected = "FORBIDDEN"
                 /\ s.response.kind = "json" => s.case.target \notin s.response.shown
    <3>1. PICK s \in All : s.status = "PASS" /\ s.case.user = r.case.user /\ s.case.expected = "FORBIDDEN"
      BY <2>3 DEF PassedBothWays
    <3>2. s.case \in Sound(policy)  BY AllKept DEF Kept
    <3>3. s.case.target \in ForbiddenDocs(policy, s.case.user)
      BY <3>1, <3>2 DEF Sound, Case, ForbiddenDocs
    <3>4. s.status = ScoreCase(policy, s.case, s.response)  BY <2>4, <2>5 DEF StatusOf
    <3>5. ~Leaks(policy, s.case, s.response)  BY <3>1, <3>4 DEF ScoreCase
    <3>6. s.response.kind = "json" => s.case.target \notin s.response.shown
      BY <3>3, <3>5 DEF Leaks, Extracted
    <3> QED  BY <3>1, <3>6
  <2> QED  BY <2>1, <2>5, <2>6, <2>7
<1> QED  BY <1>1, Inductive, PTL

(* No case of a pack expects a user to be let in to what a rule denies the   *)
(* user, except where rules for users come first and one of them grants it   *)
(* (permissions.py: expected_access, canary_generate.py:                     *)
(* generate_canary_pack).                                                    *)
THEOREM DenialIsExpected == Spec => []DeniedIsNeverAllowed
<1>1. IInv => DeniedIsNeverAllowed
  <2> SUFFICES ASSUME IInv, NEW i \in DOMAIN pack, pack[i].expected = "ALLOWED"
               PROVE  \/ Matching(policy.denies, pack[i].user, pack[i].target) = {}
                      \/ /\ policy.userFirst
                         /\ OfUser(Matching(policy.grants, pack[i].user, pack[i].target)) # {}
                         /\ OfUser(Matching(policy.denies, pack[i].user, pack[i].target)) = {}
    BY DEF DeniedIsNeverAllowed
  <2>1. pack[i] \in Sound(policy)  BY DEF IInv
  <2>2. ExpectedAccess(policy, pack[i].user, pack[i].target) = "ALLOWED"  BY <2>1 DEF Sound
  <2> QED  BY <2>2 DEF ExpectedAccess
<1> QED  BY <1>1, Inductive, PTL

(* The boundary table of a finished run tells what its verdict tells, for    *)
(* every pack: a failed boundary exactly when the run fails, and none to     *)
(* review when it passes (access_matrix.py: build_boundary_coverage).        *)
THEOREM TableTellsVerdict == Spec => []BoundariesAgree
<1>1. IInv => BoundariesAgree
  <2> SUFFICES ASSUME IInv, phase = "done"
               PROVE  /\ ("FAIL" \in Boundaries) <=> (Aggregate = "FAIL")
                      /\ Aggregate = "PASS" => "REVIEW" \notin Boundaries
    BY DEF BoundariesAgree
  <2>1. ASSUME Has("FAIL") PROVE results # <<>>
    <3>1. DOMAIN <<>> = {}  BY EmptySeq, LenProperties
    <3> QED  BY <2>1, <3>1 DEF Has, All
  <2>2. Aggregate = "FAIL" <=> Has("FAIL")  BY <2>1 DEF Aggregate
  <2>3. ASSUME Has("FAIL") PROVE "FAIL" \in Boundaries
    <3>1. PICK r \in All : r.status = "FAIL"  BY <2>3 DEF Has
    <3>2. r.case.user \in Users /\ r.case.target \in Docs  BY AllKept DEF Kept, Sound, Case
    <3>3. LeakFound(r.case.user, r.case.target)  BY <3>1 DEF LeakFound
    <3>4. Boundary(r.case.user, Collection[r.case.target]) = "FAIL"  BY <3>2, <3>3 DEF Boundary
    <3> QED  BY <3>2, <3>4 DEF Boundaries
  <2>4. ASSUME "FAIL" \in Boundaries PROVE Has("FAIL")
    <3>1. PICK u \in Users, d \in Docs : Boundary(u, Collection[d]) = "FAIL"  BY <2>4 DEF Boundaries
    <3>2. \E e \in Docs : LeakFound(u, e)  BY <3>1 DEF Boundary
    <3> QED  BY <3>2 DEF LeakFound, Has
  <2>5. ASSUME Aggregate = "PASS" PROVE "REVIEW" \notin Boundaries
    <3>1. ~Has("FAIL") /\ ~Has("REVIEW") /\ ~Has("SKIPPED")  BY <2>5 DEF Aggregate
    <3>2. ASSUME NEW u \in Users, NEW d \in Docs PROVE ~EvidenceMissing(u, d)
      <4> SUFFICES ASSUME NEW i \in DOMAIN pack, pack[i] = [user |-> u, target |-> d, expected |-> "ALLOWED"]
                   PROVE  \E r \in All : r.case = pack[i] /\ r.status = "PASS"
        BY DEF EvidenceMissing
      <4>1. i \in 1..Len(results) /\ i \in DOMAIN results  BY DEF IInv
      <4>2. results[i] \in All /\ results[i].case = pack[i]  BY <4>1 DEF All, IInv
      <4>3. results[i].status \in {"PASS", "FAIL", "REVIEW", "SKIPPED"}  BY <4>2, AllKept DEF Kept
      <4>4. results[i].status = "PASS"  BY <3>1, <4>2, <4>3 DEF Has
      <4> QED  BY <4>2, <4>4
    <3> QED  BY <3>2 DEF Boundaries, Boundary
  <2> QED  BY <2>2, <2>3, <2>4, <2>5
<1> QED  BY <1>1, Inductive, PTL
=============================================================================
