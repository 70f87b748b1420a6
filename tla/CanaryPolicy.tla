---------------------------- MODULE CanaryPolicy ----------------------------
(* rag-permission-canary: who may read what, the pack of test cases made     *)
(* from that, and what one response to a test case is taken to show.  Texts  *)
(* are abstracted to the documents whose evidence they carry.                *)
EXTENDS Integers, Sequences, SequencesExt, FiniteSetsExt

CONSTANTS
  UserOrder, DocOrder,  \* the test users and documents, sorted by id
  Groups,               \* the groups of each user
  Collection,           \* the collection of each document
  Marks,                \* the metadata values of each document, its collection among them
  Seeded,               \* the documents that carry canaries
  DefaultTotal          \* default_total_queries

Users == ToSet(UserOrder)
Docs == ToSet(DocOrder)

ASSUME FixtureAssumption ==
  /\ UserOrder \in Seq(Users) /\ DocOrder \in Seq(Docs)
  /\ IsInjective(UserOrder) /\ IsInjective(DocOrder)
  /\ DOMAIN Groups = Users /\ DOMAIN Collection = Docs /\ DOMAIN Marks = Docs
  /\ \A d \in Docs : Collection[d] \in Marks[d]
  /\ Seeded \subseteq Docs
  /\ DefaultTotal \in Nat \ {0}

-----------------------------------------------------------------------------
(* A rule: [kind, subject, docs], docs being what its selectors match (all   *)
(* documents when it has none).  A policy: its grants and denies, its        *)
(* default, whether it is evaluated at all, and user_rule_precedence.        *)
Matches(rule, user, doc) ==
  /\ doc \in rule.docs
  /\ \/ rule.kind = "user" /\ rule.subject = user
     \/ rule.kind = "group" /\ rule.subject \in Groups[user]

Matching(rules, user, doc) == {rule \in rules : Matches(rule, user, doc)}

OfUser(rules) == {rule \in rules : rule.kind = "user"}

(* Mutant: grants are looked at before denies.                               *)
GrantsFirst(policy, user, doc) ==
  IF ~policy.evaluated THEN "UNKNOWN"
  ELSE IF Matching(policy.grants, user, doc) # {} THEN "ALLOWED"
  ELSE IF Matching(policy.denies, user, doc) # {} THEN "FORBIDDEN"
  ELSE IF policy.default = "allow" THEN "ALLOWED" ELSE "FORBIDDEN"

ExpectedAccess(policy, user, doc) ==
  LET grants == Matching(policy.grants, user, doc)
      denies == Matching(policy.denies, user, doc)
  IN  IF ~policy.evaluated THEN "UNKNOWN"
      ELSE IF policy.userFirst /\ OfUser(denies) # {} THEN "FORBIDDEN"
      ELSE IF policy.userFirst /\ OfUser(grants) # {} THEN "ALLOWED"
      ELSE IF denies # {} THEN "FORBIDDEN"
      ELSE IF grants # {} \/ policy.default = "allow" THEN "ALLOWED" ELSE "FORBIDDEN"

ForbiddenDocs(policy, user) == {d \in Docs : ExpectedAccess(policy, user, d) = "FORBIDDEN"}

-----------------------------------------------------------------------------
Case == [user : Users, target : Docs, expected : {"ALLOWED", "FORBIDDEN"}]

(* The cases of one user, in the order of the documents.                     *)
Candidates(policy, user, access) ==
  FlattenSeq([i \in DOMAIN DocOrder |->
    IF ExpectedAccess(policy, user, DocOrder[i]) = access /\ DocOrder[i] \in Seeded
      THEN <<[user |-> user, target |-> DocOrder[i], expected |-> access]>> ELSE <<>>])

UpTo(limit, seq) == SubSeq(seq, 1, IF limit < Len(seq) THEN limit ELSE Len(seq))

(* One case of each user in turn, until there are enough or none is left.    *)
BalancedTake(policy, access, limit) ==
  LET n == Len(UserOrder)
      Turn(t) ==
        LET cases == Candidates(policy, UserOrder[((t - 1) % n) + 1], access)
            round == ((t - 1) \div n) + 1
        IN  IF round \in DOMAIN cases THEN <<cases[round]>> ELSE <<>>
  IN  UpTo(limit, FlattenSeq([t \in 1..(n * Len(DocOrder)) |-> Turn(t)]))

Interleaved(s, t) ==
  FlattenSeq([i \in 1..(Len(s) + Len(t)) |->
    (IF i \in DOMAIN s THEN <<s[i]>> ELSE <<>>) \o (IF i \in DOMAIN t THEN <<t[i]>> ELSE <<>>)])

TargetTotal(perUser) ==
  Min({DefaultTotal, (IF perUser < 1 THEN 1 ELSE perUser) * Len(UserOrder)})

AllowedPart(policy, perUser) == BalancedTake(policy, "ALLOWED", TargetTotal(perUser) \div 2)

ForbiddenPart(policy, perUser) ==
  BalancedTake(policy, "FORBIDDEN", TargetTotal(perUser) - TargetTotal(perUser) \div 2)

Pack(policy, perUser) ==
  Interleaved(AllowedPart(policy, perUser), ForbiddenPart(policy, perUser))

(* INSUFFICIENT_CANARY_COVERAGE, for which a strict generation gives up.     *)
Insufficient(policy, perUser) ==
  Len(AllowedPart(policy, perUser)) + Len(ForbiddenPart(policy, perUser)) < TargetTotal(perUser)

-----------------------------------------------------------------------------
(* A response: [kind, shown, context, tagged, echoed, answered].  kind is    *)
(* "json", "opaque" (a body that is not JSON), "auth" (401 or 403) or        *)
(* "error" (no response); shown the documents its answer or citations give   *)
(* evidence of, context those only its raw context does; tagged whether      *)
(* their metadata comes along; echoed whether the answer repeats a query     *)
(* that names its target; answered whether there is an answer.               *)
Extracted(response) == IF response.kind = "json" THEN response.shown ELSE {}

ExtractedContext(response) == IF response.kind = "json" THEN response.context ELSE {}

(* Mutant: only the target of the case is looked for.                        *)
LeaksTarget(policy, case, response) ==
  /\ case.expected = "FORBIDDEN"
  /\ case.target \in Extracted(response) \cup ExtractedContext(response)

(* detect_leakage: evidence of any document this user may not read, or a     *)
(* metadata value such a document has, be it that of another one.            *)
Leaks(policy, case, response) ==
  \E d \in Extracted(response) \cup ExtractedContext(response),
     f \in ForbiddenDocs(policy, case.user) :
    \/ d = f
    \/ response.tagged /\ Marks[d] \cap Marks[f] # {}

(* Only a leak's text has the query taken out first: for an allowed case a   *)
(* query that comes back is as good as evidence.                             *)
EvidenceFound(case, response) ==
  /\ response.kind = "json"
  /\ case.target \in response.shown \/ response.echoed

(* Mutant: an allowed case needs an answer, and no evidence.                 *)
ScoreByAnswer(policy, case, response) ==
  IF Leaks(policy, case, response) THEN "FAIL"
  ELSE IF case.expected = "FORBIDDEN" THEN "PASS"
  ELSE IF response.kind = "json" /\ response.answered THEN "PASS" ELSE "REVIEW"

ScoreCase(policy, case, response) ==
  IF Leaks(policy, case, response) THEN "FAIL"
  ELSE IF case.expected = "FORBIDDEN" THEN "PASS"
  ELSE IF response.answered /\ EvidenceFound(case, response) THEN "PASS" ELSE "REVIEW"

(* strict turns the REVIEW of a request without response into a FAIL.        *)
StatusOf(policy, strict, case, response) ==
  IF response.kind = "auth" THEN "FAIL"
  ELSE IF response.kind = "error" THEN IF strict THEN "FAIL" ELSE "REVIEW"
  ELSE ScoreCase(policy, case, response)
=============================================================================
