---------------------------- MODULE MCBrownoutRun ----------------------------
(* Three addresses, ports 53, 80 and 443, and up to four services on them:   *)
(* apart, sharing an address, behind a network of addresses, and with an id  *)
(* that two of them have.                                                    *)
EXTENDS BrownoutRun

At(ips, protocol, ports) == [ips |-> ips, protocol |-> protocol, ports |-> ports]

Everything == ActionType \ {"MONITOR_ONLY"}

Service(id, priority, mode, endpoints) ==
  [id |-> id, priority |-> priority, mode |-> mode, allowed |-> Everything, endpoints |-> endpoints,
   trusted |-> "known", maxTtl |-> 60, approval |-> FALSE, complete |-> TRUE]

Core   == Service("core", 0, "PROTECT", <<At({1}, "udp", {53})>>)
Admin  == Service("admin_access", 1, "RESTRICT_TO_TRUSTED", <<At({2}, "tcp", {443})>>)
Portal == Service("portal", 2, "RATE_LIMIT", <<At({1, 2, 3}, "tcp", {80}), At({3}, "tcp", {80})>>)
Shop   == Service("shop", 3, "SHED", <<At({2}, "any", {53, 443})>>)
Bulk   == Service("bulk", 4, "ISOLATE", <<At({3}, "tcp", {80, 443})>>)

Files ==
  {<<Admin, Bulk, Core>>,
   <<Bulk, Core, Portal>>,
   <<Bulk, [Core EXCEPT !.endpoints = <<At({2}, "udp", {443}), At({3}, "udp", {53})>>], Shop>>,
   <<[Bulk EXCEPT !.allowed = {"SHED_LOW_PRIORITY"}], [Core EXCEPT !.mode = "SHED", !.trusted = "none"]>>,
   <<[Bulk EXCEPT !.mode = "NO_ACTION", !.allowed = {"RATE_LIMIT"}],
     [Core EXCEPT !.allowed = {"PRIORITIZE", "ALLOW_TRUSTED_SOURCES"}]>>,
   <<[Admin EXCEPT !.trusted = "unknown", !.approval = TRUE, !.complete = FALSE],
     [Bulk EXCEPT !.mode = "RATE_LIMIT", !.maxTtl = 0]>>,
   <<[Admin EXCEPT !.allowed = {"RATE_LIMIT"}], [Bulk EXCEPT !.maxTtl = 5, !.priority = 3],
     [Core EXCEPT !.mode = "NO_ACTION", !.allowed = {"NO_ACTION"}]>>,
   <<Bulk, [Bulk EXCEPT !.priority = 0, !.endpoints = <<At({3}, "udp", {53})>>], Shop>>}

Target(ip, protocol, ports) ==
  [ip |-> ip, protocol |-> protocol, ports |-> ports, portsKnown |-> TRUE, measured |-> TRUE]

Events ==
  LET quiet == [targets |-> <<Target(1, "udp", {53})>>, context |-> "volumetric", lowConfidence |-> FALSE,
                prefixes |-> FALSE, spoofing |-> FALSE]
  IN  {quiet,
       [quiet EXCEPT !.targets = <<Target(3, "tcp", {80})>>],
       [quiet EXCEPT !.targets = <<Target(3, "any", {53, 80}), Target(2, "tcp", {443})>>],
       [quiet EXCEPT !.targets = <<Target(2, "tcp", {53, 443}), Target(1, "udp", {53})>>, !.context = "application"],
       [quiet EXCEPT !.targets = <<[Target(2, "any", {}) EXCEPT !.portsKnown = FALSE]>>, !.prefixes = TRUE],
       [quiet EXCEPT !.targets = <<[Target(3, "tcp", {443}) EXCEPT !.measured = FALSE], Target(3, "udp", {53})>>,
                     !.lowConfidence = TRUE, !.prefixes = TRUE, !.spoofing = TRUE],
       [quiet EXCEPT !.targets = <<Target(3, "tcp", {})>>]}

OptionSets ==
  LET plain == [strict |-> FALSE, nullRoute |-> FALSE, sourceBlocks |-> FALSE, adminLockdown |-> FALSE,
                maxActions |-> 0, failOnUnmatched |-> FALSE, failOnP0Shed |-> TRUE]
  IN  {plain,
       [plain EXCEPT !.nullRoute = TRUE, !.maxActions = 2],
       [plain EXCEPT !.nullRoute = TRUE, !.sourceBlocks = TRUE, !.failOnP0Shed = FALSE],
       [plain EXCEPT !.adminLockdown = TRUE, !.failOnUnmatched = TRUE, !.maxActions = 3],
       [plain EXCEPT !.strict = TRUE, !.nullRoute = TRUE, !.maxActions = 4],
       [plain EXCEPT !.sourceBlocks = TRUE, !.maxActions = -1]}

MCLimits ==
  [default |-> 30, max |-> 60, nullRoute |-> 10, actions |-> 50,
   priority |-> [p \in 0..4 |-> IF p < 2 THEN 30 ELSE IF p = 2 THEN 20 ELSE 15]]

MCInputs ==
  [services : Files, event : Events, options : OptionSets, limits : {MCLimits},
   packRisk : {[type \in {"RATE_LIMIT"} |-> Low]}]
=============================================================================
