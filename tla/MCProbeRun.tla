----------------------------- MODULE MCProbeRun -----------------------------
(* Runs of the plans that a few small usage profiles lead to, under the      *)
(* command lines that matter to them.                                        *)
EXTENDS ProbeRun

(* A profile with copies, one with deletes and uploads, one of hints only,   *)
(* one of static configuration, one with uploads of objects only, and one    *)
(* cut short by max_probes.                                                  *)
MCPlans ==
  {BuildPlan({"event_CopyObject", "hint_presigned_put"}, 100),
   BuildPlan({"object_delete", "MULTIPART"}, 100),
   BuildPlan({"object_read", "config_lifecycle"}, 100),
   BuildPlan({"config_encryption", "hint_cors", "hint_expiry"}, 100),
   BuildPlan({"ACL", "config_object_lock", "config_policy"}, 100),
   BuildPlan({"object_write"}, 100),
   BuildPlan({"object_list", "tagging", "versioning"}, 1)}

(* The families these profiles show, which a plan need not have probes of.   *)
MCObservations ==
  {{"object_write"}, {"object_delete", "multipart"}, {"object_list", "tagging", "versioning"},
   {"object_read", "acl", "object_lock", "authz_context", "lifecycle"},
   {"encryption_headers", "cors", "presigned", "presigned_expiry"}}

MCOptions ==
  {[allow_writes |-> w, read_only |-> r, cleanup |-> c, strict |-> s, granted |-> g] :
     w, r, c, s \in BOOLEAN, g \in {{}, {"multipart", "acl"}, Permission}}

LockPlans == {BuildPlan({"config_encryption", "hint_presigned_put"}, 100)}

CopyPlans == {BuildPlan({"event_CopyObject"}, 100)}

DefaultOptions ==
  {[allow_writes |-> w, read_only |-> FALSE, cleanup |-> TRUE, strict |-> FALSE, granted |-> {}] : w \in BOOLEAN}
=============================================================================
