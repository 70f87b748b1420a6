---------------------------- MODULE ProbePlanner ----------------------------
(* s3-compat-replay: the probes build_probe_plan makes for what was observed *)
(* at the source bucket, and what a probe may do to the target bucket.       *)
(* Bodies, tags, headers and key templates are abstracted: a key is the      *)
(* number of a suffix, and a step says which kinds of check its answer gets. *)
EXTENDS Naturals, Sequences, SequencesExt

Permission == {"deletes", "acl", "multipart", "object_lock"}

(* What compare_step checks beside the status: "shape" mismatches are always *)
(* REVIEW (headers, error codes, continuation token), "deep" ones take the   *)
(* probe's own severity (body, tags, metadata, delete marker, CORS).         *)
Check == {"shape", "deep"}

Operation ==
  {"PutObject", "PutObjectEncryption", "CopyObject", "DeleteObject", "HeadObject", "GetObject",
   "ConditionalGetObject", "GetObjectRange", "ListObjectsV2", "ListObjectsV2Pagination",
   "PutObjectTagging", "GetObjectTagging", "DeleteObjectTagging", "GetObjectAcl",
   "GetBucketVersioning", "ListObjectVersions", "CreateMultipartUpload", "UploadPart",
   "CompleteMultipartUpload", "PresignedGet", "PresignedPut", "PresignedExpiryBoundary",
   "CorsPreflight", "PutObjectRetention", "RequesterPaysList", "GetBucketOwnershipControls",
   "PolicyContextReview", "LifecycleValidationPlan"}

StepType == [op : Operation, key : {1, 2}, checks : SUBSET Check]

Do(op)             == [op |-> op, key |-> 1, checks |-> {}]
DoOn(op, key)      == [op |-> op, key |-> key, checks |-> {}]
Look(op, checks)   == [op |-> op, key |-> 1, checks |-> checks]

(* Setup and steps of each probe, in the order the runner takes them.        *)
ObjectSteps == [
  put_get_head_basic        |-> <<Do("PutObject"), Look("HeadObject", {"shape"}), Look("GetObject", {"deep"})>>,
  head_missing_object       |-> <<Look("HeadObject", {"shape"})>>,
  list_prefix_delimiter     |-> <<Do("PutObject"), DoOn("PutObject", 2), Do("ListObjectsV2")>>,
  delete_synthetic_object   |-> <<Do("PutObject"), Do("DeleteObject")>>,
  copy_synthetic_object     |-> <<Do("PutObject"), DoOn("CopyObject", 2)>>,
  tagging_roundtrip         |-> <<Do("PutObject"), Do("PutObjectTagging"),
                                  Look("GetObjectTagging", {"deep"}), Do("DeleteObjectTagging")>>]

FeatureSteps == [
  acl_get_object            |-> <<Do("PutObject"), Do("GetObjectAcl")>>,
  versioning_behavior       |-> <<Do("PutObject"), Look("GetBucketVersioning", {"deep"}), Do("ListObjectVersions")>>,
  multipart_upload_small    |-> <<Do("CreateMultipartUpload"), Do("UploadPart"), Do("CompleteMultipartUpload")>>,
  presigned_get             |-> <<Do("PutObject"), Do("PresignedGet")>>,
  presigned_put             |-> <<Do("PresignedPut")>>,
  cors_preflight            |-> <<Look("CorsPreflight", {"deep"})>>,
  conditional_get_if_match  |-> <<Do("PutObject"), Do("ConditionalGetObject")>>,
  range_get_bytes           |-> <<Do("PutObject"), Look("GetObjectRange", {"deep"})>>,
  metadata_header_roundtrip |-> <<Do("PutObject"), Look("HeadObject", {"deep"})>>,
  encryption_header_basic   |-> <<Do("PutObjectEncryption"), Look("HeadObject", {"shape"})>>,
  presigned_expiry_boundaries |-> <<Do("PutObject"), Do("PresignedExpiryBoundary")>>]

ContextSteps == [
  list_pagination_tokens    |-> <<Do("PutObject"), DoOn("PutObject", 2), Look("ListObjectsV2Pagination", {"shape"})>>,
  versioning_delete_marker  |-> <<Do("PutObject"), Do("DeleteObject"), Look("ListObjectVersions", {"deep"})>>,
  read_list_after_write_consistency |->
                                <<Do("PutObject"), Do("HeadObject"), Look("GetObject", {"deep"}), Do("ListObjectsV2")>>,
  authz_policy_context_review |-> <<Do("PolicyContextReview")>>,
  ownership_controls_check  |-> <<Do("GetBucketOwnershipControls")>>,
  requester_pays_header     |-> <<Do("RequesterPaysList")>>,
  object_lock_static_or_lab |-> <<Do("PutObject"), Do("PutObjectRetention")>>,
  lifecycle_static_review   |-> <<Do("LifecycleValidationPlan")>>]

Steps == ObjectSteps @@ FeatureSteps @@ ContextSteps

(* The flags a probe asks for, beside the write permission the runner works  *)
(* out from its operations.                                                  *)
Needs(id) ==
  CASE id \in {"delete_synthetic_object", "versioning_delete_marker"} -> {"deletes"}
    [] id = "acl_get_object"                                          -> {"acl"}
    [] id = "multipart_upload_small"                                  -> {"multipart"}
    [] id = "object_lock_static_or_lab"                               -> {"object_lock"}
    [] OTHER                                                          -> {}

Probe == [id : STRING, family : STRING, required : BOOLEAN,
          needs : SUBSET Permission, steps : Seq(StepType)]

Make(id, family, required) ==
  [id |-> id, family |-> family, required |-> required, needs |-> Needs(id), steps |-> Steps[id]]

(* The candidates in the order build_probe_plan appends them, each with the  *)
(* observations that call for it: operation families (lower case), observed  *)
(* features (upper case), request hints and the bucket's configuration.  The *)
(* CORS probes of several origins and methods are one.                       *)
Candidates(seen) ==
  LET For(why, id, family, required) ==
        [wanted |-> why \cap seen # {}, probe |-> Make(id, family, required)]
  IN <<For({"object_read", "object_write", "versioning"}, "put_get_head_basic", "object_read", TRUE),
       For({"object_read"}, "head_missing_object", "object_read", TRUE),
       For({"object_list"}, "list_prefix_delimiter", "object_list", TRUE),
       For({"object_delete"}, "delete_synthetic_object", "object_delete", TRUE),
       For({"event_CopyObject"}, "copy_synthetic_object", "object_write", TRUE),
       For({"tagging", "OBJECT_TAGGING"}, "tagging_roundtrip", "tagging", TRUE),
       For({"acl", "ACL"}, "acl_get_object", "acl", "acl" \in seen),
       For({"versioning", "VERSIONING", "config_versioning"}, "versioning_behavior", "versioning",
           seen \cap {"versioning", "VERSION_ID"} # {}),
       For({"multipart", "MULTIPART"}, "multipart_upload_small", "multipart", TRUE),
       For(IF "hint_presigned_put" \in seen THEN {} ELSE {"hint_presigned_get", "PRESIGNED_OBSERVED"},
           "presigned_get", "presigned", TRUE),
       For({"hint_presigned_put"}, "presigned_put", "presigned", TRUE),
       For({"hint_cors", "config_cors", "CORS"}, "cors_preflight", "cors", seen \cap {"hint_cors", "config_cors"} # {}),
       For({"hint_conditional", "CONDITIONAL_REQUESTS"}, "conditional_get_if_match", "conditional_requests", TRUE),
       For({"hint_range", "RANGE_GETS"}, "range_get_bytes", "range_gets", TRUE),
       For({"hint_metadata", "METADATA_HEADERS"}, "metadata_header_roundtrip", "metadata", TRUE),
       For({"ENCRYPTION_HEADERS", "config_encryption"}, "encryption_header_basic", "encryption_headers", FALSE),
       For({"hint_object_lock", "config_object_lock", "OBJECT_LOCK"}, "object_lock_static_or_lab", "object_lock",
           "OBJECT_LOCK" \in seen),
       For({"hint_expiry"}, "presigned_expiry_boundaries", "presigned_expiry", TRUE),
       For({"hint_pagination", "object_list"}, "list_pagination_tokens", "list_pagination", TRUE),
       For({"versioning", "VERSION_ID"}, "versioning_delete_marker", "versioning_delete_marker", TRUE),
       For({"hint_consistency"}, "read_list_after_write_consistency", "consistency", FALSE),
       For({"config_policy"}, "authz_policy_context_review", "authz_context", FALSE),
       For({"config_ownership"}, "ownership_controls_check", "ownership_controls", FALSE),
       For({"hint_requester_pays", "config_requester_pays"}, "requester_pays_header", "requester_pays", FALSE),
       For({"config_lifecycle"}, "lifecycle_static_review", "lifecycle", FALSE)>>

(* The plan: the wanted probes, cut to the first max_probes.                 *)
BuildPlan(seen, max_probes) ==
  LET wanted == SelectSeq(Candidates(seen), LAMBDA c : c.wanted)
      probes == [i \in DOMAIN wanted |-> wanted[i].probe]
  IN  IF Len(probes) <= max_probes THEN probes ELSE SubSeq(probes, 1, max_probes)
=============================================================================
