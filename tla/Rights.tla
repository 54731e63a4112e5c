------------------------------- MODULE Rights -------------------------------
(* Rights of keys: the flags of sa_types.h, the checks of internal/rights.c    *)
(* and the restriction of the rights of a child in internal/stored_key.c.      *)
(* A bit field is a set of flags. The list of trusted applications is a set    *)
(* of UUIDs; the special entries are expanded: 0 names nobody, 0xff..ff all.   *)
EXTENDS Naturals

SA_KEY_USAGE_MASK ==
  {"KEY_EXCHANGE", "DERIVE", "UNWRAP", "ENCRYPT", "DECRYPT", "SIGN"}
SA_USAGE_OUTPUT_PROTECTIONS_MASK ==
  {"ALLOWED_ANALOG_UNPROTECTED", "ALLOWED_ANALOG_CGMSA",
   "ALLOWED_DIGITAL_UNPROTECTED", "ALLOWED_DIGITAL_HDCP14",
   "ALLOWED_DIGITAL_HDCP22", "ALLOWED_DIGITAL_DTCP", "SVP_OPTIONAL"}
sa_usage_flags ==
  SA_KEY_USAGE_MASK \cup SA_USAGE_OUTPUT_PROTECTIONS_MASK \cup {"CACHEABLE"}

sa_rights(Uuids) ==
  [usage_flags : SUBSET sa_usage_flags, child_usage_flags : SUBSET sa_usage_flags,
   not_before : Nat, not_on_or_after : Nat, allowed_tas : SUBSET Uuids]

(* A video output state is the set of flags that a key needs in it: one for    *)
(* each kind of output in use, and SVP_OPTIONAL if the pipeline is not secure. *)
(* It has no count for DTCP.                                                   *)
video_output_state_t ==
  SUBSET (SA_USAGE_OUTPUT_PROTECTIONS_MASK \ {"ALLOWED_DIGITAL_DTCP"})

rights_allowed_time(rights, time) ==
  rights.not_before <= time /\ time < rights.not_on_or_after

rights_allowed_uuid(rights, caller_uuid) == caller_uuid \in rights.allowed_tas

rights_allowed_video_output_state(rights, video) == video \subseteq rights.usage_flags

(* rights_allowed_derive, _exchange, _unwrap, _decrypt, _encrypt and _sign: the *)
(* flag, and the time once more; rights_allowed_clear: the flag.               *)
rights_allowed(rights, flags, time) ==
  flags \subseteq rights.usage_flags /\ rights_allowed_time(rights, time)

(* KEY_ONLY_MASK: the key can do more than unwrap.                             *)
MoreThanUnwrap(rights) ==
  rights.usage_flags \cap (SA_KEY_USAGE_MASK \ {"UNWRAP"}) # {}

\* Mutant: the bit for unwrapping is not masked out.
restrict_child_rights_AnyUsage(rights, root) ==
  IF root.usage_flags \cap SA_KEY_USAGE_MASK # {} \/ root.child_usage_flags = {}
  THEN [rights EXCEPT !.usage_flags =
          @ \ (SA_USAGE_OUTPUT_PROTECTIONS_MASK \ root.usage_flags)]
  ELSE [rights EXCEPT !.usage_flags =
          @ \ (SA_KEY_USAGE_MASK \ root.child_usage_flags)]

\* Mutant: the complement is forgotten.
restrict_child_rights_NoComplement(rights, root) ==
  IF MoreThanUnwrap(root) \/ root.child_usage_flags = {}
  THEN [rights EXCEPT !.usage_flags =
          @ \ (SA_USAGE_OUTPUT_PROTECTIONS_MASK \cap root.usage_flags)]
  ELSE [rights EXCEPT !.usage_flags =
          @ \ (SA_KEY_USAGE_MASK \ root.child_usage_flags)]

restrict_child_rights(rights, root) ==
  IF MoreThanUnwrap(root) \/ root.child_usage_flags = {}
  THEN [rights EXCEPT !.usage_flags =
          @ \ (SA_USAGE_OUTPUT_PROTECTIONS_MASK \ root.usage_flags)]
  ELSE [rights EXCEPT !.usage_flags =
          @ \ (SA_KEY_USAGE_MASK \ root.child_usage_flags)]

(* Usage of the key in a container, as flags.                                  *)
key_usage_to_usage_flags(usage, exchanges, hmac) ==
  CASE usage = "KEY_ONLY" -> {"UNWRAP"}
    [] usage = "DATA_ONLY" ->
         (IF exchanges THEN {"KEY_EXCHANGE"} ELSE {}) \cup {"SIGN", "DERIVE"}
           \cup (IF hmac THEN {} ELSE {"DECRYPT", "ENCRYPT"})
    [] usage = "DATA_AND_KEY" ->
         SA_KEY_USAGE_MASK \ (IF exchanges THEN {} ELSE {"KEY_EXCHANGE"})
=============================================================================
