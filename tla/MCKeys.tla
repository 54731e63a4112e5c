------------------------------- MODULE MCKeys -------------------------------
(* Rights for the model checker: a key for everything, a key that requires SVP *)
(* and expires, a key for unwrapping only, a key of someone else. There is one  *)
(* HDCP 2.2 output, as in porting/video_output.c, with SVP enabled or not.     *)
EXTENDS Keys, TLC

CONSTANTS me, other

Everything ==
  [usage_flags |-> SA_KEY_USAGE_MASK
                     \cup {"ALLOWED_DIGITAL_HDCP22", "SVP_OPTIONAL", "CACHEABLE"},
   child_usage_flags |-> {}, not_before |-> 0, not_on_or_after |-> MaxTime + 1,
   allowed_tas |-> {me}]
SvpRequired ==
  [usage_flags |-> {"DERIVE", "KEY_EXCHANGE", "UNWRAP", "SIGN", "ALLOWED_DIGITAL_HDCP22"},
   child_usage_flags |-> {}, not_before |-> 0, not_on_or_after |-> 1,
   allowed_tas |-> {me}]
Unwrapping ==
  [usage_flags |-> {"UNWRAP", "ALLOWED_DIGITAL_HDCP22", "CACHEABLE"},
   child_usage_flags |-> {"DECRYPT"}, not_before |-> 0, not_on_or_after |-> MaxTime + 1,
   allowed_tas |-> {me}]
Foreign == [Everything EXCEPT !.allowed_tas = {other}]

MCGivenRights == {Everything, SvpRequired, Unwrapping, Foreign}
AnyRights == {Everything}
AnalogToo == [Everything EXCEPT !.usage_flags = @ \cup {"ALLOWED_ANALOG_UNPROTECTED"}]
MoreOrLessOutputs == {Everything, AnalogToo}
SvpEnabled == {"ALLOWED_DIGITAL_HDCP22"}
SvpDisabled == {"ALLOWED_DIGITAL_HDCP22", "SVP_OPTIONAL"}
MCVideoStates == {SvpEnabled, SvpDisabled}
OneVideoState == {SvpDisabled}
Symmetries == Permutations(Threads) \cup Permutations(Handles)
=============================================================================
