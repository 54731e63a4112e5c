-------------------------------- MODULE Keys --------------------------------
(* The key store of a client (internal/key_store.c) and the commands that use  *)
(* and make keys, on threads of one application.                               *)
(*                                                                             *)
(* A command unwraps its keys one after the other, each time with a copy of    *)
(* the key as the result, then makes new keys and stores them one after the    *)
(* other, and removes what it stored if a later step fails. Between these      *)
(* steps other commands run, time passes and video outputs change. Handles     *)
(* are slots: Slots has how they are chosen, ObjectStore how a key is held     *)
(* while it is unwrapped.                                                      *)
EXTENDS KeyHandlers, FiniteSets

CONSTANTS
  Threads,
  Handles,      \* slots of the key store
  Uuids,        \* UUIDs of trusted applications
  caller_uuid,  \* the one that uses this key store
  GivenRights,  \* rights that the application asks for
  GivenKinds,   \* kinds of keys that it makes
  VideoStates,  \* states of the video outputs
  Usages,       \* key usages in containers
  MaxTime,      \* bound of the clock
  MaxExports,   \* bound of the exported keys that are kept
  Careful,      \* whether the application releases only keys it was given
  NULL

(* A key, with its history: the outputs that are left by the key whose rights   *)
(* limited it when it was made, by the key that limited that one, and so on.   *)
(* A command makes a key from one or two keys and stored_key_create takes the  *)
(* rights of one of them, whatever else the bytes come from; those of a key    *)
(* for unwrapping only limit usages, not outputs, and end the chain.           *)
stored_key_t ==
  [kind : Kinds, rights : sa_rights(Uuids),
   limits : SUBSET SA_USAGE_OUTPUT_PROTECTIONS_MASK]

call_t ==
  [handler : Handlers, got : Seq(stored_key_t), made : Seq(Handles), failed : BOOLEAN]

ASSUME KeysAssumption ==
  /\ caller_uuid \in Uuids
  /\ GivenRights \subseteq sa_rights(Uuids)
  /\ GivenKinds \subseteq Kinds
  /\ VideoStates \subseteq video_output_state_t
  /\ Usages \subseteq {"KEY_ONLY", "DATA_ONLY", "DATA_AND_KEY"}
  /\ NULL \notin stored_key_t /\ NULL \notin call_t
  /\ MaxTime \in Nat /\ MaxExports \in Nat /\ Careful \in BOOLEAN

VARIABLES
  keys,      \* the key store
  exported,  \* exported keys, outside of the store
  call,      \* of each thread: handler, copies of the keys it has unwrapped,
             \* handles of the keys it has stored, whether it fails
  given,     \* handles that the application was given and has not released
  now,       \* the clock
  video      \* the state of the video outputs

vars == <<keys, exported, call, given, now, video>>

TypeOK ==
  /\ keys \in [Handles -> stored_key_t \cup {NULL}]
  /\ exported \subseteq stored_key_t
  /\ call \in [Threads -> call_t \cup {NULL}]
  /\ given \subseteq Handles
  /\ now \in 0 .. MaxTime
  /\ video \in VideoStates

Init ==
  /\ keys = [h \in Handles |-> NULL]
  /\ exported = {}
  /\ call = [t \in Threads |-> NULL]
  /\ given = {}
  /\ now = 0
  /\ video \in VideoStates

-----------------------------------------------------------------------------
(* Rights of new keys.                                                        *)

\* fields_to_rights of soc_key_container.c
SocRights(kind) ==
  { [usage_flags |-> {"CACHEABLE"} \cup SA_USAGE_OUTPUT_PROTECTIONS_MASK
                       \cup key_usage_to_usage_flags(u, kind = "EC", hmac),
     child_usage_flags |-> IF u = "KEY_ONLY"
                           THEN key_usage_to_usage_flags(c, kind = "EC", hmac) ELSE {},
     not_before |-> 0, not_on_or_after |-> MaxTime + 1, allowed_tas |-> r.allowed_tas]
    : u \in Usages, c \in Usages, r \in GivenRights, hmac \in BOOLEAN }

\* fields_to_rights of typej.c: everything but the usage of the key as given
TypejUsage(usage) == key_usage_to_usage_flags(usage, FALSE, FALSE)
TypejRights ==
  { [usage_flags |-> (r.usage_flags \ SA_KEY_USAGE_MASK) \cup TypejUsage(u),
     child_usage_flags |-> {}, not_before |-> r.not_before,
     not_on_or_after |-> r.not_on_or_after, allowed_tas |-> r.allowed_tas]
    : r \in GivenRights, u \in Usages }

RightsFrom(source, kind) ==
  CASE source = "given" -> GivenRights
    [] source = "soc" -> SocRights(kind)
    [] source = "typej" -> TypejRights

\* "When usage_flags only has SA_USAGE_FLAG_UNWRAP set of bits 0-5"
OnlyUnwraps(rights) ==
  rights.usage_flags \cap SA_KEY_USAGE_MASK = {"UNWRAP"} /\ rights.child_usage_flags # {}

Outputs(rights) == rights.usage_flags \cap SA_USAGE_OUTPUT_PROTECTIONS_MASK

stored_key_create(kind, rights, y, got) ==
  [kind |-> kind,
   rights |-> IF y.parent = 0 THEN rights
              ELSE restrict_child_rights(rights, got[y.parent].rights),
   limits |-> IF y.parent = 0 \/ OnlyUnwraps(got[y.parent].rights)
              THEN SA_USAGE_OUTPUT_PROTECTIONS_MASK
              ELSE got[y.parent].limits \cap Outputs(got[y.parent].rights)]

-----------------------------------------------------------------------------
(* Commands.                                                                  *)

Running(t) == call[t] # NULL /\ ~call[t].failed
AllUnwrapped(t) == Len(call[t].got) = Len(call[t].handler.needs)

Begin(t, handler) ==
  /\ call[t] = NULL
  /\ call' = [call EXCEPT ![t] =
       [handler |-> handler, got |-> <<>>, made |-> <<>>, failed |-> FALSE]]
  /\ UNCHANGED <<keys, exported, given, now, video>>

\* The checks of key_store_unwrap and then of the handler.
Allowed(key, need) ==
  /\ rights_allowed_uuid(key.rights, caller_uuid)
  /\ rights_allowed_time(key.rights, now)
  /\ rights_allowed_video_output_state(key.rights, video)
  /\ rights_allowed(key.rights, need.usage, now)
  /\ key.kind \in need.kinds

key_store_unwrap(t, h) ==
  /\ Running(t) /\ ~AllUnwrapped(t)
  /\ keys[h] # NULL
  /\ Allowed(keys[h], call[t].handler.needs[Len(call[t].got) + 1])
  /\ call' = [call EXCEPT ![t].got = Append(@, keys[h])]
  /\ UNCHANGED <<keys, exported, given, now, video>>

\* Stores a key in a free slot.
key_store_import_stored_key(t, h, key) ==
  /\ keys[h] = NULL
  /\ keys' = [keys EXCEPT ![h] = key]
  /\ call' = [call EXCEPT ![t].made = Append(@, h)]
  /\ UNCHANGED <<exported, given, now, video>>

Making(t, source) ==
  /\ Running(t) /\ AllUnwrapped(t)
  /\ Len(call[t].made) < Len(call[t].handler.yields)
  /\ (call[t].handler.yields[Len(call[t].made) + 1].rights = "exported") <=> (source = "exported")

\* The next key of a command, with the rights that are asked for or that its
\* container has.
Make(t, h, kind) ==
  /\ Making(t, "given")
  /\ LET y == call[t].handler.yields[Len(call[t].made) + 1]
     IN  /\ kind \in y.kinds
         /\ \E rights \in RightsFrom(y.rights, kind) :
              key_store_import_stored_key(t, h,
                stored_key_create(kind, rights, y, call[t].got))

\* The signature of a container tells that it was made by key_store_export.
key_store_import_exported(t, h, key) ==
  /\ Making(t, "exported")
  /\ key_store_import_stored_key(t, h, key)

\* Every error on the way: parameters, keys that are not allowed, data that do
\* not decrypt, a full store. To store the last key is the last step.
Fail(t) ==
  /\ Running(t)
  /\ call[t].made = <<>> \/ Len(call[t].made) < Len(call[t].handler.yields)
  /\ call' = [call EXCEPT ![t] =
       IF call[t].made = <<>> THEN NULL ELSE [call[t] EXCEPT !.failed = TRUE]]
  /\ UNCHANGED <<keys, exported, given, now, video>>

\* Mutant: only the first key is removed.
Undo_First(t) ==
  /\ call[t] # NULL /\ call[t].failed
  /\ keys' = [keys EXCEPT ![Head(call[t].made)] = NULL]
  /\ call' = [call EXCEPT ![t] = NULL]
  /\ UNCHANGED <<exported, given, now, video>>

\* The one command that makes several keys removes those it has stored (out_ke,
\* out_kh) if it fails.
Undo(t) ==
  /\ call[t] # NULL /\ call[t].failed
  /\ keys' = [keys EXCEPT ![Head(call[t].made)] = NULL]
  /\ call' = [call EXCEPT ![t] =
       IF Len(call[t].made) = 1 THEN NULL ELSE [call[t] EXCEPT !.made = Tail(@)]]
  /\ UNCHANGED <<exported, given, now, video>>

Return(t) ==
  /\ Running(t) /\ AllUnwrapped(t)
  /\ Len(call[t].made) = Len(call[t].handler.yields)
  /\ given' = given \cup {call[t].made[i] : i \in DOMAIN call[t].made}
  /\ call' = [call EXCEPT ![t] = NULL]
  /\ UNCHANGED <<keys, exported, now, video>>

key_store_remove(t, h) ==
  /\ call[t] = NULL
  /\ keys[h] # NULL
  /\ Careful => h \in given
  /\ keys' = [keys EXCEPT ![h] = NULL]
  /\ given' = given \ {h}
  /\ UNCHANGED <<exported, call, now, video>>

\* The key leaves the store with its rights, whatever they say of the time, the
\* caller and the outputs.
key_store_export(t, h) ==
  /\ call[t] = NULL
  /\ keys[h] # NULL /\ "CACHEABLE" \in keys[h].rights.usage_flags
  /\ Cardinality(exported) < MaxExports
  /\ exported' = exported \cup {keys[h]}
  /\ UNCHANGED <<keys, call, given, now, video>>

-----------------------------------------------------------------------------
(* The environment.                                                           *)

Tick ==
  /\ now < MaxTime
  /\ now' = now + 1
  /\ UNCHANGED <<keys, exported, call, given, video>>

\* What video_output_poll answers. The stand-in of porting/video_output.c always
\* has one HDCP 2.2 output; on a device outputs come and go.
VideoOutputsChange ==
  /\ video' \in VideoStates \ {video}
  /\ UNCHANGED <<keys, exported, call, given, now>>

Next ==
  \/ \E t \in Threads :
       \/ \E handler \in Handlers : Begin(t, handler)
       \/ \E h \in Handles : key_store_unwrap(t, h)
       \/ \E h \in Handles, kind \in GivenKinds : Make(t, h, kind)
       \/ \E h \in Handles, key \in exported : key_store_import_exported(t, h, key)
       \/ Fail(t)
       \/ Undo(t)
       \/ Return(t)
       \/ \E h \in Handles : key_store_remove(t, h)
       \/ \E h \in Handles : key_store_export(t, h)
  \/ Tick
  \/ VideoOutputsChange

Spec == Init /\ [][Next]_vars

-----------------------------------------------------------------------------
(* Correctness.                                                               *)

Stored == {keys[h] : h \in {h \in Handles : keys[h] # NULL}}
MadeBy(t) == IF call[t] = NULL THEN {} ELSE {call[t].made[i] : i \in DOMAIN call[t].made}

\* Output protections are not lost along the keys that limit each other:
\* whatever is unwrapped, derived, exchanged, exported and imported in a row, a
\* key allows no output that the key which limited it forbids, or the one which
\* limited that, back to the last key for unwrapping only (restrict_child_rights;
\* rights are inside the wrapped key). It says nothing of the second parent of a
\* Netflix key, see ChildHasNoMoreOutputs.
OutputProtectionsKept ==
  \A key \in Stored \cup exported : Outputs(key.rights) \subseteq key.limits

\* The keys that a command has stored so far, each with the yield it is.
MadeKeys(t) ==
  IF call[t] = NULL THEN {}
  ELSE {<<call[t].handler.yields[i], keys[call[t].made[i]]>> : i \in DOMAIN call[t].made}

\* A key that was unwrapped by a key for unwrapping only has no usage that its
\* parent does not name for its children, whatever the application asks
\* for (restrict_child_rights).
ChildUsagesApply ==
  \A t \in Threads : \A m \in MadeKeys(t) :
    m[1].parent # 0 /\ ~call[t].failed =>
      LET parent == call[t].got[m[1].parent].rights
      IN  OnlyUnwraps(parent) =>
            m[2].rights.usage_flags \cap SA_KEY_USAGE_MASK \subseteq parent.child_usage_flags

\* If the application releases only what it was given, a key in the store is
\* either known to the application or made by one command in progress: a
\* command that fails after some of its keys were stored leaves none behind and
\* removes no other (the end of ta_sa_key_exchange_netflix_dh).
EveryKeyInOneHand ==
  \A h \in Handles :
    LET makers == {t \in Threads : h \in MadeBy(t)}
    IN  IF keys[h] = NULL THEN h \notin given /\ makers = {}
        ELSE IF h \in given THEN makers = {} ELSE Cardinality(makers) = 1

\* "Any child key (resulting from key derivation, key exchange or unwrap
\* operation) shall not have this flag set if the parent key did not have it
\* set", sa_types.h of the output protections. The code limits a Netflix key by
\* one of the two keys that it is computed from, and outputs not at all if that
\* key is for unwrapping only.
ChildHasNoMoreOutputs ==
  \A t \in Threads : \A m \in MadeKeys(t) :
    ~call[t].failed =>
      \A i \in m[1].of : Outputs(m[2].rights) \subseteq Outputs(call[t].got[i].rights)
=============================================================================
