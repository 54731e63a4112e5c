----------------------------- MODULE KeysProofs -----------------------------
(* Output protections are kept, children have the usages their parent names    *)
(* and every key is in one hand, for any number of threads, handles, rights    *)
(* and kinds of keys.                                                          *)
EXTENDS Keys, FiniteSetTheorems, TLAPS

\* The steps that name no prover: SMT first, then Zenon, with time to spare.
USE SMTT(60), ZenonT(60)

-----------------------------------------------------------------------------
(* Handlers.                                                                  *)

\* A key that limits another one was unwrapped with a right for key usage, and
\* the source of the rights of a new key is known.
LimitedByUsedKey(handler) ==
  \A j \in 1 .. Len(handler.yields) :
    LET p == handler.yields[j].parent
    IN  /\ p # 0 => /\ p \in 1 .. Len(handler.needs)
                    /\ handler.needs[p].usage \cap SA_KEY_USAGE_MASK # {}
        /\ handler.yields[j].rights \in {"given", "soc", "typej", "exported"}
        /\ handler.yields[j].rights = "exported" => p = 0

LEMMA NoYield == \A needs : LimitedByUsedKey(Handler(needs, <<>>))
BY DEF LimitedByUsedKey, Handler

LEMMA OneFresh == \A kinds : LimitedByUsedKey(Handler(<<>>, <<Fresh(kinds)>>))
BY DEF LimitedByUsedKey, Handler, Yield, Fresh

LEMMA OneChild ==
  ASSUME NEW usage \in SA_KEY_USAGE_MASK, NEW asked, NEW kinds
  PROVE  LimitedByUsedKey(Handler(<<Need({usage}, asked)>>, <<Child(kinds)>>))
BY DEF LimitedByUsedKey, Handler, Need, Yield, Child

\* The commands that unwrap two keys.
LEMMA TwoNeeds ==
  /\ LimitedByUsedKey(ta_sa_key_derive_netflix)
  /\ LimitedByUsedKey(ta_sa_key_exchange_netflix_dh)
  /\ LimitedByUsedKey(ta_sa_key_import_typej)
<1> USE DEF LimitedByUsedKey, Handler, Need, Yield, SA_KEY_USAGE_MASK
<1>1. LimitedByUsedKey(ta_sa_key_derive_netflix)
  BY DEF ta_sa_key_derive_netflix, kdf_netflix_wrapping
<1>2. LimitedByUsedKey(ta_sa_key_exchange_netflix_dh)
  BY DEF ta_sa_key_exchange_netflix_dh, kdf_netflix_shared_secret, kdf_netflix_wrapping
<1>3. LimitedByUsedKey(ta_sa_key_import_typej)
  BY DEF ta_sa_key_import_typej, typej_unwrap
<1> QED BY <1>1, <1>2, <1>3

\* Every handler asks for a key usage of the key that limits what it makes, so
\* restrict_child_rights never sees a parent without any key usage.
LEMMA HandlersLimit ==
  \A handler \in Handlers : LimitedByUsedKey(handler)
<1>0. {"UNWRAP", "DERIVE", "KEY_EXCHANGE"} \subseteq SA_KEY_USAGE_MASK
  BY DEF SA_KEY_USAGE_MASK
<1>1. \A handler \in ta_sa_key_unwrap : LimitedByUsedKey(handler)
  BY <1>0, OneChild DEF ta_sa_key_unwrap, ta_sa_key_unwrap_aes_ecb, ta_sa_key_unwrap_aes_cbc,
    ta_sa_key_unwrap_aes_ctr, ta_sa_key_unwrap_aes_gcm, ta_sa_key_unwrap_chacha20,
    ta_sa_key_unwrap_chacha20_poly1305, ta_sa_key_unwrap_rsa, ta_sa_key_unwrap_ec,
    unwrap_aes_ecb, unwrap_aes_cbc, unwrap_aes_ctr, unwrap_aes_gcm, unwrap_chacha20,
    unwrap_chacha20_poly1305, unwrap_rsa, unwrap_ec
<1>2. \A handler \in ta_sa_key_derive : LimitedByUsedKey(handler)
  BY <1>0, OneChild, OneFresh, TwoNeeds DEF ta_sa_key_derive, ta_sa_key_derive_root_key_ladder, ta_sa_key_derive_ansi_x963,
    ta_sa_key_derive_cmac, ta_sa_key_derive_concat, ta_sa_key_derive_hkdf,
    kdf_hkdf_hmac, kdf_concat_kdf, kdf_ansi_x963, kdf_ctr_cmac
<1>3. \A handler \in ta_sa_key_exchange : LimitedByUsedKey(handler)
  BY <1>0, OneChild, TwoNeeds DEF ta_sa_key_exchange, ta_sa_key_exchange_dh,
    ta_sa_key_exchange_ecdh, dh_compute_shared_secret, ec_compute_ecdh_shared_secret
<1>4. \A handler \in ta_sa_key_generate : LimitedByUsedKey(handler)
  BY OneFresh DEF ta_sa_key_generate, ta_sa_key_generate_symmetric, ta_sa_key_generate_ec,
    ta_sa_key_generate_rsa, ta_sa_key_generate_dh, symmetric_generate_key,
    ec_generate_key, rsa_generate_key, dh_generate_key
<1>5. \A handler \in ta_sa_key_import : LimitedByUsedKey(handler)
  <2>1. LimitedByUsedKey(ta_sa_key_import_exported) /\ LimitedByUsedKey(ta_sa_key_import_soc)
    BY DEF LimitedByUsedKey, ta_sa_key_import_exported, ta_sa_key_import_soc,
      soc_kc_unwrap, Handler, Yield
  <2> QED BY <2>1, OneFresh, TwoNeeds DEF ta_sa_key_import, ta_sa_key_import_symmetric_bytes,
        ta_sa_key_import_ec_private_bytes, ta_sa_key_import_rsa_private_key_info
<1>6. \A handler \in Uses \cup {ta_sa_key_provision} : LimitedByUsedKey(handler)
  BY NoYield DEF Uses, Use, ta_sa_key_provision, ta_sa_crypto_sign, ta_sa_crypto_cipher_init,
    ta_sa_svp_key_check, ta_sa_crypto_mac_init_hmac, ta_sa_crypto_mac_init_cmac,
    ta_sa_crypto_mac_process_key, ta_sa_key_digest, ta_sa_key_get_public,
    ta_sa_crypto_sign_ecdsa, ta_sa_crypto_sign_eddsa, ta_sa_crypto_sign_rsa_pss,
    ta_sa_crypto_sign_rsa_pkcs1v15, ta_sa_crypto_cipher_init_aes_ecb,
    ta_sa_crypto_cipher_init_aes_cbc, ta_sa_crypto_cipher_init_aes_ctr,
    ta_sa_crypto_cipher_init_aes_gcm, ta_sa_crypto_cipher_init_chacha20,
    ta_sa_crypto_cipher_init_chacha20_poly1305, ta_sa_crypto_cipher_init_rsa_pkcs1v15,
    ta_sa_crypto_cipher_init_rsa_oaep, ta_sa_crypto_cipher_init_ec
<1> QED BY <1>1, <1>2, <1>3, <1>4, <1>5, <1>6 DEF Handlers

-----------------------------------------------------------------------------
(* Rights of a new key.                                                       *)

LEMMA UsageFlags ==
  ASSUME NEW usage \in Usages, NEW exchanges \in BOOLEAN, NEW hmac \in BOOLEAN
  PROVE  key_usage_to_usage_flags(usage, exchanges, hmac) \subseteq SA_KEY_USAGE_MASK
BY KeysAssumption DEF key_usage_to_usage_flags, SA_KEY_USAGE_MASK

LEMMA RightsFromType ==
  ASSUME NEW source \in {"given", "soc", "typej"}, NEW kind,
         NEW rights \in RightsFrom(source, kind)
  PROVE  rights \in sa_rights(Uuids)
<1>1. SA_KEY_USAGE_MASK \cup SA_USAGE_OUTPUT_PROTECTIONS_MASK \cup {"CACHEABLE"} = sa_usage_flags
  BY DEF sa_usage_flags
<1>2. CASE source = "given"
  BY <1>2, KeysAssumption DEF RightsFrom
<1>3. CASE source = "soc"
  <2>1. PICK u \in Usages, c \in Usages, r \in GivenRights, hmac \in BOOLEAN :
          rights = [usage_flags |-> {"CACHEABLE"} \cup SA_USAGE_OUTPUT_PROTECTIONS_MASK
                       \cup key_usage_to_usage_flags(u, kind = "EC", hmac),
                    child_usage_flags |-> IF u = "KEY_ONLY"
                       THEN key_usage_to_usage_flags(c, kind = "EC", hmac) ELSE {},
                    not_before |-> 0, not_on_or_after |-> MaxTime + 1,
                    allowed_tas |-> r.allowed_tas]
    BY <1>3 DEF RightsFrom, SocRights
  <2>2. /\ key_usage_to_usage_flags(u, kind = "EC", hmac) \subseteq SA_KEY_USAGE_MASK
        /\ key_usage_to_usage_flags(c, kind = "EC", hmac) \subseteq SA_KEY_USAGE_MASK
    BY UsageFlags
  <2>3. r.allowed_tas \subseteq Uuids
    BY KeysAssumption DEF sa_rights
  <2>4. MaxTime + 1 \in Nat
    BY KeysAssumption
  <2> HIDE DEF SA_KEY_USAGE_MASK, SA_USAGE_OUTPUT_PROTECTIONS_MASK
  <2> QED BY <2>1, <2>2, <2>3, <2>4, <1>1 DEF sa_rights
<1>4. CASE source = "typej"
  <2>1. PICK r \in GivenRights, u \in Usages :
          rights = [usage_flags |-> (r.usage_flags \ SA_KEY_USAGE_MASK) \cup TypejUsage(u),
                    child_usage_flags |-> {}, not_before |-> r.not_before,
                    not_on_or_after |-> r.not_on_or_after, allowed_tas |-> r.allowed_tas]
    BY <1>4 DEF RightsFrom, TypejRights
  <2>2. TypejUsage(u) \subseteq SA_KEY_USAGE_MASK
    BY UsageFlags DEF TypejUsage
  <2>3. r \in sa_rights(Uuids)
    BY KeysAssumption
  <2> QED BY <2>1, <2>2, <2>3, <1>1 DEF sa_rights
<1> QED BY <1>2, <1>3, <1>4

LEMMA RestrictType ==
  ASSUME NEW rights \in sa_rights(Uuids), NEW root \in sa_rights(Uuids)
  PROVE  restrict_child_rights(rights, root) \in sa_rights(Uuids)
BY DEF restrict_child_rights, sa_rights

\* A parent that has a key usage and is not for unwrapping only passes on no
\* output that it does not allow itself.
LEMMA RestrictOutputs ==
  ASSUME NEW rights \in sa_rights(Uuids), NEW root \in sa_rights(Uuids),
         root.usage_flags \cap SA_KEY_USAGE_MASK # {}, ~OnlyUnwraps(root)
  PROVE  Outputs(restrict_child_rights(rights, root)) \subseteq Outputs(root)
<1>1. MoreThanUnwrap(root) \/ root.child_usage_flags = {}
  BY DEF MoreThanUnwrap, OnlyUnwraps
<1>2. restrict_child_rights(rights, root).usage_flags
        = rights.usage_flags \ (SA_USAGE_OUTPUT_PROTECTIONS_MASK \ root.usage_flags)
  BY <1>1 DEF restrict_child_rights, sa_rights
<1> QED BY <1>2 DEF Outputs

\* A child of a parent for unwrapping only has the usages its parent names.
LEMMA RestrictUsages ==
  ASSUME NEW rights \in sa_rights(Uuids), NEW root \in sa_rights(Uuids), OnlyUnwraps(root)
  PROVE  restrict_child_rights(rights, root).usage_flags \cap SA_KEY_USAGE_MASK
           \subseteq root.child_usage_flags
<1>1. ~MoreThanUnwrap(root) /\ root.child_usage_flags # {}
  BY DEF OnlyUnwraps, MoreThanUnwrap
<1>2. restrict_child_rights(rights, root).usage_flags
        = rights.usage_flags \ (SA_KEY_USAGE_MASK \ root.child_usage_flags)
  BY <1>1 DEF restrict_child_rights, sa_rights
<1> QED BY <1>2

-----------------------------------------------------------------------------
(* The invariant.                                                             *)

KeptKey(key) == Outputs(key.rights) \subseteq key.limits

\* A command holds copies of keys that had the usage it asked for, and keeps
\* what they allow; one that failed has keys to remove.
CallKept(c) ==
  /\ \A i \in 1 .. Len(c.got) :
       KeptKey(c.got[i]) /\ c.handler.needs[i].usage \subseteq c.got[i].rights.usage_flags
  /\ c.failed => c.made # <<>>

IInv ==
  /\ TypeOK
  /\ \A h \in Handles : keys[h] # NULL => KeptKey(keys[h])
  /\ \A key \in exported : KeptKey(key)
  /\ \A t \in Threads : call[t] # NULL => CallKept(call[t])

LEMMA InitIInv == Init => IInv
BY KeysAssumption DEF Init, IInv, TypeOK

\* The new key of a command: with a parent, restrict_child_rights has limited it.
LEMMA NewKeyKept ==
  ASSUME NEW c \in call_t, CallKept(c), Len(c.got) = Len(c.handler.needs),
         Len(c.made) < Len(c.handler.yields), NEW kind \in Kinds,
         c.handler.yields[Len(c.made) + 1].rights # "exported",
         NEW rights \in RightsFrom(c.handler.yields[Len(c.made) + 1].rights, kind)
  PROVE  LET key == stored_key_create(kind, rights, c.handler.yields[Len(c.made) + 1], c.got)
         IN  key \in stored_key_t /\ KeptKey(key)
<1> DEFINE y == c.handler.yields[Len(c.made) + 1]
           key == stored_key_create(kind, rights, y, c.got)
<1>1. /\ y.parent # 0 => /\ y.parent \in 1 .. Len(c.handler.needs)
                         /\ c.handler.needs[y.parent].usage \cap SA_KEY_USAGE_MASK # {}
      /\ y.rights \in {"given", "soc", "typej"}
  <2>1. Len(c.made) + 1 \in 1 .. Len(c.handler.yields)
    <3>1. Len(c.made) \in Nat
      BY DEF call_t
    <3> QED BY <3>1
  <2>2. LimitedByUsedKey(c.handler)
    BY HandlersLimit DEF call_t
  <2> QED BY <2>1, <2>2 DEF LimitedByUsedKey
<1>2. rights \in sa_rights(Uuids)
  BY <1>1, RightsFromType
<1> HIDE DEF y
<1>3. CASE y.parent = 0
  <2>1. key = [kind |-> kind, rights |-> rights,
               limits |-> SA_USAGE_OUTPUT_PROTECTIONS_MASK]
    BY <1>3 DEF stored_key_create
  <2>2. Outputs(rights) \subseteq SA_USAGE_OUTPUT_PROTECTIONS_MASK
    BY DEF Outputs
  <2>3. key \in stored_key_t
    BY <1>2, <2>1 DEF stored_key_t
  <2>4. KeptKey(key)
    BY <2>1, <2>2 DEF KeptKey
  <2> QED BY <2>3, <2>4 DEF y
<1>4. CASE y.parent # 0
  <2> DEFINE root == c.got[y.parent]
  <2>1. /\ root \in stored_key_t /\ KeptKey(root)
        /\ root.rights.usage_flags \cap SA_KEY_USAGE_MASK # {}
    <3>1. y.parent \in 1 .. Len(c.got)
      BY <1>1, <1>4
    <3>2. c.got \in Seq(stored_key_t)
      BY DEF call_t
    <3>3. root \in stored_key_t
      BY <3>1, <3>2
    <3> QED BY <1>1, <1>4, <3>1, <3>3 DEF CallKept
  <2>2. root.rights \in sa_rights(Uuids)
    BY <2>1 DEF stored_key_t
  <2> DEFINE restricted == restrict_child_rights(rights, root.rights)
  <2>3. restricted \in sa_rights(Uuids)
    BY <1>2, <2>2, RestrictType
  <2>4. key = [kind |-> kind, rights |-> restricted,
               limits |-> IF OnlyUnwraps(root.rights) THEN SA_USAGE_OUTPUT_PROTECTIONS_MASK
                          ELSE root.limits \cap Outputs(root.rights)]
    BY <1>4 DEF stored_key_create
  <2>5. ~OnlyUnwraps(root.rights) => Outputs(restricted) \subseteq Outputs(root.rights)
    BY <1>2, <2>1, <2>2, RestrictOutputs
  <2>6. Outputs(root.rights) \subseteq root.limits
    BY <2>1 DEF KeptKey
  <2>7. Outputs(restricted) \subseteq SA_USAGE_OUTPUT_PROTECTIONS_MASK
    BY DEF Outputs
  <2>8. root.limits \subseteq SA_USAGE_OUTPUT_PROTECTIONS_MASK
    BY <2>1 DEF stored_key_t
  <2> HIDE DEF root, restricted
  <2>9. key \in stored_key_t
    BY <2>3, <2>4, <2>8 DEF stored_key_t
  <2>10. KeptKey(key)
    BY <2>4, <2>5, <2>6, <2>7 DEF KeptKey
  <2> QED BY <2>9, <2>10 DEF y
<1> QED BY <1>3, <1>4

\* A step that leaves the calls as they are, or changes the one of a thread to a
\* kept one.
LEMMA CallsKept ==
  ASSUME IInv, NEW t \in Threads, NEW c \in call_t \cup {NULL},
         c # NULL => CallKept(c), call' = [call EXCEPT ![t] = c]
  PROVE  /\ call' \in [Threads -> call_t \cup {NULL}]
         /\ \A u \in Threads : call'[u] # NULL => CallKept(call'[u])
BY DEF IInv, TypeOK

\* Storing a key that is kept in slot h, or nothing.
LEMMA KeysKept ==
  ASSUME IInv, NEW h, NEW key \in stored_key_t \cup {NULL},
         key # NULL => KeptKey(key), keys' = [keys EXCEPT ![h] = key]
  PROVE  /\ keys' \in [Handles -> stored_key_t \cup {NULL}]
         /\ \A g \in Handles : keys'[g] # NULL => KeptKey(keys'[g])
BY DEF IInv, TypeOK

LEMMA StepIInv == IInv /\ [Next]_vars => IInv'
<1> SUFFICES ASSUME IInv, [Next]_vars PROVE IInv'
  OBVIOUS
<1> USE KeysAssumption
<1>0. TypeOK
  BY DEF IInv
<1>1. ASSUME NEW t \in Threads, NEW handler \in Handlers, Begin(t, handler)
      PROVE  IInv'
  <2> DEFINE c == [handler |-> handler, got |-> <<>>, made |-> <<>>, failed |-> FALSE]
  <2>1. c \in call_t /\ CallKept(c)
    BY <1>0 DEF TypeOK, call_t, CallKept
  <2>2. call' = [call EXCEPT ![t] = c] /\ UNCHANGED <<keys, exported, given, now, video>>
    BY <1>1 DEF Begin
  <2> HIDE DEF c
  <2> QED BY <2>1, <2>2, CallsKept DEF IInv, TypeOK, KeptKey
<1>2. ASSUME NEW t \in Threads, NEW h \in Handles, key_store_unwrap(t, h)
      PROVE  IInv'
  <2> DEFINE got == Append(call[t].got, keys[h])
             c == [call[t] EXCEPT !.got = got]
  <2>1. /\ call[t] \in call_t /\ CallKept(call[t])
        /\ keys[h] \in stored_key_t /\ KeptKey(keys[h])
    BY <1>2 DEF key_store_unwrap, Running, IInv, TypeOK
  <2>2. call[t].handler.needs[Len(call[t].got) + 1].usage \subseteq keys[h].rights.usage_flags
    BY <1>2 DEF key_store_unwrap, Allowed, rights_allowed
  <2>3. call[t].got \in Seq(stored_key_t)
    BY <2>1 DEF call_t
  <2>4. /\ got \in Seq(stored_key_t) /\ Len(got) = Len(call[t].got) + 1
        /\ \A i \in 1 .. Len(call[t].got) : got[i] = call[t].got[i]
        /\ got[Len(call[t].got) + 1] = keys[h]
    BY <2>1, <2>3
  <2> HIDE DEF got
  <2>5. c \in call_t /\ c.got = got /\ c.handler = call[t].handler
        /\ c.failed = call[t].failed /\ c.made = call[t].made
    BY <2>1, <2>4 DEF call_t
  <2>6. CallKept(c)
    <3>1. ASSUME NEW i \in 1 .. Len(got)
          PROVE  KeptKey(got[i])
                   /\ call[t].handler.needs[i].usage \subseteq got[i].rights.usage_flags
      <4>1. CASE i \in 1 .. Len(call[t].got)
        BY <2>1, <2>4, <4>1 DEF CallKept
      <4>2. CASE i = Len(call[t].got) + 1
        BY <2>1, <2>2, <2>4, <4>2
      <4> QED BY <2>3, <2>4, <4>1, <4>2
    <3> QED BY <2>1, <2>5, <3>1 DEF CallKept
  <2>7. call' = [call EXCEPT ![t] = c] /\ UNCHANGED <<keys, exported, given, now, video>>
    BY <1>0, <1>2, <2>1 DEF key_store_unwrap, TypeOK, got
  <2> HIDE DEF c
  <2> QED BY <2>5, <2>6, <2>7, CallsKept DEF IInv, TypeOK, KeptKey
<1>3. ASSUME NEW t \in Threads, NEW h \in Handles, NEW key \in stored_key_t, KeptKey(key),
             call[t] # NULL, ~call[t].failed, key_store_import_stored_key(t, h, key)
      PROVE  IInv'
  <2> DEFINE c == [call[t] EXCEPT !.made = Append(@, h)]
  <2>1. call[t] \in call_t /\ CallKept(call[t])
    BY <1>3 DEF IInv, TypeOK
  <2>2. Append(call[t].made, h) \in Seq(Handles)
    BY <2>1 DEF call_t
  <2>3. c \in call_t /\ CallKept(c)
    BY <1>3, <2>1, <2>2 DEF call_t, CallKept
  <2>4. call' = [call EXCEPT ![t] = c] /\ UNCHANGED <<exported, given, now, video>>
    BY <1>0, <1>3, <2>1 DEF key_store_import_stored_key, TypeOK
  <2>5. keys' = [keys EXCEPT ![h] = key]
    BY <1>3 DEF key_store_import_stored_key
  <2> HIDE DEF c
  <2>6. /\ call' \in [Threads -> call_t \cup {NULL}]
        /\ \A u \in Threads : call'[u] # NULL => CallKept(call'[u])
    BY <2>3, <2>4, CallsKept
  <2>7. /\ keys' \in [Handles -> stored_key_t \cup {NULL}]
        /\ \A g \in Handles : keys'[g] # NULL => KeptKey(keys'[g])
    BY <1>3, <2>5, KeysKept
  <2> QED BY <2>4, <2>6, <2>7 DEF IInv, TypeOK, KeptKey
<1>4. ASSUME NEW t \in Threads, NEW h \in Handles, NEW kind \in GivenKinds, Make(t, h, kind)
      PROVE  IInv'
  <2> DEFINE y == call[t].handler.yields[Len(call[t].made) + 1]
  <2>1. PICK rights \in RightsFrom(y.rights, kind) :
          key_store_import_stored_key(t, h, stored_key_create(kind, rights, y, call[t].got))
    BY <1>4 DEF Make
  <2>2. /\ call[t] # NULL /\ ~call[t].failed
        /\ Len(call[t].got) = Len(call[t].handler.needs)
        /\ Len(call[t].made) < Len(call[t].handler.yields)
        /\ y.rights # "exported"
    BY <1>4 DEF Make, Making, Running, AllUnwrapped
  <2>3. call[t] \in call_t /\ CallKept(call[t])
    BY <2>2 DEF IInv, TypeOK
  <2> DEFINE key == stored_key_create(kind, rights, y, call[t].got)
  <2>4. key \in stored_key_t /\ KeptKey(key)
    BY <2>2, <2>3, NewKeyKept
  <2> QED BY <1>3, <2>1, <2>2, <2>4
<1>5. ASSUME NEW t \in Threads, NEW h \in Handles, NEW key \in exported,
             key_store_import_exported(t, h, key)
      PROVE  IInv'
  <2>1. call[t] # NULL /\ ~call[t].failed /\ key_store_import_stored_key(t, h, key)
    BY <1>5 DEF key_store_import_exported, Making, Running
  <2>2. key \in stored_key_t /\ KeptKey(key)
    BY DEF IInv, TypeOK
  <2> QED BY <1>3, <2>1, <2>2
<1>6. ASSUME NEW t \in Threads, Fail(t)
      PROVE  IInv'
  <2> DEFINE c == IF call[t].made = <<>> THEN NULL ELSE [call[t] EXCEPT !.failed = TRUE]
  <2>1. call[t] \in call_t /\ CallKept(call[t])
    BY <1>6 DEF Fail, Running, IInv, TypeOK
  <2>2. c \in call_t \cup {NULL} /\ (c # NULL => CallKept(c))
    BY <2>1 DEF call_t, CallKept
  <2>3. call' = [call EXCEPT ![t] = c] /\ UNCHANGED <<keys, exported, given, now, video>>
    BY <1>6 DEF Fail
  <2> HIDE DEF c
  <2> QED BY <2>2, <2>3, CallsKept DEF IInv, TypeOK, KeptKey
<1>7. ASSUME NEW t \in Threads, Undo(t)
      PROVE  IInv'
  <2> DEFINE c == IF Len(call[t].made) = 1 THEN NULL ELSE [call[t] EXCEPT !.made = Tail(@)]
  <2>1. call[t] \in call_t /\ CallKept(call[t]) /\ call[t].failed
    BY <1>7 DEF Undo, IInv, TypeOK
  <2>2. call[t].made \in Seq(Handles) /\ call[t].made # <<>>
    BY <2>1 DEF call_t, CallKept
  <2>3. Len(call[t].made) # 1 =>
          Tail(call[t].made) \in Seq(Handles) /\ Tail(call[t].made) # <<>>
    <3> DEFINE s == call[t].made
    <3>1. s \in Seq(Handles) /\ Len(s) \in Nat /\ Len(s) # 0
      BY <2>2
    <3> HIDE DEF s
    <3>2. Tail(s) \in Seq(Handles) /\ Len(Tail(s)) = Len(s) - 1
      BY <3>1
    <3>3. Len(s) # 1 => Len(Tail(s)) # 0
      BY <3>1, <3>2
    <3> QED BY <3>2, <3>3 DEF s
  <2>4. c \in call_t \cup {NULL} /\ (c # NULL => CallKept(c))
    BY <2>1, <2>3 DEF call_t, CallKept
  <2>5. /\ call' = [call EXCEPT ![t] = c]
        /\ keys' = [keys EXCEPT ![Head(call[t].made)] = NULL]
        /\ UNCHANGED <<exported, given, now, video>>
    BY <1>7 DEF Undo
  <2> HIDE DEF c
  <2>6. /\ call' \in [Threads -> call_t \cup {NULL}]
        /\ \A u \in Threads : call'[u] # NULL => CallKept(call'[u])
    BY <2>4, <2>5, CallsKept
  <2>7. /\ keys' \in [Handles -> stored_key_t \cup {NULL}]
        /\ \A g \in Handles : keys'[g] # NULL => KeptKey(keys'[g])
    BY <2>5, KeysKept
  <2> QED BY <2>5, <2>6, <2>7 DEF IInv, TypeOK, KeptKey
<1>8. ASSUME NEW t \in Threads, Return(t)
      PROVE  IInv'
  <2>1. call[t] \in call_t
    BY <1>8 DEF Return, Running, IInv, TypeOK
  <2>2. call[t].made \in Seq(Handles)
    BY <2>1 DEF call_t
  <2>3. {call[t].made[i] : i \in DOMAIN call[t].made} \subseteq Handles
    BY <2>2
  <2>4. given' \subseteq Handles
    BY <1>0, <1>8, <2>3 DEF Return, TypeOK
  <2>5. call' = [call EXCEPT ![t] = NULL] /\ UNCHANGED <<keys, exported, now, video>>
    BY <1>8 DEF Return
  <2>6. /\ call' \in [Threads -> call_t \cup {NULL}]
        /\ \A u \in Threads : call'[u] # NULL => CallKept(call'[u])
    BY <2>5, CallsKept
  <2> QED BY <2>4, <2>5, <2>6 DEF IInv, TypeOK, KeptKey
<1>9. ASSUME NEW t \in Threads, NEW h \in Handles, key_store_remove(t, h)
      PROVE  IInv'
  <2>1. /\ keys' = [keys EXCEPT ![h] = NULL] /\ given' = given \ {h}
        /\ UNCHANGED <<exported, call, now, video>>
    BY <1>9 DEF key_store_remove
  <2>2. /\ keys' \in [Handles -> stored_key_t \cup {NULL}]
        /\ \A g \in Handles : keys'[g] # NULL => KeptKey(keys'[g])
    BY <2>1, KeysKept
  <2> QED BY <2>1, <2>2 DEF IInv, TypeOK, KeptKey, CallKept
<1>10. ASSUME NEW t \in Threads, NEW h \in Handles, key_store_export(t, h)
       PROVE  IInv'
  <2>1. /\ exported' = exported \cup {keys[h]} /\ keys[h] # NULL
        /\ UNCHANGED <<keys, call, given, now, video>>
    BY <1>10 DEF key_store_export
  <2>2. keys[h] \in stored_key_t /\ KeptKey(keys[h])
    BY <2>1 DEF IInv, TypeOK
  <2> QED BY <2>1, <2>2 DEF IInv, TypeOK, KeptKey, CallKept
<1>11. ASSUME Tick
       PROVE  IInv'
  BY <1>11 DEF Tick, IInv, TypeOK, KeptKey, CallKept
<1>12. ASSUME VideoOutputsChange
       PROVE  IInv'
  BY <1>12 DEF VideoOutputsChange, IInv, TypeOK, KeptKey, CallKept
<1>13. CASE UNCHANGED vars
  BY <1>13 DEF vars, IInv, TypeOK, KeptKey, CallKept
<1> QED BY <1>1, <1>2, <1>4, <1>5, <1>6, <1>7, <1>8, <1>9, <1>10, <1>11, <1>12, <1>13 DEF Next

THEOREM InductiveInvariant == Spec => []IInv
BY InitIInv, StepIInv, PTL DEF Spec

\* The state of the key store is well formed: the keys and exported keys are
\* keys, every running command has copies of keys.
THEOREM TypeCorrect == Spec => []TypeOK
<1>1. IInv => TypeOK
  BY DEF IInv
<1> QED BY <1>1, InductiveInvariant, PTL

\* Whatever commands an application runs, on any number of threads, no key in
\* the store or exported allows an output that the key which limited it when it
\* was made forbids, or the one which limited that, and so on back to the last
\* key for unwrapping only (restrict_child_rights).
THEOREM OutputProtections == Spec => []OutputProtectionsKept
<1>1. IInv => OutputProtectionsKept
  BY DEF IInv, OutputProtectionsKept, Stored, KeptKey
<1> QED BY <1>1, InductiveInvariant, PTL

-----------------------------------------------------------------------------
(* Whose a key in the store is.                                               *)

\* Key i that the command of a thread has stored is in slot h.
Has(t, i, h) == call[t] # NULL /\ i \in 1 .. Len(call[t].made) /\ call[t].made[i] = h

\* What the application knows and what commands have stored is in the store, no
\* slot twice, and there is nothing else in it.
HandsInv ==
  /\ \A h \in given : keys[h] # NULL
  /\ \A t \in Threads, i \in Nat, h \in Handles : Has(t, i, h) => keys[h] # NULL /\ h \notin given
  /\ \A t, u \in Threads, i, j \in Nat, h \in Handles :
       Has(t, i, h) /\ Has(u, j, h) => t = u /\ i = j
  /\ \A h \in Handles : keys[h] # NULL /\ h \notin given =>
       \E t \in Threads, i \in Nat : Has(t, i, h)

\* Nobody's slots change.
LEMMA HandsSame ==
  ASSUME HandsInv, keys' = keys, given' = given,
         \A t \in Threads, i \in Nat, h \in Handles : Has(t, i, h)' <=> Has(t, i, h)
  PROVE  HandsInv'
BY DEF HandsInv

LEMMA StepHands == Careful /\ IInv /\ IInv' /\ HandsInv /\ [Next]_vars => HandsInv'
<1> SUFFICES ASSUME Careful, IInv, IInv', HandsInv, [Next]_vars PROVE HandsInv'
  OBVIOUS
<1>0. /\ \A t \in Threads : call[t] # NULL =>
           /\ call[t] \in call_t /\ call[t].made \in Seq(Handles)
           /\ Len(call[t].made) \in Nat
      /\ DOMAIN call = Threads /\ DOMAIN keys = Handles /\ given \subseteq Handles
      /\ NULL \notin stored_key_t /\ NULL \notin call_t
  BY KeysAssumption DEF IInv, TypeOK, call_t
<1>1. ASSUME NEW t \in Threads, NEW handler \in Handlers, Begin(t, handler)
      PROVE  HandsInv'
  <2> DEFINE c == [handler |-> handler, got |-> <<>>, made |-> <<>>, failed |-> FALSE]
  <2>1. call' = [call EXCEPT ![t] = c] /\ keys' = keys /\ given' = given /\ call[t] = NULL
    BY <1>1 DEF Begin
  <2>2. Len(c.made) = 0
    OBVIOUS
  <2> HIDE DEF c
  <2>3. \A u \in Threads, i \in Nat, h \in Handles : Has(u, i, h)' <=> Has(u, i, h)
    BY <1>0, <2>1, <2>2 DEF Has
  <2> QED BY <2>1, <2>3, HandsSame
<1>2. ASSUME NEW t \in Threads, NEW h \in Handles, key_store_unwrap(t, h)
      PROVE  HandsInv'
  <2> DEFINE c == [call[t] EXCEPT !.got = Append(@, keys[h])]
  <2>1. call' = [call EXCEPT ![t] = c] /\ keys' = keys /\ given' = given
    BY <1>0, <1>2 DEF key_store_unwrap, Running
  <2>2. call[t] # NULL /\ c # NULL /\ c.made = call[t].made
    <3>1. call[t] # NULL /\ call[t] \in call_t
      BY <1>0, <1>2 DEF key_store_unwrap, Running
    <3>2. call'[t] = c /\ call'[t].got # <<>>
      BY <1>0, <2>1, <3>1 DEF call_t
    <3>3. Append(call[t].got, keys[h]) \in Seq(stored_key_t)
      BY <1>2, <3>1 DEF call_t, key_store_unwrap, IInv, TypeOK
    <3>4. c \in call_t
      BY <3>1, <3>3 DEF call_t
    <3> QED BY <1>0, <3>1, <3>4 DEF call_t
  <2> HIDE DEF c
  <2>3. \A u \in Threads, i \in Nat, g \in Handles : Has(u, i, g)' <=> Has(u, i, g)
    BY <1>0, <2>1, <2>2 DEF Has
  <2> QED BY <2>1, <2>3, HandsSame
<1>3. ASSUME NEW t \in Threads, NEW h \in Handles, NEW key \in stored_key_t, call[t] # NULL,
             key_store_import_stored_key(t, h, key)
      PROVE  HandsInv'
  <2> DEFINE s == call[t].made
             made == Append(s, h)
             c == [call[t] EXCEPT !.made = made]
  <2>1. /\ call' = [call EXCEPT ![t] = c] /\ keys' = [keys EXCEPT ![h] = key]
        /\ given' = given /\ keys[h] = NULL
    BY <1>0, <1>3 DEF key_store_import_stored_key
  <2>2. /\ s \in Seq(Handles) /\ Len(s) \in Nat /\ Len(made) = Len(s) + 1
        /\ \A i \in 1 .. Len(s) : made[i] = s[i]
        /\ made[Len(s) + 1] = h /\ made \in Seq(Handles)
    BY <1>0, <1>3
  <2> HIDE DEF made
  <2>3. c # NULL /\ c.made = made
    <3>1. call[t] \in call_t
      BY <1>0, <1>3
    <3>2. c \in call_t /\ c.made = made
      BY <2>2, <3>1 DEF call_t
    <3> QED BY <1>0, <3>2
  <2> HIDE DEF c
  <2>4. \A i \in Nat, g \in Handles :
          Has(t, i, g)' <=> Has(t, i, g) \/ (i = Len(s) + 1 /\ g = h)
    <3> SUFFICES ASSUME NEW i \in Nat, NEW g \in Handles
                 PROVE  Has(t, i, g)' <=> Has(t, i, g) \/ (i = Len(s) + 1 /\ g = h)
      OBVIOUS
    <3>1. Has(t, i, g)' <=> i \in 1 .. Len(made) /\ made[i] = g
      BY <1>0, <2>1, <2>3 DEF Has
    <3>2. Has(t, i, g) <=> i \in 1 .. Len(s) /\ s[i] = g
      BY <1>3 DEF Has
    <3>3. i \in 1 .. Len(made) <=> i \in 1 .. Len(s) \/ i = Len(s) + 1
      BY <2>2
    <3>4. Len(s) + 1 \notin 1 .. Len(s)
      BY <2>2
    <3> QED BY <2>2, <3>1, <3>2, <3>3, <3>4
  <2>5. \A u \in Threads \ {t}, i \in Nat, g \in Handles : Has(u, i, g)' <=> Has(u, i, g)
    BY <1>0, <2>1 DEF Has
  <2>6. h \notin given /\ \A u \in Threads, i \in Nat : ~Has(u, i, h)
    BY <2>1 DEF HandsInv
  <2>7. key # NULL /\ \A g \in Handles : keys'[g] = IF g = h THEN key ELSE keys[g]
    BY <1>0, <2>1
  <2>8. \A g \in given' : keys'[g] # NULL
    BY <1>0, <2>1, <2>7 DEF HandsInv
  <2>9. \A u \in Threads, i \in Nat, g \in Handles :
          Has(u, i, g)' => keys'[g] # NULL /\ g \notin given'
    BY <2>1, <2>4, <2>5, <2>6, <2>7 DEF HandsInv
  <2>10. \A u, v \in Threads, i, j \in Nat, g \in Handles :
           Has(u, i, g)' /\ Has(v, j, g)' => u = v /\ i = j
    <3>1. \A u \in Threads, i \in Nat : Has(u, i, h)' => u = t /\ i = Len(s) + 1
      BY <2>4, <2>5, <2>6
    <3>2. \A u \in Threads, i \in Nat, g \in Handles \ {h} : Has(u, i, g)' <=> Has(u, i, g)
      BY <2>4, <2>5
    <3> QED BY <3>1, <3>2 DEF HandsInv
  <2>11. \A g \in Handles : keys'[g] # NULL /\ g \notin given' =>
           \E u \in Threads, i \in Nat : Has(u, i, g)'
    <3>1. \E i \in Nat : Has(t, i, h)'
      <4>1. PICK i \in Nat : i = Len(s) + 1
        BY <2>2
      <4> QED BY <2>4, <4>1
    <3> QED BY <2>1, <2>4, <2>5, <2>7, <3>1 DEF HandsInv
  <2> QED BY <2>8, <2>9, <2>10, <2>11 DEF HandsInv
<1>4. ASSUME NEW t \in Threads, NEW h \in Handles, NEW kind \in GivenKinds, Make(t, h, kind)
      PROVE  HandsInv'
  <2> DEFINE y == call[t].handler.yields[Len(call[t].made) + 1]
  <2>1. PICK rights \in RightsFrom(y.rights, kind) :
          key_store_import_stored_key(t, h, stored_key_create(kind, rights, y, call[t].got))
    BY <1>4 DEF Make
  <2>2. /\ call[t] # NULL
        /\ Len(call[t].got) = Len(call[t].handler.needs)
        /\ Len(call[t].made) < Len(call[t].handler.yields)
        /\ y.rights # "exported"
    BY <1>4 DEF Make, Making, Running, AllUnwrapped
  <2>3. call[t] \in call_t /\ CallKept(call[t]) /\ kind \in Kinds
    BY <2>2, KeysAssumption DEF IInv, TypeOK
  <2>4. stored_key_create(kind, rights, y, call[t].got) \in stored_key_t
    BY <2>2, <2>3, NewKeyKept
  <2> QED BY <1>3, <2>1, <2>2, <2>4
<1>5. ASSUME NEW t \in Threads, NEW h \in Handles, NEW key \in exported,
             key_store_import_exported(t, h, key)
      PROVE  HandsInv'
  <2>1. call[t] # NULL /\ key_store_import_stored_key(t, h, key) /\ key \in stored_key_t
    BY <1>5 DEF key_store_import_exported, Making, Running, IInv, TypeOK
  <2> QED BY <1>3, <2>1
<1>6. ASSUME NEW t \in Threads, Fail(t)
      PROVE  HandsInv'
  <2> DEFINE failed == [call[t] EXCEPT !.failed = TRUE]
  <2>1. /\ call[t] # NULL /\ call[t] \in call_t /\ keys' = keys /\ given' = given
        /\ call' = [call EXCEPT ![t] = IF call[t].made = <<>> THEN NULL ELSE failed]
    BY <1>0, <1>6 DEF Fail, Running
  <2>2. failed \in call_t /\ failed.made = call[t].made
    BY <2>1 DEF call_t
  <2> HIDE DEF failed
  <2>3. failed # NULL
    BY <1>0, <2>2
  <2>4. call[t].made = <<>> => Len(call[t].made) = 0
    OBVIOUS
  <2>5. \A u \in Threads, i \in Nat, g \in Handles : Has(u, i, g)' <=> Has(u, i, g)
    BY <1>0, <2>1, <2>2, <2>3, <2>4 DEF Has
  <2> QED BY <2>1, <2>5, HandsSame
<1>7. ASSUME NEW t \in Threads, Undo(t)
      PROVE  HandsInv'
  <2> DEFINE s == call[t].made
             rest == [call[t] EXCEPT !.made = Tail(@)]
  <2>1. /\ call[t] # NULL /\ call[t] \in call_t /\ given' = given
        /\ keys' = [keys EXCEPT ![Head(s)] = NULL]
        /\ call' = [call EXCEPT ![t] = IF Len(s) = 1 THEN NULL ELSE rest]
        /\ s \in Seq(Handles) /\ s # <<>>
    BY <1>0, <1>7 DEF Undo, IInv, CallKept
  <2>2. /\ Len(s) \in Nat /\ Len(s) >= 1 /\ Head(s) = s[1] /\ Head(s) \in Handles
        /\ Len(Tail(s)) = Len(s) - 1 /\ Tail(s) \in Seq(Handles)
        /\ \A i \in 1 .. Len(s) - 1 : Tail(s)[i] = s[i + 1]
    BY <2>1
  <2>3. rest \in call_t /\ rest.made = Tail(s)
    BY <2>1, <2>2 DEF call_t
  <2>4. rest # NULL
    BY <1>0, <2>3
  <2> HIDE DEF rest
  <2>5. \A i \in Nat, g \in Handles : Has(t, i, g) <=> i \in 1 .. Len(s) /\ s[i] = g
    BY <2>1 DEF Has
  <2> HIDE DEF s
  <2>6. \A i \in Nat, g \in Handles : Has(t, i, g)' <=> i >= 1 /\ Has(t, i + 1, g)
    <3> SUFFICES ASSUME NEW i \in Nat, NEW g \in Handles
                 PROVE  Has(t, i, g)' <=> i >= 1 /\ Has(t, i + 1, g)
      OBVIOUS
    <3>1. Has(t, i, g)' <=> Len(s) # 1 /\ i \in 1 .. Len(s) - 1 /\ s[i + 1] = g
      BY <1>0, <2>1, <2>2, <2>3, <2>4 DEF Has
    <3>2. i + 1 \in 1 .. Len(s) /\ i >= 1 <=> i \in 1 .. Len(s) - 1
      BY <2>2
    <3>3. i \in 1 .. Len(s) - 1 => Len(s) # 1
      BY <2>2
    <3> QED BY <2>5, <3>1, <3>2, <3>3
  <2>7. \A u \in Threads \ {t}, i \in Nat, g \in Handles : Has(u, i, g)' <=> Has(u, i, g)
    BY <1>0, <2>1 DEF Has
  <2>0. PICK first \in Handles : first = Head(s)
    BY <2>2
  <2>8. Has(t, 1, first)
    BY <2>0, <2>2, <2>5
  <2>9. \A g \in Handles : keys'[g] = IF g = first THEN NULL ELSE keys[g]
    BY <1>0, <2>0, <2>1
  <2>10. first \notin given
    BY <2>8 DEF HandsInv
  <2>11. \A u \in Threads, i \in Nat : ~Has(u, i, first)'
    <3>1. \A i \in Nat : ~Has(t, i, first)'
      BY <2>6, <2>8 DEF HandsInv
    <3>2. \A u \in Threads \ {t}, i \in Nat : ~Has(u, i, first)'
      BY <2>7, <2>8 DEF HandsInv
    <3> QED BY <3>1, <3>2
  <2>12. \A g \in given' : keys'[g] # NULL
    BY <1>0, <2>1, <2>9, <2>10 DEF HandsInv
  <2>13. \A u \in Threads, i \in Nat, g \in Handles :
          Has(u, i, g)' => keys'[g] # NULL /\ g \notin given'
    <3> SUFFICES ASSUME NEW u \in Threads, NEW i \in Nat, NEW g \in Handles, Has(u, i, g)'
                 PROVE  keys'[g] # NULL /\ g \notin given'
      OBVIOUS
    <3>1. \E j \in Nat : Has(u, j, g)
      BY <2>6, <2>7
    <3>2. g # first
      BY <2>11
    <3> QED BY <2>1, <2>9, <3>1, <3>2 DEF HandsInv
  <2>14. \A u, v \in Threads, i, j \in Nat, g \in Handles :
           Has(u, i, g)' /\ Has(v, j, g)' => u = v /\ i = j
    <3> SUFFICES ASSUME NEW u \in Threads, NEW v \in Threads, NEW i \in Nat, NEW j \in Nat,
                        NEW g \in Handles, Has(u, i, g)', Has(v, j, g)'
                 PROVE  u = v /\ i = j
      OBVIOUS
    <3>1. Has(u, IF u = t THEN i + 1 ELSE i, g)
      BY <2>6, <2>7
    <3>2. Has(v, IF v = t THEN j + 1 ELSE j, g)
      BY <2>6, <2>7
    <3>3. u = v /\ (IF u = t THEN i + 1 ELSE i) = (IF v = t THEN j + 1 ELSE j)
      BY <3>1, <3>2 DEF HandsInv
    <3> QED BY <3>3
  <2>15. \A g \in Handles : keys'[g] # NULL /\ g \notin given' =>
           \E u \in Threads, i \in Nat : Has(u, i, g)'
    <3> SUFFICES ASSUME NEW g \in Handles, keys'[g] # NULL, g \notin given'
                 PROVE  \E u \in Threads, i \in Nat : Has(u, i, g)'
      OBVIOUS
    <3>1. g # first /\ keys[g] # NULL /\ g \notin given
      BY <2>1, <2>9
    <3>2. PICK u \in Threads, i \in Nat : Has(u, i, g)
      BY <3>1 DEF HandsInv
    <3>3. CASE u = t
      <4>1. i \in 1 .. Len(s) /\ s[i] = g
        BY <2>5, <3>2, <3>3
      <4>2. i # 1
        BY <2>0, <2>2, <3>1, <4>1
      <4>3. i - 1 \in Nat /\ i - 1 >= 1 /\ (i - 1) + 1 = i
        BY <2>2, <4>1, <4>2
      <4> QED BY <2>6, <3>2, <3>3, <4>3
    <3> QED BY <2>7, <3>2, <3>3
  <2> QED BY <2>12, <2>13, <2>14, <2>15 DEF HandsInv
<1>8. ASSUME NEW t \in Threads, Return(t)
      PROVE  HandsInv'
  <2>1. /\ call[t] # NULL /\ keys' = keys /\ call' = [call EXCEPT ![t] = NULL]
        /\ given' = given \cup {call[t].made[i] : i \in DOMAIN call[t].made}
        /\ call[t].made \in Seq(Handles)
    BY <1>0, <1>8 DEF Return, Running
  <2>2. \A h \in Handles : h \in given' <=> h \in given \/ \E i \in Nat : Has(t, i, h)
    BY <1>0, <2>1 DEF Has
  <2>3. given' \subseteq Handles
    BY <1>0, <2>1
  <2>4. \A i \in Nat, h \in Handles : ~Has(t, i, h)'
    BY <1>0, <2>1 DEF Has
  <2>5. \A u \in Threads \ {t}, i \in Nat, h \in Handles : Has(u, i, h)' <=> Has(u, i, h)
    BY <1>0, <2>1 DEF Has
  <2>6. \A h \in given' : keys'[h] # NULL
    BY <2>1, <2>2, <2>3 DEF HandsInv
  <2>7. \A u \in Threads, i \in Nat, h \in Handles :
          Has(u, i, h)' => keys'[h] # NULL /\ h \notin given'
    BY <2>1, <2>2, <2>4, <2>5 DEF HandsInv
  <2>8. \A u, v \in Threads, i, j \in Nat, h \in Handles :
          Has(u, i, h)' /\ Has(v, j, h)' => u = v /\ i = j
    BY <2>4, <2>5 DEF HandsInv
  <2>9. \A h \in Handles : keys'[h] # NULL /\ h \notin given' =>
          \E u \in Threads, i \in Nat : Has(u, i, h)'
    BY <2>1, <2>2, <2>5 DEF HandsInv
  <2> QED BY <2>6, <2>7, <2>8, <2>9 DEF HandsInv
<1>9. ASSUME NEW t \in Threads, NEW h \in Handles, key_store_remove(t, h)
      PROVE  HandsInv'
  <2>1. /\ keys' = [keys EXCEPT ![h] = NULL] /\ given' = given \ {h} /\ call' = call
        /\ h \in given
    BY <1>9 DEF key_store_remove
  <2>2. \A u \in Threads, i \in Nat, g \in Handles : Has(u, i, g)' <=> Has(u, i, g)
    BY <2>1 DEF Has
  <2>3. \A g \in Handles : keys'[g] = IF g = h THEN NULL ELSE keys[g]
    BY <1>0, <2>1
  <2> QED BY <1>0, <2>1, <2>2, <2>3 DEF HandsInv
<1>10. ASSUME call' = call, keys' = keys, given' = given
       PROVE  HandsInv'
  BY <1>10, HandsSame DEF Has
<1>11. ASSUME NEW t \in Threads, NEW h \in Handles, key_store_export(t, h)
       PROVE  HandsInv'
  BY <1>10, <1>11 DEF key_store_export
<1>12. CASE Tick \/ VideoOutputsChange \/ UNCHANGED vars
  BY <1>10, <1>12 DEF Tick, VideoOutputsChange, vars
<1> QED BY <1>1, <1>2, <1>4, <1>5, <1>6, <1>7, <1>8, <1>9, <1>11, <1>12 DEF Next

LEMMA Hands == Careful => (Spec => [](IInv /\ HandsInv))
<1> SUFFICES ASSUME Careful PROVE Spec => [](IInv /\ HandsInv)
  OBVIOUS
<1>1. Init => HandsInv
  BY DEF Init, HandsInv, Has
<1>2. IInv /\ IInv' /\ HandsInv /\ [Next]_vars => HandsInv'
  BY StepHands
<1> QED BY <1>1, <1>2, InductiveInvariant, PTL DEF Spec

\* An application that releases only what it was given has every key of the store
\* in one hand, its own or that of one command: a command that fails leaves none
\* behind and removes no other (ta_sa_key_exchange_netflix_dh).
THEOREM OneHand == Careful => (Spec => []EveryKeyInOneHand)
<1> SUFFICES ASSUME Careful PROVE Spec => []EveryKeyInOneHand
  OBVIOUS
<1>1. IInv /\ HandsInv => EveryKeyInOneHand
  <2> SUFFICES ASSUME IInv, HandsInv, NEW h \in Handles
               PROVE  LET makers == {t \in Threads : h \in MadeBy(t)}
                      IN  IF keys[h] = NULL THEN h \notin given /\ makers = {}
                          ELSE IF h \in given THEN makers = {} ELSE Cardinality(makers) = 1
    BY DEF EveryKeyInOneHand
  <2> DEFINE makers == {t \in Threads : h \in MadeBy(t)}
  <2>1. \A t \in Threads : h \in MadeBy(t) <=> \E i \in Nat : Has(t, i, h)
    <3>1. \A t \in Threads : call[t] # NULL => call[t].made \in Seq(Handles)
      BY DEF IInv, TypeOK, call_t
    <3> QED BY <3>1 DEF MadeBy, Has
  <2>2. keys[h] = NULL => h \notin given /\ makers = {}
    BY <2>1 DEF HandsInv
  <2>3. h \in given => makers = {}
    BY <2>1 DEF HandsInv
  <2>4. ASSUME keys[h] # NULL, h \notin given
        PROVE  Cardinality(makers) = 1
    <3>1. PICK t \in Threads : h \in MadeBy(t)
      BY <2>1, <2>4 DEF HandsInv
    <3>2. \A u \in Threads : h \in MadeBy(u) => u = t
      BY <2>1, <3>1 DEF HandsInv
    <3>3. makers = {t}
      BY Zenon, <3>1, <3>2
    <3> QED BY <3>3, FS_Singleton
  <2> QED BY <2>2, <2>3, <2>4
<1> QED BY <1>1, Hands, PTL

-----------------------------------------------------------------------------
(* Usages of the children of keys for unwrapping only.                        *)

\* The usages of a key that was made as yield y from copies got.
ChildUsage(y, key, got) ==
  y.parent # 0 /\ OnlyUnwraps(got[y.parent].rights) =>
    key.rights.usage_flags \cap SA_KEY_USAGE_MASK
      \subseteq got[y.parent].rights.child_usage_flags

\* A command makes keys when it has all its copies, and in its slots are the
\* keys it has made.
ChildUsages ==
  \A t \in Threads : call[t] # NULL /\ ~call[t].failed =>
    /\ Len(call[t].made) # 0 => AllUnwrapped(t)
    /\ \A i \in 1 .. Len(call[t].made) :
         ChildUsage(call[t].handler.yields[i], keys[call[t].made[i]], call[t].got)

LEMMA NewKeyUsages ==
  ASSUME NEW c \in call_t, Len(c.got) = Len(c.handler.needs),
         Len(c.made) < Len(c.handler.yields), NEW kind \in Kinds,
         c.handler.yields[Len(c.made) + 1].rights # "exported",
         NEW rights \in RightsFrom(c.handler.yields[Len(c.made) + 1].rights, kind)
  PROVE  LET y == c.handler.yields[Len(c.made) + 1]
         IN  ChildUsage(y, stored_key_create(kind, rights, y, c.got), c.got)
<1> DEFINE y == c.handler.yields[Len(c.made) + 1]
<1>1. /\ y.parent # 0 => y.parent \in 1 .. Len(c.handler.needs)
      /\ y.rights \in {"given", "soc", "typej"}
  <2>1. Len(c.made) + 1 \in 1 .. Len(c.handler.yields)
    <3>1. Len(c.made) \in Nat
      BY DEF call_t
    <3> QED BY <3>1
  <2>2. LimitedByUsedKey(c.handler)
    BY HandlersLimit DEF call_t
  <2> QED BY <2>1, <2>2 DEF LimitedByUsedKey
<1>2. rights \in sa_rights(Uuids)
  BY <1>1, RightsFromType
<1> HIDE DEF y
<1>3. ASSUME y.parent # 0, OnlyUnwraps(c.got[y.parent].rights)
      PROVE  stored_key_create(kind, rights, y, c.got).rights.usage_flags \cap SA_KEY_USAGE_MASK
               \subseteq c.got[y.parent].rights.child_usage_flags
  <2>1. c.got \in Seq(stored_key_t)
    BY DEF call_t
  <2>2. c.got[y.parent] \in stored_key_t
    BY <1>1, <1>3, <2>1
  <2>3. c.got[y.parent].rights \in sa_rights(Uuids)
    BY <2>2 DEF stored_key_t
  <2>4. stored_key_create(kind, rights, y, c.got).rights
          = restrict_child_rights(rights, c.got[y.parent].rights)
    BY <1>3 DEF stored_key_create
  <2> QED BY <1>2, <1>3, <2>3, <2>4, RestrictUsages
<1> QED BY Zenon, <1>3 DEF ChildUsage, y

LEMMA StepUsages ==
  Careful /\ IInv /\ IInv' /\ HandsInv /\ ChildUsages /\ [Next]_vars => ChildUsages'
<1> SUFFICES ASSUME Careful, IInv, IInv', HandsInv, ChildUsages, [Next]_vars
             PROVE  ChildUsages'
  OBVIOUS
<1>0. /\ \A t \in Threads : call[t] # NULL =>
           /\ call[t] \in call_t /\ call[t].made \in Seq(Handles)
           /\ Len(call[t].made) \in Nat /\ call[t].got \in Seq(stored_key_t)
           /\ \A i \in 1 .. Len(call[t].made) :
                call[t].made[i] \in Handles /\ Has(t, i, call[t].made[i])
      /\ DOMAIN call = Threads /\ DOMAIN keys = Handles
      /\ NULL \notin stored_key_t /\ NULL \notin call_t
  BY KeysAssumption DEF IInv, TypeOK, call_t, Has
\* The commands that a step leaves alone.
<1>1. ASSUME NEW u \in Threads, call'[u] # NULL, ~call'[u].failed, call'[u] = call[u],
             \A i \in 1 .. Len(call[u].made) : keys'[call[u].made[i]] = keys[call[u].made[i]]
      PROVE  /\ Len(call'[u].made) # 0 => AllUnwrapped(u)'
             /\ \A i \in 1 .. Len(call'[u].made) :
                  ChildUsage(call'[u].handler.yields[i], keys'[call'[u].made[i]], call'[u].got)
  BY <1>1 DEF ChildUsages, AllUnwrapped
<1>2. ASSUME NEW t \in Threads, NEW c, call' = [call EXCEPT ![t] = c],
             \A u \in Threads \ {t} : call[u] # NULL =>
               \A i \in 1 .. Len(call[u].made) : keys'[call[u].made[i]] = keys[call[u].made[i]],
             c # NULL /\ ~c.failed =>
               /\ Len(c.made) # 0 => Len(c.got) = Len(c.handler.needs)
               /\ \A i \in 1 .. Len(c.made) :
                    ChildUsage(c.handler.yields[i], keys'[c.made[i]], c.got)
      PROVE  ChildUsages'
  <2>1. \A u \in Threads \ {t} : call'[u] = call[u]
    BY <1>0, <1>2
  <2>2. call'[t] = c
    BY <1>0, <1>2
  <2> SUFFICES ASSUME NEW u \in Threads, call'[u] # NULL, ~call'[u].failed
               PROVE  /\ Len(call'[u].made) # 0 => AllUnwrapped(u)'
                      /\ \A i \in 1 .. Len(call'[u].made) :
                           ChildUsage(call'[u].handler.yields[i], keys'[call'[u].made[i]],
                                      call'[u].got)
    BY DEF ChildUsages
  <2>3. CASE u = t
    BY <1>2, <2>2, <2>3 DEF AllUnwrapped
  <2>4. CASE u # t
    BY <1>1, <1>2, <2>1, <2>4
  <2> QED BY <2>3, <2>4
<1>3. ASSUME NEW t \in Threads, NEW handler \in Handlers, Begin(t, handler)
      PROVE  ChildUsages'
  <2> DEFINE c == [handler |-> handler, got |-> <<>>, made |-> <<>>, failed |-> FALSE]
  <2>1. call' = [call EXCEPT ![t] = c] /\ keys' = keys
    BY <1>3 DEF Begin
  <2>2. Len(c.made) = 0
    OBVIOUS
  <2> HIDE DEF c
  <2>3. /\ \A u \in Threads \ {t} : call[u] # NULL =>
             \A i \in 1 .. Len(call[u].made) : keys'[call[u].made[i]] = keys[call[u].made[i]]
        /\ Len(c.made) # 0 => Len(c.got) = Len(c.handler.needs)
        /\ \A i \in 1 .. Len(c.made) :
             ChildUsage(c.handler.yields[i], keys'[c.made[i]], c.got)
    BY <2>1, <2>2
  <2> QED BY <1>2, <2>1, <2>3
<1>4. ASSUME NEW t \in Threads, NEW h \in Handles, key_store_unwrap(t, h)
      PROVE  ChildUsages'
  <2> DEFINE c == [call[t] EXCEPT !.got = Append(@, keys[h])]
  <2>1. /\ call' = [call EXCEPT ![t] = c] /\ keys' = keys
        /\ call[t] # NULL /\ ~call[t].failed /\ ~AllUnwrapped(t) /\ call[t] \in call_t
    BY <1>0, <1>4 DEF key_store_unwrap, Running
  <2>2. c.made = call[t].made
    BY <2>1 DEF call_t
  <2>3. Len(c.made) = 0
    BY <2>1, <2>2 DEF ChildUsages
  <2> HIDE DEF c
  <2>4. /\ \A u \in Threads \ {t} : call[u] # NULL =>
             \A i \in 1 .. Len(call[u].made) : keys'[call[u].made[i]] = keys[call[u].made[i]]
        /\ Len(c.made) # 0 => Len(c.got) = Len(c.handler.needs)
        /\ \A i \in 1 .. Len(c.made) :
             ChildUsage(c.handler.yields[i], keys'[c.made[i]], c.got)
    BY <2>1, <2>3
  <2> QED BY <1>2, <2>1, <2>4
<1>5. ASSUME NEW t \in Threads, NEW h \in Handles, NEW key \in stored_key_t, Running(t),
             AllUnwrapped(t), key_store_import_stored_key(t, h, key),
             ChildUsage(call[t].handler.yields[Len(call[t].made) + 1], key, call[t].got)
      PROVE  ChildUsages'
  <2> DEFINE s == call[t].made
             made == Append(s, h)
             c == [call[t] EXCEPT !.made = made]
  <2>1. /\ call' = [call EXCEPT ![t] = c] /\ keys' = [keys EXCEPT ![h] = key]
        /\ keys[h] = NULL /\ call[t] # NULL /\ ~call[t].failed /\ call[t] \in call_t
    BY <1>0, <1>5 DEF key_store_import_stored_key, Running
  <2>2. /\ s \in Seq(Handles) /\ Len(s) \in Nat /\ Len(made) = Len(s) + 1
        /\ \A i \in 1 .. Len(s) : made[i] = s[i]
        /\ made[Len(s) + 1] = h /\ made \in Seq(Handles)
    BY <1>0, <2>1
  <2> HIDE DEF made
  <2>3. /\ c.made = made /\ c.got = call[t].got /\ c.handler = call[t].handler
    BY <2>1 DEF call_t
  <2> HIDE DEF c
  <2>4. \A u \in Threads : call[u] # NULL =>
          \A i \in 1 .. Len(call[u].made) : keys'[call[u].made[i]] = keys[call[u].made[i]]
    <3> SUFFICES ASSUME NEW u \in Threads, call[u] # NULL, NEW i \in 1 .. Len(call[u].made)
                 PROVE  keys'[call[u].made[i]] = keys[call[u].made[i]]
      OBVIOUS
    <3>1. call[u].made[i] \in Handles /\ Has(u, i, call[u].made[i]) /\ i \in Nat
      BY <1>0
    <3>2. call[u].made[i] # h
      BY <2>1, <3>1 DEF HandsInv
    <3> QED BY <1>0, <2>1, <3>1, <3>2
  <2>5. Len(c.got) = Len(c.handler.needs)
    BY <1>5, <2>3 DEF AllUnwrapped
  <2>6. ASSUME NEW i \in 1 .. Len(made)
        PROVE  ChildUsage(call[t].handler.yields[i], keys'[made[i]], call[t].got)
    <3>1. CASE i \in 1 .. Len(s)
      <4>1. ChildUsage(call[t].handler.yields[i], keys[s[i]], call[t].got)
        BY <2>1, <3>1 DEF ChildUsages
      <4>2. keys'[made[i]] = keys[s[i]]
        BY <2>1, <2>2, <2>4, <3>1
      <4> QED BY <4>1, <4>2
    <3>2. CASE i = Len(s) + 1
      <4>1. keys'[made[i]] = key
        BY <1>0, <2>1, <2>2, <3>2
      <4> QED BY <1>5, <3>2, <4>1
    <3> QED BY <2>2, <3>1, <3>2
  <2>7. \A i \in 1 .. Len(c.made) :
          ChildUsage(c.handler.yields[i], keys'[c.made[i]], c.got)
    BY <2>3, <2>6
  <2> QED BY <1>2, <2>1, <2>4, <2>5, <2>7
<1>6. ASSUME NEW t \in Threads, NEW h \in Handles, NEW kind \in GivenKinds, Make(t, h, kind)
      PROVE  ChildUsages'
  <2> DEFINE y == call[t].handler.yields[Len(call[t].made) + 1]
  <2>1. PICK rights \in RightsFrom(y.rights, kind) :
          key_store_import_stored_key(t, h, stored_key_create(kind, rights, y, call[t].got))
    BY <1>6 DEF Make
  <2>2. /\ Running(t) /\ AllUnwrapped(t) /\ call[t] # NULL
        /\ Len(call[t].got) = Len(call[t].handler.needs)
        /\ Len(call[t].made) < Len(call[t].handler.yields)
        /\ y.rights # "exported"
    BY <1>6 DEF Make, Making, Running, AllUnwrapped
  <2>3. call[t] \in call_t /\ CallKept(call[t]) /\ kind \in Kinds
    BY <2>2, KeysAssumption DEF IInv, TypeOK
  <2>4. stored_key_create(kind, rights, y, call[t].got) \in stored_key_t
    BY <2>2, <2>3, NewKeyKept
  <2>5. ChildUsage(y, stored_key_create(kind, rights, y, call[t].got), call[t].got)
    BY <2>2, <2>3, NewKeyUsages
  <2> QED BY <1>5, <2>1, <2>2, <2>4, <2>5
<1>7. ASSUME NEW t \in Threads, NEW h \in Handles, NEW key \in exported,
             key_store_import_exported(t, h, key)
      PROVE  ChildUsages'
  <2> DEFINE y == call[t].handler.yields[Len(call[t].made) + 1]
  <2>1. /\ Running(t) /\ AllUnwrapped(t) /\ call[t] # NULL /\ call[t] \in call_t
        /\ key_store_import_stored_key(t, h, key)
        /\ Len(call[t].made) < Len(call[t].handler.yields)
        /\ y.rights = "exported" /\ key \in stored_key_t
    BY <1>0, <1>7 DEF key_store_import_exported, Making, Running, IInv, TypeOK
  <2>2. Len(call[t].made) + 1 \in 1 .. Len(call[t].handler.yields)
    BY <1>0, <2>1
  <2>3. LimitedByUsedKey(call[t].handler)
    BY <2>1, HandlersLimit DEF call_t
  <2>4. y.parent = 0
    BY <2>1, <2>2, <2>3 DEF LimitedByUsedKey
  <2>5. ChildUsage(y, key, call[t].got)
    BY <2>4 DEF ChildUsage
  <2> QED BY <1>5, <2>1, <2>5
<1>8. ASSUME NEW t \in Threads, Fail(t)
      PROVE  ChildUsages'
  <2> DEFINE failed == [call[t] EXCEPT !.failed = TRUE]
             c == IF call[t].made = <<>> THEN NULL ELSE failed
  <2>1. /\ call[t] # NULL /\ call[t] \in call_t /\ keys' = keys
        /\ call' = [call EXCEPT ![t] = c]
    BY <1>0, <1>8 DEF Fail, Running
  <2>2. failed.failed
    BY <2>1 DEF call_t
  <2> HIDE DEF failed
  <2>3. ~(c # NULL /\ ~c.failed)
    BY <2>2
  <2> HIDE DEF c
  <2> QED BY <1>2, <2>1, <2>3
<1>9. ASSUME NEW t \in Threads, Undo(t)
      PROVE  ChildUsages'
  <2> DEFINE rest == [call[t] EXCEPT !.made = Tail(@)]
             c == IF Len(call[t].made) = 1 THEN NULL ELSE rest
  <2>1. /\ call[t] # NULL /\ call[t] \in call_t /\ call[t].failed
        /\ keys' = [keys EXCEPT ![Head(call[t].made)] = NULL]
        /\ call' = [call EXCEPT ![t] = c]
        /\ call[t].made \in Seq(Handles) /\ call[t].made # <<>>
    BY <1>0, <1>9 DEF Undo, IInv, CallKept
  <2>2. rest.failed
    BY <2>1 DEF call_t
  <2> HIDE DEF rest
  <2>3. ~(c # NULL /\ ~c.failed)
    BY <2>2
  <2> HIDE DEF c
  <2>4. PICK first \in Handles : first = Head(call[t].made)
    BY <2>1
  <2>5. Has(t, 1, first)
    BY <1>0, <2>1, <2>4 DEF Has
  <2>6. \A u \in Threads \ {t} : call[u] # NULL =>
          \A i \in 1 .. Len(call[u].made) : keys'[call[u].made[i]] = keys[call[u].made[i]]
    <3> SUFFICES ASSUME NEW u \in Threads \ {t}, call[u] # NULL, NEW i \in 1 .. Len(call[u].made)
                 PROVE  keys'[call[u].made[i]] = keys[call[u].made[i]]
      OBVIOUS
    <3>1. call[u].made[i] \in Handles /\ Has(u, i, call[u].made[i]) /\ i \in Nat
      BY <1>0
    <3>2. call[u].made[i] # first
      BY <2>5, <3>1 DEF HandsInv
    <3> QED BY <1>0, <2>1, <2>4, <3>1, <3>2
  <2> QED BY <1>2, <2>1, <2>3, <2>6
<1>10. ASSUME NEW t \in Threads, Return(t)
       PROVE  ChildUsages'
  <2>1. keys' = keys /\ call' = [call EXCEPT ![t] = NULL]
    BY <1>10 DEF Return
  <2> QED BY <1>2, <2>1
<1>11. ASSUME call' = call,
              \A u \in Threads : call[u] # NULL =>
                \A i \in 1 .. Len(call[u].made) : keys'[call[u].made[i]] = keys[call[u].made[i]]
       PROVE  ChildUsages'
  <2> SUFFICES ASSUME NEW u \in Threads, call'[u] # NULL, ~call'[u].failed
               PROVE  /\ Len(call'[u].made) # 0 => AllUnwrapped(u)'
                      /\ \A i \in 1 .. Len(call'[u].made) :
                           ChildUsage(call'[u].handler.yields[i], keys'[call'[u].made[i]],
                                      call'[u].got)
    BY DEF ChildUsages
  <2> QED BY <1>1, <1>11
<1>12. ASSUME NEW t \in Threads, NEW h \in Handles, key_store_remove(t, h)
       PROVE  ChildUsages'
  <2>1. keys' = [keys EXCEPT ![h] = NULL] /\ call' = call /\ h \in given
    BY <1>12 DEF key_store_remove
  <2>2. \A u \in Threads : call[u] # NULL =>
          \A i \in 1 .. Len(call[u].made) : keys'[call[u].made[i]] = keys[call[u].made[i]]
    <3> SUFFICES ASSUME NEW u \in Threads, call[u] # NULL, NEW i \in 1 .. Len(call[u].made)
                 PROVE  keys'[call[u].made[i]] = keys[call[u].made[i]]
      OBVIOUS
    <3>1. call[u].made[i] \in Handles /\ Has(u, i, call[u].made[i]) /\ i \in Nat
      BY <1>0
    <3>2. call[u].made[i] # h
      BY <2>1, <3>1 DEF HandsInv
    <3> QED BY <1>0, <2>1, <3>1, <3>2
  <2> QED BY <1>11, <2>1, <2>2
<1>13. ASSUME NEW t \in Threads, NEW h \in Handles, key_store_export(t, h)
       PROVE  ChildUsages'
  BY <1>11, <1>13 DEF key_store_export
<1>14. CASE Tick \/ VideoOutputsChange \/ UNCHANGED vars
  BY <1>11, <1>14 DEF Tick, VideoOutputsChange, vars
<1> QED BY <1>3, <1>4, <1>6, <1>7, <1>8, <1>9, <1>10, <1>12, <1>13, <1>14 DEF Next

\* Whatever an application that releases only what it was given asks for, a key
\* that a key for unwrapping only has unwrapped has no usage but those its parent
\* names, while other threads make, remove and exchange keys.
THEOREM ChildUsagesKept == Careful => (Spec => []ChildUsagesApply)
<1> SUFFICES ASSUME Careful PROVE Spec => []ChildUsagesApply
  OBVIOUS
<1>1. Init => ChildUsages
  BY DEF Init, ChildUsages
<1>2. IInv /\ IInv' /\ HandsInv /\ ChildUsages /\ [Next]_vars => ChildUsages'
  BY StepUsages
<1>3. IInv /\ ChildUsages => ChildUsagesApply
  <2> SUFFICES ASSUME IInv, ChildUsages, NEW t \in Threads, NEW m \in MadeKeys(t),
                      m[1].parent # 0, ~call[t].failed,
                      OnlyUnwraps(call[t].got[m[1].parent].rights)
               PROVE  m[2].rights.usage_flags \cap SA_KEY_USAGE_MASK
                        \subseteq call[t].got[m[1].parent].rights.child_usage_flags
    BY DEF ChildUsagesApply
  <2>1. call[t] # NULL
    BY DEF MadeKeys
  <2>2. PICK i \in DOMAIN call[t].made :
          m = <<call[t].handler.yields[i], keys[call[t].made[i]]>>
    BY <2>1 DEF MadeKeys
  <2>3. i \in 1 .. Len(call[t].made)
    BY <2>1, <2>2 DEF IInv, TypeOK, call_t
  <2>4. ChildUsage(m[1], m[2], call[t].got)
    BY <2>1, <2>2, <2>3 DEF ChildUsages
  <2> QED BY <2>4 DEF ChildUsage
<1> QED BY <1>1, <1>2, <1>3, Hands, PTL DEF Spec
=============================================================================
