---------------------------- MODULE ClientLibrary ----------------------------
(* The functions of the client library, one operator per function of         *)
(* clientimpl/src: which calls it refuses before it needs the session, which *)
(* it rejects when it has allocated the command, and the request it makes of *)
(* the others.  a is the record of the arguments, the fields of parameter    *)
(* structures included.                                                      *)
EXTENDS Requests

\* The parts in which requests differ from most:
\*   refused   the checks before client_session
\*   rejected  the checks after CREATE_COMMAND
\*   extra     a second structure is allocated for a parameter
\*   late      the checks after that
\*   returns   the fields copied to arguments after the command: when it
\*             succeeded, or always
\*   adds      the arguments that are moved on by the field, not set to it
\*   keeps     a command that failed is not released
\*   reads     the command is read after the loop even if it was not allocated
\*   absent    a structure of the caller is read although it is NULL
Request(direction, struct, fields, params) ==
  [command |-> Command(direction, struct, fields), params |-> params,
   refused |-> FALSE, rejected |-> FALSE, extra |-> FALSE, late |-> FALSE,
   returns |-> <<>>, always |-> FALSE, adds |-> {}, keeps |-> FALSE, reads |-> FALSE,
   absent |-> FALSE]

-----------------------------------------------------------------------------
sa_get_version(a) ==
  [refused |-> a.version = NULL,
   returns |-> [version |-> "version"],
   always  |-> TRUE]
  @@ Request("INOUT", "sa_get_version_s", [version |-> a.version], NoParams)

sa_get_ta_uuid(a) ==
  [refused |-> a.uuid = NULL,
   returns |-> [uuid |-> "uuid"],
   always  |-> TRUE]
  @@ Request("INOUT", "sa_get_ta_uuid_s", [uuid |-> a.uuid], NoParams)

sa_get_device_id(a) ==
  [refused |-> a.id = NULL,
   returns |-> [id |-> "id"],
   keeps   |-> TRUE]
  @@ Request("INOUT", "sa_get_device_id_s", [id |-> a.id], NoParams)

sa_get_name(a) ==
  [refused |-> a.name_length = NULL,
   returns |-> [name_length |-> "name_length"]]
  @@ Request("INOUT", "sa_get_name_s", [name_length |-> a.name_length],
             <<OptionalOut(a.name, a.name_length), None, None>>)

-----------------------------------------------------------------------------
sa_key_generate(a) ==
  [refused  |-> NULL \in {a.key, a.rights, a.parameters},
   rejected |-> \/ a.key_type \notin {"SYMMETRIC", "RSA", "EC", "DH"}
                \/ a.key_type = "DH" /\ NULL \in {a.p, a.g},
   returns  |-> [key |-> "key"]]
  @@ Request("INOUT", "sa_key_generate_s",
       [key |-> a.key, rights |-> a.rights, key_type |-> a.key_type,
        key_length |-> CASE a.key_type = "SYMMETRIC" -> a.key_length
                         [] a.key_type = "RSA" -> a.modulus_length
                         [] a.key_type = "EC" -> a.curve
                         [] OTHER -> Zero],
       IF a.key_type = "DH"
       THEN <<In(a.p, a.p_length), In(a.g, a.g_length), None>>
       ELSE NoParams)

sa_key_export(a) ==
  [refused |-> \/ a.out_length = NULL
               \/ a.out = NULL /\ a.out_length # Zero
               \/ a.mixin = NULL /\ a.mixin_length # Zero,
   returns |-> [out_length |-> "out_length"]]
  @@ Request("INOUT", "sa_key_export_s", Same(a, {"out_length", "key"}),
             <<OptionalOut(a.out, a.out_length),
               OptionalIn(a.mixin, a.mixin_length), None>>)

RightsFormats == {"SYMMETRIC_BYTES", "RSA_PRIVATE_KEY_INFO", "EC_PRIVATE_BYTES"}

\* The length of the parameters of a SoC key is in their first two bytes.
sa_key_import(a) ==
  [refused  |-> a.key = NULL \/ (a.in = NULL /\ a.in_length # Zero),
   rejected |-> \/ a.key_format \notin
                     RightsFormats \cup {"EXPORTED", "TYPEJ", "SOC"}
                \/ /\ a.key_format \in RightsFormats
                   /\ NULL \in {a.parameters, a.rights}
                \/ a.key_format = "TYPEJ" /\ a.parameters = NULL,
   returns  |-> [key |-> "key"]]
  @@ Request("INOUT", "sa_key_import_s",
       [key |-> a.key, key_format |-> a.key_format,
        curve |-> IF a.key_format = "EC_PRIVATE_BYTES" THEN a.curve ELSE Zero],
       <<OptionalIn(a.in, a.in_length),
         CASE a.key_format \in RightsFormats ->
                In(a.rights, sizeof("sa_rights"))
           [] a.key_format = "TYPEJ" ->
                In(a.parameters, sizeof("sa_import_parameters_typej"))
           [] a.key_format = "SOC" ->
                OptionalIn(a.parameters, a.parameters_length)
           [] OTHER -> None,
         None>>)

\* sa_key_provision_preprocessing: the object of each type is complete.
sa_key_provision_preprocessing(a) ==
  /\ NULL \notin {a.in, a.parameters} /\ a.in_length # Zero
  /\ CASE a.ta_key_type = "WIDEVINE_OEM" ->
            /\ NULL \notin {a.private_key, a.certificate}
            /\ Zero \notin {a.private_key_length, a.certificate_length}
       [] a.ta_key_type = "PLAYREADY_MODEL" ->
            /\ NULL \notin {a.private_key, a.certificate}
            /\ Zero \notin {a.private_key_length, a.certificate_length}
       [] a.ta_key_type = "NETFLIX" ->
            /\ NULL \notin {a.encryption_key, a.hmac_key, a.wrapping_key,
                            a.esn_container}
            /\ Zero \notin {a.encryption_key_length, a.hmac_key_length,
                            a.wrapping_key_length, a.esn_container_length}
       [] OTHER -> FALSE

\* The command is read after the loop, to see whether it holds a key.
sa_key_provision_ta(a) ==
  [refused |-> ~sa_key_provision_preprocessing(a),
   reads   |-> TRUE]
  @@ Request("INOUT", "sa_key_provision_ta_s",
       [key |-> <<"INVALID_HANDLE">>, key_format |-> "PROVISION_TA",
        curve |-> Zero],
       <<OptionalIn(a.in, a.in_length),
         OptionalIn(a.parameters, a.parameters_length),
         In(<<"ta_key_type">>, sizeof("sa_key_type_ta"))>>)

-----------------------------------------------------------------------------
\* The algorithms with parameters, and what they need.
UnwrapParametersMissing(a) ==
  \/ a.algorithm_parameters = NULL
  \/ CASE a.cipher_algorithm \in {"AES_CBC", "AES_CBC_PKCS7"} ->
            a.iv = NULL \/ a.iv_length # AES_BLOCK_SIZE
       [] a.cipher_algorithm = "AES_CTR" ->
            a.ctr = NULL \/ a.ctr_length # AES_BLOCK_SIZE
       [] a.cipher_algorithm = "AES_GCM" ->
            \/ a.iv = NULL \/ a.iv_length # GCM_IV_LENGTH
            \/ a.tag = NULL \/ a.tag_length = TooLong
            \/ a.aad = NULL /\ a.aad_length # Zero
       [] a.cipher_algorithm = "CHACHA20" ->
            \/ a.counter = NULL \/ a.counter_length # CHACHA20_COUNTER_LENGTH
            \/ a.nonce = NULL \/ a.nonce_length # CHACHA20_NONCE_LENGTH
       [] a.cipher_algorithm = "CHACHA20_POLY1305" ->
            \/ a.nonce = NULL \/ a.nonce_length # CHACHA20_NONCE_LENGTH
            \/ a.tag = NULL \/ a.tag_length # AES_BLOCK_SIZE
            \/ a.aad = NULL /\ a.aad_length # Zero
       [] a.cipher_algorithm = "RSA_OAEP" ->
            a.label = NULL /\ a.label_length # Zero
       [] OTHER -> FALSE

\* The structure for the parameters that have a fixed size.
UnwrapStruct(a) ==
  CASE a.cipher_algorithm \in {"AES_CBC", "AES_CBC_PKCS7"} ->
         Struct("sa_unwrap_parameters_aes_iv_s", [iv |-> a.iv])
    [] a.cipher_algorithm = "AES_CTR" ->
         Struct("sa_unwrap_parameters_aes_iv_s", [iv |-> a.ctr])
    [] a.cipher_algorithm = "AES_GCM" ->
         Struct("sa_unwrap_parameters_aes_gcm_s",
                Same(a, {"iv", "iv_length", "tag", "tag_length"}))
    [] a.cipher_algorithm = "CHACHA20" ->
         Struct("sa_unwrap_parameters_chacha20_s",
                Same(a, {"counter", "counter_length", "nonce", "nonce_length"}))
    [] a.cipher_algorithm = "CHACHA20_POLY1305" ->
         Struct("sa_unwrap_parameters_chacha20_poly1305_s",
                Same(a, {"nonce", "nonce_length", "tag", "tag_length"}))
    [] a.cipher_algorithm = "EC_ELGAMAL" ->
         Struct("sa_unwrap_parameters_ec_elgamal_s",
                Same(a, {"key_length", "offset"}))
    [] a.cipher_algorithm = "RSA_OAEP" ->
         Struct("sa_unwrap_parameters_rsa_oaep_s",
                Same(a, {"digest_algorithm", "mgf1_digest_algorithm"}))

PlainUnwraps == {"AES_ECB", "AES_ECB_PKCS7", "RSA_PKCS1V15"}
ParameterUnwraps ==
  {"AES_CBC", "AES_CBC_PKCS7", "AES_CTR", "AES_GCM", "CHACHA20",
   "CHACHA20_POLY1305", "EC_ELGAMAL", "RSA_OAEP"}

sa_key_unwrap(a) ==
  [refused  |-> \/ NULL \in {a.key, a.rights}
                \/ a.in = NULL /\ a.in_length # Zero,
   rejected |-> \/ a.key_type = "EC" /\ a.type_parameters = NULL
                \/ a.cipher_algorithm \notin PlainUnwraps \cup ParameterUnwraps
                \/ /\ a.cipher_algorithm \in ParameterUnwraps
                   /\ UnwrapParametersMissing(a),
   extra    |-> a.cipher_algorithm \in ParameterUnwraps,
   returns  |-> [key |-> "key"]]
  @@ Request("INOUT", "sa_key_unwrap_s",
       Same(a, {"key", "rights", "key_type", "cipher_algorithm", "wrapping_key"})
         @@ [curve |-> IF a.key_type = "EC" THEN a.curve ELSE Zero],
       <<OptionalIn(a.in, a.in_length),
         IF a.cipher_algorithm \in ParameterUnwraps
         THEN StructParam("IN", UnwrapStruct(a)) ELSE None,
         CASE a.cipher_algorithm \in {"AES_GCM", "CHACHA20_POLY1305"} ->
                OptionalIn(a.aad, a.aad_length)
           [] a.cipher_algorithm = "RSA_OAEP" ->
                OptionalIn(a.label, a.label_length)
           [] OTHER -> None>>)

-----------------------------------------------------------------------------
\* The functions that return something in a buffer of the caller, who may ask
\* for its length only.
Outputs(a, struct, fields) ==
  [refused |-> a.out_length = NULL,
   returns |-> [out_length |-> "out_length"]]
  @@ Request("INOUT", struct, Same(a, fields),
             <<OptionalOut(a.out, a.out_length), None, None>>)

sa_key_get_public(a) ==
  Outputs(a, "sa_key_get_public_s", {"out_length", "key"})

sa_key_digest(a) ==
  Outputs(a, "sa_key_digest_s", {"out_length", "key", "digest_algorithm"})

sa_crypto_mac_compute(a) ==
  Outputs(a, "sa_crypto_mac_compute_s", {"out_length", "context"})

RootKeyLadders == {"ROOT_KEY_LADDER", "COMMON_ROOT_KEY_LADDER"}
KdfAlgorithms ==
  RootKeyLadders \cup {"HKDF", "CONCAT", "ANSI_X963", "CMAC", "NETFLIX"}

KdfParametersMissing(a) ==
  \/ a.parameters = NULL
  \/ CASE a.kdf_algorithm \in RootKeyLadders ->
            \/ NULL \in {a.c1, a.c2, a.c3, a.c4}
            \/ {a.c1_length, a.c2_length, a.c3_length, a.c4_length}
                 # {AES_BLOCK_SIZE}
       [] a.kdf_algorithm = "HKDF" ->
            \/ a.info = NULL /\ a.info_length # Zero
            \/ a.salt = NULL /\ a.salt_length # Zero
       [] a.kdf_algorithm \in {"CONCAT", "ANSI_X963"} ->
            a.info = NULL /\ a.info_length # Zero
       [] a.kdf_algorithm = "CMAC" ->
            a.other_data = NULL /\ a.other_data_length # Zero
       [] OTHER -> FALSE

KdfStruct(a) ==
  CASE a.kdf_algorithm \in RootKeyLadders ->
         Struct("sa_kdf_parameters_root_key_ladder_s",
                Same(a, {"c1", "c2", "c3", "c4"}))
    [] a.kdf_algorithm = "HKDF" ->
         Struct("sa_kdf_parameters_hkdf_s",
                Same(a, {"key_length", "digest_algorithm", "parent"}))
    [] a.kdf_algorithm = "CONCAT" ->
         Struct("sa_kdf_parameters_concat_s",
                Same(a, {"key_length", "digest_algorithm", "parent"}))
    [] a.kdf_algorithm = "ANSI_X963" ->
         Struct("sa_kdf_parameters_ansi_x963_s",
                Same(a, {"key_length", "digest_algorithm", "parent"}))
    [] a.kdf_algorithm = "CMAC" ->
         Struct("sa_kdf_parameters_cmac_s",
                Same(a, {"key_length", "parent", "counter"}))
    [] a.kdf_algorithm = "NETFLIX" ->
         Struct("sa_kdf_parameters_netflix", Same(a, {"kenc", "khmac"}))

sa_key_derive(a) ==
  [refused  |-> NULL \in {a.key, a.rights},
   rejected |-> a.kdf_algorithm \notin KdfAlgorithms \/ KdfParametersMissing(a),
   extra    |-> TRUE,
   returns  |-> [key |-> "key"]]
  @@ Request("INOUT", "sa_key_derive_s",
       Same(a, {"key", "rights", "kdf_algorithm"}),
       IF a.kdf_algorithm \notin KdfAlgorithms THEN NoParams
       ELSE <<StructParam("IN", KdfStruct(a)),
              CASE a.kdf_algorithm \in {"HKDF", "CONCAT", "ANSI_X963"} ->
                     OptionalIn(a.info, a.info_length)
                [] a.kdf_algorithm = "CMAC" ->
                     OptionalIn(a.other_data, a.other_data_length)
                [] OTHER -> None,
              IF a.kdf_algorithm = "HKDF"
              THEN OptionalIn(a.salt, a.salt_length) ELSE None>>)

\* The two more keys of the Netflix exchange come back in its parameters.
sa_key_exchange(a) ==
  LET netflix == a.key_exchange_algorithm = "NETFLIX_AUTHENTICATED_DH"
  IN  [refused  |-> NULL \in {a.key, a.rights, a.other_public},
       rejected |-> /\ netflix
                    /\ NULL \in {a.parameters, a.out_ke, a.rights_ke, a.out_kh,
                                 a.rights_kh},
       extra    |-> netflix,
       returns  |-> [key |-> "key"] @@
                    (IF netflix THEN [out_ke |-> "out_ke", out_kh |-> "out_kh"]
                     ELSE <<>>)]
      @@ Request("INOUT", "sa_key_exchange_s",
           Same(a, {"key", "rights", "key_exchange_algorithm", "private_key"}),
           <<In(a.other_public, a.other_public_length),
             IF netflix
             THEN StructParam("INOUT",
                    Struct("sa_key_exchange_parameters_netflix_authenticated_dh_s",
                      Same(a, {"in_kw", "out_ke", "rights_ke", "out_kh",
                               "rights_kh"})))
             ELSE None,
             None>>)

sa_key_release(a) ==
  Request("IN", "sa_key_release_s", Same(a, {"key"}), NoParams)

\* The header is copied from a structure on the stack, if the command succeeds.
sa_key_header(a) ==
  [refused |-> a.header = NULL,
   returns |-> [header |-> "header"]]
  @@ Request("INOUT", "sa_key_header_s", Same(a, {"key"}),
             <<StructParam("OUT", Struct("sa_header_s", [header |-> Unset])),
               None, None>>)

-----------------------------------------------------------------------------
\* Here the session comes before the check of out.
sa_crypto_random(a) ==
  [refused |-> a.out = NULL]
  @@ Request("IN", "sa_crypto_random_s", <<>>,
             <<Out(a.out, a.length), None, None>>)

CipherInits ==
  {"AES_ECB", "AES_ECB_PKCS7", "EC_ELGAMAL", "RSA_PKCS1V15", "AES_CBC",
   "AES_CBC_PKCS7", "AES_CTR", "AES_GCM", "CHACHA20", "CHACHA20_POLY1305",
   "RSA_OAEP"}

CipherParametersMissing(a) ==
  CASE a.cipher_algorithm \in {"AES_CBC", "AES_CBC_PKCS7"} ->
         NULL \in {a.parameters, a.iv}
    [] a.cipher_algorithm = "AES_CTR" -> NULL \in {a.parameters, a.ctr}
    [] a.cipher_algorithm = "AES_GCM" ->
         \/ NULL \in {a.parameters, a.iv}
         \/ a.aad = NULL /\ a.aad_length # Zero
    [] a.cipher_algorithm = "CHACHA20" ->
         NULL \in {a.parameters, a.counter, a.nonce}
    [] a.cipher_algorithm = "CHACHA20_POLY1305" ->
         \/ NULL \in {a.parameters, a.nonce}
         \/ a.aad = NULL /\ a.aad_length # Zero
    [] a.cipher_algorithm = "RSA_OAEP" ->
         a.parameters = NULL \/ (a.label = NULL /\ a.label_length # Zero)
    [] OTHER -> FALSE

sa_crypto_cipher_init(a) ==
  [refused  |-> a.context = NULL,
   rejected |-> \/ a.cipher_algorithm \notin CipherInits
                \/ CipherParametersMissing(a),
   extra    |-> a.cipher_algorithm = "RSA_OAEP",
   returns  |-> [context |-> "context"]]
  @@ Request("INOUT", "sa_crypto_cipher_init_s",
       Same(a, {"context", "cipher_algorithm", "cipher_mode", "key"}),
       CASE a.cipher_algorithm \in {"AES_CBC", "AES_CBC_PKCS7"} ->
              <<In(a.iv, a.iv_length), None, None>>
         [] a.cipher_algorithm = "AES_CTR" ->
              <<In(a.ctr, a.ctr_length), None, None>>
         [] a.cipher_algorithm = "AES_GCM" ->
              <<In(a.iv, a.iv_length), OptionalIn(a.aad, a.aad_length), None>>
         [] a.cipher_algorithm = "CHACHA20" ->
              <<In(a.nonce, a.nonce_length), In(a.counter, a.counter_length),
                None>>
         [] a.cipher_algorithm = "CHACHA20_POLY1305" ->
              <<In(a.nonce, a.nonce_length), OptionalIn(a.aad, a.aad_length),
                None>>
         [] a.cipher_algorithm = "RSA_OAEP" ->
              <<StructParam("IN", Struct("sa_cipher_parameters_rsa_oaep_s",
                  Same(a, {"digest_algorithm", "mgf1_digest_algorithm"}))),
                OptionalIn(a.label, a.label_length), None>>
         [] OTHER -> NoParams)

sa_crypto_cipher_update_iv(a) ==
  [refused |-> a.iv = NULL]
  @@ Request("IN", "sa_crypto_cipher_update_iv_s", Same(a, {"context"}),
             <<In(a.iv, a.iv_length), None, None>>)

\* A buffer in memory is passed from its offset on, an SVP buffer with its
\* offset.
BufferBad(b) == b.type = "CLEAR" /\ (b.buffer = NULL \/ b.offset = Beyond)
BufferOffset(b) == IF b.type = "CLEAR" THEN Zero ELSE b.offset

\* Mutant: the length is that of the whole buffer.
BufferParam_Whole(direction, b) ==
  IF b.type = "CLEAR" THEN Param(direction, At(b.buffer, b.offset), b.length)
  ELSE In(b.buffer, sizeof("sa_svp_buffer"))

BufferParam(direction, b) ==
  IF b.type = "CLEAR"
  THEN Param(direction, At(b.buffer, b.offset), Minus(b.length, b.offset))
  ELSE In(b.buffer, sizeof("sa_svp_buffer"))

\* What both functions on data share.
Process(a, in_param, in_offset, tag_param) ==
  [refused  |-> a.in = NULL \/ a.bytes_to_process = NULL,
   rejected |-> \/ a.out # NULL /\ BufferBad(a.out)
                \/ a.in # NULL /\ BufferBad(a.in),
   returns  |-> [in_offset |-> "in_offset",
                 bytes_to_process |-> "bytes_to_process"] @@
                (IF a.out = NULL THEN <<>> ELSE [out_offset |-> "out_offset"]),
   adds     |-> {n \in {"out", "in"} : a[n] # NULL /\ a[n].type = "CLEAR"}]
  @@ Request("INOUT", "sa_crypto_cipher_process_s",
       Same(a, {"context", "bytes_to_process"}) @@
       [out_buffer_type |-> IF a.out = NULL THEN "CLEAR" ELSE a.out.type,
        in_buffer_type  |-> IF a.in = NULL THEN "CLEAR" ELSE a.in.type,
        out_offset      |-> IF a.out = NULL THEN Zero ELSE BufferOffset(a.out),
        in_offset       |-> in_offset],
       <<IF a.out = NULL THEN None ELSE BufferParam("OUT", a.out),
         in_param, tag_param>>)

sa_crypto_cipher_process(a) ==
  IF a.in = NULL THEN Process(a, None, Zero, None)
  ELSE Process(a, BufferParam("IN", a.in), BufferOffset(a.in), None)

\* For input in an SVP buffer the function asks for the type of the output: it
\* reads a structure that is not there, or leaves the input out.
sa_crypto_cipher_process_last(a) ==
  LET tag_missing == a.parameters # NULL /\ a.tag = NULL
      svp_in == a.in # NULL /\ a.in.type = "SVP"
      left_out == svp_in /\ a.out # NULL /\ a.out.type = "CLEAR"
      tag == IF a.parameters = NULL THEN None
             ELSE Param("INOUT", a.tag, a.tag_length)
      request == CASE a.in = NULL -> Process(a, None, Zero, tag)
                   [] left_out ->
                        Process(a, Param("IN", NULL, Unset), Unset, tag)
                   [] OTHER -> Process(a, BufferParam("IN", a.in),
                                       BufferOffset(a.in), tag)
  IN  [rejected |-> request.rejected \/ tag_missing,
       absent   |-> svp_in /\ a.out = NULL] @@ request

sa_crypto_cipher_release(a) ==
  Request("IN", "sa_crypto_cipher_release_s", [cipher_context |-> a.context],
          NoParams)

-----------------------------------------------------------------------------
sa_crypto_mac_init(a) ==
  [refused  |-> a.context = NULL,
   rejected |-> a.mac_algorithm = "HMAC" /\ a.parameters = NULL,
   returns  |-> [context |-> "context"]]
  @@ Request("INOUT", "sa_crypto_mac_init_s",
       Same(a, {"context", "mac_algorithm", "key"}) @@
       [digest_algorithm |->
          IF a.mac_algorithm = "HMAC" THEN a.digest_algorithm ELSE Zero],
       NoParams)

sa_crypto_mac_process(a) ==
  [refused |-> a.in = NULL /\ a.in_length # Zero]
  @@ Request("IN", "sa_crypto_mac_process_s", [mac_context |-> a.context],
             <<OptionalIn(a.in, a.in_length), None, None>>)

sa_crypto_mac_process_key(a) ==
  Request("IN", "sa_crypto_mac_process_key_s",
          [mac_context |-> a.context, key |-> a.key], NoParams)

sa_crypto_mac_release(a) ==
  Request("IN", "sa_crypto_mac_release_s", Same(a, {"context"}), NoParams)

\* What the parameters of the signature algorithms set.
SignFields(a) ==
  CASE a.signature_algorithm = "RSA_PSS" ->
         Same(a, {"salt_length", "digest_algorithm", "mgf1_digest_algorithm",
                  "precomputed_digest"})
    [] a.signature_algorithm \in {"RSA_PKCS1V15", "ECDSA"} ->
         Same(a, {"digest_algorithm", "precomputed_digest"}) @@
         [salt_length |-> Unset, mgf1_digest_algorithm |-> Zero]
    [] OTHER -> [n \in {"salt_length", "digest_algorithm",
                        "mgf1_digest_algorithm", "precomputed_digest"} |-> Zero]

sa_crypto_sign(a) ==
  [refused  |-> a.out_length = NULL \/ (a.in = NULL /\ a.in_length # Zero),
   rejected |-> /\ a.signature_algorithm \in {"RSA_PSS", "RSA_PKCS1V15", "ECDSA"}
                /\ a.parameters = NULL,
   returns  |-> [out_length |-> "out_length"]]
  @@ Request("INOUT", "sa_crypto_sign_s",
       Same(a, {"out_length", "signature_algorithm", "key"}) @@ SignFields(a),
       <<OptionalOut(a.out, a.out_length), OptionalIn(a.in, a.in_length), None>>)

-----------------------------------------------------------------------------
\* The command is allocated with the size of another one, which is larger.
sa_svp_supported(enabled) ==
  [refused |-> ~enabled] @@ Request("IN", "sa_svp_supported_s", <<>>, NoParams)

sa_svp_buffer_create(a) ==
  [refused |-> NULL \in {a.svp_buffer, a.svp_memory},
   returns |-> [svp_buffer |-> "svp_buffer"]]
  @@ Request("INOUT", "sa_svp_buffer_create_s",
             Same(a, {"svp_buffer", "svp_memory", "size"}), NoParams)

sa_svp_buffer_release(a) ==
  [refused |-> NULL \in {a.svp_memory, a.size},
   returns |-> [svp_memory |-> "svp_memory", size |-> "size"]]
  @@ Request("INOUT", "sa_svp_buffer_release_s",
             [svp_buffer |-> a.svp_buffer, svp_memory |-> Unset, size |-> Unset],
             NoParams)

\* offsets is an array; all that is packed of it is its first element, as often
\* as the array has elements.
sa_svp_buffer_write(a) ==
  [refused |-> a.in = NULL \/ a.in_length = Zero \/ a.offsets = NULL,
   extra   |-> TRUE]
  @@ Request("INOUT", "sa_svp_buffer_write_s", Same(a, {"out"}),
       <<In(a.in, a.in_length),
         In(Struct("sa_svp_offset_s",
              [offsets |-> IF a.offsets_length = <<"many">> THEN <<"first">>
                           ELSE a.offsets]),
            Times(a.offsets_length, "sa_svp_offset_s")),
         None>>)

sa_svp_buffer_copy(a) ==
  [refused |-> a.offsets = NULL,
   extra   |-> TRUE]
  @@ Request("INOUT", "sa_svp_buffer_copy_s", Same(a, {"out", "in"}),
       <<In(Struct("sa_svp_offset_s", Same(a, {"offsets"})),
            Times(a.offsets_length, "sa_svp_offset_s")),
         None, None>>)

\* Here a buffer in memory is passed as a whole, with its offset.
sa_svp_key_check(a) ==
  [refused  |-> a.in = NULL \/ a.expected = NULL,
   rejected |-> a.in # NULL /\ a.in.type = "CLEAR" /\ a.in.buffer = NULL,
   returns  |-> [in_offset |-> "in_offset"]]
  @@ (IF a.in = NULL THEN Request("INOUT", "sa_svp_key_check_s", <<>>, NoParams)
      ELSE Request("INOUT", "sa_svp_key_check_s",
             Same(a, {"key", "bytes_to_process"}) @@
             [in_buffer_type |-> a.in.type, in_offset |-> a.in.offset],
             <<IF a.in.type = "CLEAR" THEN In(a.in.buffer, a.in.length)
               ELSE In(a.in.buffer, sizeof("sa_svp_buffer")),
               In(a.expected, a.expected_length), None>>))

sa_svp_buffer_check(a) ==
  [refused |-> a.hash = NULL]
  @@ Request("IN", "sa_svp_buffer_check_s",
       Same(a, {"svp_buffer", "offset", "length", "digest_algorithm"}),
       <<In(a.hash, a.hash_length), None, None>>)

-----------------------------------------------------------------------------
\* One round of the loop of sa_process_common_encryption, for the sample a: a
\* structure for its subsample lengths is allocated and filled; the parameter
\* refers to the lengths of the sample themselves.
sa_process_common_encryption(a) ==
  [refused  |-> a.samples = NULL \/ a.samples_length = Zero,
   rejected |-> \/ NULL \in {a.iv, a.subsample_lengths}
                \/ NULL \in {a.out, a.in}
                \/ a.iv_length # AES_BLOCK_SIZE,
   extra    |-> TRUE,
   late     |-> \E b \in {a.out, a.in} : b # NULL /\ BufferBad(b),
   returns  |-> [out_offset |-> "out_offset", in_offset |-> "in_offset"],
   adds     |-> {n \in {"out", "in"} : a[n] # NULL /\ a[n].type = "CLEAR"}]
  @@ (IF NULL \in {a.out, a.in}
      THEN Request("INOUT", "sa_process_common_encryption_s", <<>>, NoParams)
      ELSE Request("INOUT", "sa_process_common_encryption_s",
             Same(a, {"iv", "crypt_byte_block", "skip_byte_block",
                      "subsample_count", "context"}) @@
             [out_buffer_type |-> a.out.type, in_buffer_type |-> a.in.type,
              out_offset |-> BufferOffset(a.out),
              in_offset  |-> BufferOffset(a.in)],
             <<In(a.subsample_lengths,
                  Times(a.subsample_count, "sa_subsample_length")),
               BufferParam("OUT", a.out), BufferParam("IN", a.in)>>))
=============================================================================
