------------------------------ MODULE Dispatch ------------------------------
(* The dispatcher of the trusted application, one operator per ta_invoke     *)
(* function of ta.c: which requests it accepts, what it gives the handler of *)
(* the command, and which results of the handler it stores in the command.   *)
(*   valid    the types and sizes of the parameters are those of the command *)
(*            (else SA_STATUS_INVALID_PARAMETER)                             *)
(*   present  what the command needs is there (else ..._NULL_PARAMETER)      *)
(*   args     the arguments of the handler                                   *)
(*   stores   the fields that receive results                                *)
(*   copies   memory is allocated for the call of the handler                *)
(* c is the copy of the command, p the other parameters.                     *)
EXTENDS Requests

\* CHECK_NOT_TA_PARAM_NULL, CHECK_NOT_TA_PARAM_IN, CHECK_NOT_TA_PARAM_OUT and
\* CHECK_NOT_TA_PARAM_INOUT.
IsNull(param) == param = None
IsIn(param) == param.type = "IN"
IsOut(param) == param.type = "OUT"
IsInOut(param) == param.type = "INOUT"
InOrNull(param) == IsIn(param) \/ IsNull(param)
OutOrNull(param) == IsOut(param) \/ IsNull(param)
Carries(c, direction, struct) == c.direction = direction /\ c.struct = struct
Filled(param) == param.ref # NULL /\ param.size # Zero
\* It is copied to a structure, and is not longer than that.
Fits(param) == param.size # Oversized

Handler(args, stores) ==
  [valid |-> TRUE, present |-> TRUE, args |-> args, stores |-> stores,
   copies |-> FALSE]

\* The size of an output buffer is also a field of the command.
SizeIs(param, length) == ~IsNull(param) => param.size = length

NoOther(p) == IsNull(p[1]) /\ IsNull(p[2]) /\ IsNull(p[3])

-----------------------------------------------------------------------------
ta_invoke_get_version(c, p) ==
  [valid |-> Carries(c, "INOUT", "sa_get_version_s") /\ NoOther(p)]
  @@ Handler([version |-> c.fields.version], [version |-> "version"])

ta_invoke_get_name(c, p) ==
  [valid |-> /\ Carries(c, "INOUT", "sa_get_name_s")
             /\ OutOrNull(p[1]) /\ IsNull(p[2]) /\ IsNull(p[3])
             /\ SizeIs(p[1], c.fields.name_length)]
  @@ Handler([name |-> p[1].ref, name_length |-> c.fields.name_length],
             [name_length |-> "name_length"])

ta_invoke_get_device_id(c, p) ==
  [valid |-> Carries(c, "INOUT", "sa_get_device_id_s") /\ NoOther(p)]
  @@ Handler([id |-> c.fields.id], [id |-> "id"])

ta_invoke_get_ta_uuid(c, p) ==
  [valid |-> Carries(c, "INOUT", "sa_get_ta_uuid_s") /\ NoOther(p)]
  @@ Handler([uuid |-> c.fields.uuid], [uuid |-> "uuid"])

-----------------------------------------------------------------------------
ta_invoke_key_generate(c, p) ==
  LET type == c.fields.key_type
      length == c.fields.key_length
  IN  [valid   |-> /\ Carries(c, "INOUT", "sa_key_generate_s")
                   /\ InOrNull(p[1]) /\ InOrNull(p[2]) /\ IsNull(p[3]),
       present |-> type = "DH" => NULL \notin {p[1].ref, p[2].ref}]
      @@ Handler(
           Same(c.fields, {"key", "rights", "key_type"})
             @@ CASE type = "SYMMETRIC" -> [key_length |-> length]
                  [] type = "RSA" -> [modulus_length |-> length]
                  [] type = "EC" -> [curve |-> length]
                  [] type = "DH" -> [p |-> p[1].ref, p_length |-> p[1].size,
                                     g |-> p[2].ref, g_length |-> p[2].size]
                  [] OTHER -> <<>>,
           [key |-> "key"])

ta_invoke_key_export(c, p) ==
  [valid |-> /\ Carries(c, "INOUT", "sa_key_export_s")
             /\ OutOrNull(p[1]) /\ InOrNull(p[2]) /\ IsNull(p[3])
             /\ SizeIs(p[1], c.fields.out_length)]
  @@ Handler([out |-> p[1].ref, mixin |-> p[2].ref, mixin_length |-> p[2].size]
               @@ Same(c.fields, {"out_length", "key"}),
             [out_length |-> "out_length"])

ta_invoke_key_import(c, p) ==
  LET format == c.fields.key_format
      rights == {"SYMMETRIC_BYTES", "RSA_PRIVATE_KEY_INFO", "EC_PRIVATE_BYTES"}
  IN  [valid   |-> /\ Carries(c, "INOUT", "sa_key_import_s")
                   /\ IsIn(p[1]) /\ InOrNull(p[2]) /\ IsNull(p[3])
                   /\ format \in rights => p[2].size = sizeof("sa_rights")
                   /\ format = "TYPEJ" =>
                        p[2].size = sizeof("sa_import_parameters_typej")
                   /\ format = "SOC" /\ IsIn(p[2]) => Fits(p[2]),
       present |-> /\ Filled(p[1])
                   /\ format \in rights \cup {"TYPEJ"} =>
                        IsIn(p[2]) /\ p[2].ref # NULL
                   /\ format = "EXPORTED" => IsNull(p[2])
                   /\ format = "SOC" /\ IsIn(p[2]) => Filled(p[2])]
      @@ Handler(
           [in |-> p[1].ref, in_length |-> p[1].size]
             @@ Same(c.fields, {"key", "key_format"})
             @@ CASE format = "EC_PRIVATE_BYTES" ->
                       [rights |-> p[2].ref, curve |-> c.fields.curve]
                  [] format \in rights \ {"EC_PRIVATE_BYTES"} ->
                       [rights |-> p[2].ref]
                  [] format = "SOC" ->
                       [parameters |-> p[2].ref, parameters_length |-> p[2].size]
                  [] format = "TYPEJ" -> [parameters |-> p[2].ref]
                  [] OTHER -> <<>>,
           [key |-> "key"])

ta_invoke_key_provision(c, p) ==
  [valid   |-> /\ Carries(c, "INOUT", "sa_key_provision_ta_s")
               /\ IsIn(p[1]) /\ InOrNull(p[2]) /\ InOrNull(p[3])
               /\ c.fields.key_format = "PROVISION_TA"
               /\ IsIn(p[2]) => Fits(p[2]),
   present |-> /\ Filled(p[1])
               /\ IsIn(p[2]) => Filled(p[2])
               /\ IsIn(p[3]) => Filled(p[3])]
  @@ Handler([in |-> p[1].ref, in_length |-> p[1].size,
              parameters |-> p[2].ref, parameters_length |-> p[2].size,
              ta_key_type |-> p[3].ref],
             <<>>)

-----------------------------------------------------------------------------
\* Mutant: the structure expected for one algorithm is that of another.
UnwrapStructOf_Swapped(algorithm) ==
  CASE algorithm \in {"AES_CBC", "AES_CBC_PKCS7", "AES_CTR"} ->
         "sa_unwrap_parameters_aes_iv_s"
    [] algorithm \in {"AES_GCM", "CHACHA20_POLY1305"} ->
         "sa_unwrap_parameters_aes_gcm_s"
    [] algorithm = "CHACHA20" -> "sa_unwrap_parameters_chacha20_s"
    [] algorithm = "EC_ELGAMAL" -> "sa_unwrap_parameters_ec_elgamal_s"
    [] algorithm = "RSA_OAEP" -> "sa_unwrap_parameters_rsa_oaep_s"
    [] OTHER -> "none"

\* The size of the structure that comes with a cipher algorithm.
UnwrapStructOf(algorithm) ==
  CASE algorithm \in {"AES_CBC", "AES_CBC_PKCS7", "AES_CTR"} ->
         "sa_unwrap_parameters_aes_iv_s"
    [] algorithm = "AES_GCM" -> "sa_unwrap_parameters_aes_gcm_s"
    [] algorithm = "CHACHA20" -> "sa_unwrap_parameters_chacha20_s"
    [] algorithm = "CHACHA20_POLY1305" ->
         "sa_unwrap_parameters_chacha20_poly1305_s"
    [] algorithm = "EC_ELGAMAL" -> "sa_unwrap_parameters_ec_elgamal_s"
    [] algorithm = "RSA_OAEP" -> "sa_unwrap_parameters_rsa_oaep_s"
    [] OTHER -> "none"

\* The parameters of the algorithm as the handler gets them.
UnwrapParameters(algorithm, p) ==
  CASE algorithm \in {"AES_CBC", "AES_CBC_PKCS7"} ->
         [iv |-> Read(p[2], "iv"), iv_length |-> AES_BLOCK_SIZE]
    [] algorithm = "AES_CTR" ->
         [ctr |-> Read(p[2], "iv"), ctr_length |-> AES_BLOCK_SIZE]
    [] algorithm = "AES_GCM" ->
         [n \in {"iv", "iv_length", "tag", "tag_length"} |-> Read(p[2], n)]
           @@ [aad |-> p[3].ref, aad_length |-> p[3].size]
    [] algorithm = "CHACHA20" ->
         [n \in {"counter", "counter_length", "nonce", "nonce_length"} |->
            Read(p[2], n)]
    [] algorithm = "CHACHA20_POLY1305" ->
         [n \in {"nonce", "nonce_length", "tag", "tag_length"} |-> Read(p[2], n)]
           @@ [aad |-> p[3].ref, aad_length |-> p[3].size]
    [] algorithm = "EC_ELGAMAL" ->
         [n \in {"key_length", "offset"} |-> Read(p[2], n)]
    [] algorithm = "RSA_OAEP" ->
         [n \in {"digest_algorithm", "mgf1_digest_algorithm"} |-> Read(p[2], n)]
           @@ [label |-> p[3].ref, label_length |-> p[3].size]
    [] OTHER -> <<>>

ta_invoke_key_unwrap(c, p) ==
  LET algorithm == c.fields.cipher_algorithm
      struct == UnwrapStructOf(algorithm)
  IN  [valid   |-> /\ Carries(c, "INOUT", "sa_key_unwrap_s")
                   /\ \A i \in 1 .. 3 : InOrNull(p[i])
                   /\ struct # "none" => p[2].size = sizeof(struct),
       present |-> /\ struct # "none" => p[2].ref # NULL
                   /\ algorithm \in {"AES_GCM", "CHACHA20_POLY1305"} =>
                        p[3].ref # NULL]
      @@ Handler(
           [in |-> p[1].ref, in_length |-> p[1].size]
             @@ Same(c.fields, {"key", "rights", "key_type",
                                "cipher_algorithm", "wrapping_key"})
             @@ (IF c.fields.key_type = "EC" THEN [curve |-> c.fields.curve]
                 ELSE <<>>)
             @@ UnwrapParameters(algorithm, p),
           [key |-> "key"])

-----------------------------------------------------------------------------
ta_invoke_key_get_public(c, p) ==
  [valid |-> /\ Carries(c, "INOUT", "sa_key_get_public_s")
             /\ OutOrNull(p[1]) /\ IsNull(p[2]) /\ IsNull(p[3])
             /\ SizeIs(p[1], c.fields.out_length)]
  @@ Handler([out |-> p[1].ref] @@ Same(c.fields, {"out_length", "key"}),
             [out_length |-> "out_length"])

ta_invoke_key_digest(c, p) ==
  [valid |-> /\ Carries(c, "INOUT", "sa_key_digest_s")
             /\ OutOrNull(p[1]) /\ IsNull(p[2]) /\ IsNull(p[3])
             /\ SizeIs(p[1], c.fields.out_length)]
  @@ Handler([out |-> p[1].ref] @@
               Same(c.fields, {"out_length", "key", "digest_algorithm"}),
             [out_length |-> "out_length"])

ta_invoke_crypto_mac_compute(c, p) ==
  [valid |-> /\ Carries(c, "INOUT", "sa_crypto_mac_compute_s")
             /\ OutOrNull(p[1]) /\ IsNull(p[2]) /\ IsNull(p[3])
             /\ SizeIs(p[1], c.fields.out_length)]
  @@ Handler([out |-> p[1].ref] @@ Same(c.fields, {"out_length", "context"}),
             [out_length |-> "out_length"])

KdfStructOf(algorithm) ==
  CASE algorithm \in {"ROOT_KEY_LADDER", "COMMON_ROOT_KEY_LADDER"} ->
         "sa_kdf_parameters_root_key_ladder_s"
    [] algorithm = "HKDF" -> "sa_kdf_parameters_hkdf_s"
    [] algorithm = "CONCAT" -> "sa_kdf_parameters_concat_s"
    [] algorithm = "ANSI_X963" -> "sa_kdf_parameters_ansi_x963_s"
    [] algorithm = "CMAC" -> "sa_kdf_parameters_cmac_s"
    [] algorithm = "NETFLIX" -> "sa_kdf_parameters_netflix"
    [] OTHER -> "none"

KdfParameters(algorithm, p) ==
  CASE algorithm \in {"ROOT_KEY_LADDER", "COMMON_ROOT_KEY_LADDER"} ->
         [n \in {"c1", "c2", "c3", "c4"} |-> Read(p[1], n)] @@
         [n \in {"c1_length", "c2_length", "c3_length", "c4_length"} |->
            AES_BLOCK_SIZE]
    [] algorithm = "HKDF" ->
         [n \in {"key_length", "digest_algorithm", "parent"} |-> Read(p[1], n)]
           @@ [salt |-> p[3].ref, salt_length |-> p[3].size,
               info |-> p[2].ref, info_length |-> p[2].size]
    [] algorithm \in {"CONCAT", "ANSI_X963"} ->
         [n \in {"key_length", "digest_algorithm", "parent"} |-> Read(p[1], n)]
           @@ [info |-> p[2].ref, info_length |-> p[2].size]
    [] algorithm = "CMAC" ->
         [n \in {"key_length", "counter", "parent"} |-> Read(p[1], n)] @@
         [other_data |-> p[2].ref, other_data_length |-> p[2].size]
    [] algorithm = "NETFLIX" -> [n \in {"kenc", "khmac"} |-> Read(p[1], n)]
    [] OTHER -> <<>>

\* A smaller structure would be accepted too; the client sends none.
ta_invoke_key_derive(c, p) ==
  LET algorithm == c.fields.kdf_algorithm
      struct == KdfStructOf(algorithm)
  IN  [valid   |-> /\ Carries(c, "INOUT", "sa_key_derive_s")
                   /\ \A i \in 1 .. 3 : InOrNull(p[i])
                   /\ struct # "none"
                   /\ p[1].size = sizeof(struct),
       present |-> p[1].ref # NULL]
      @@ Handler(Same(c.fields, {"key", "rights", "kdf_algorithm"}) @@
                   KdfParameters(algorithm, p),
                 [key |-> "key"])

\* The parameters of the Netflix exchange are copied back whole, whatever the
\* handler answers.
ta_invoke_key_exchange(c, p) ==
  LET netflix == c.fields.key_exchange_algorithm = "NETFLIX_AUTHENTICATED_DH"
      names == {"in_kw", "out_ke", "rights_ke", "out_kh", "rights_kh"}
  IN  [valid   |-> /\ Carries(c, "INOUT", "sa_key_exchange_s")
                   /\ IsIn(p[1]) /\ (IsInOut(p[2]) \/ IsNull(p[2])) /\ IsNull(p[3])
                   /\ netflix => p[2].size = sizeof(
                        "sa_key_exchange_parameters_netflix_authenticated_dh_s"),
       present |-> Filled(p[1]) /\ (netflix => p[2].ref # NULL)]
      @@ Handler(
           [other_public |-> p[1].ref, other_public_length |-> p[1].size]
             @@ Same(c.fields,
                     {"key", "rights", "key_exchange_algorithm", "private_key"})
             @@ (IF netflix THEN [n \in names |-> Read(p[2], n)] ELSE <<>>),
           [key |-> "key"] @@
             (IF netflix THEN [out_ke |-> "out_ke", out_kh |-> "out_kh"]
              ELSE <<>>))

ta_invoke_key_release(c, p) ==
  [valid |-> Carries(c, "IN", "sa_key_release_s") /\ NoOther(p)]
  @@ Handler([key |-> c.fields.key], <<>>)

\* The header is made on the stack and copied to the parameter.
ta_invoke_key_header(c, p) ==
  [valid |-> /\ Carries(c, "INOUT", "sa_key_header_s")
             /\ IsOut(p[1]) /\ p[1].size = sizeof("sa_header_s")
             /\ IsNull(p[2]) /\ IsNull(p[3])]
  @@ Handler([key |-> c.fields.key], [header |-> "header"])

-----------------------------------------------------------------------------
ta_invoke_crypto_random(c, p) ==
  [valid   |-> /\ Carries(c, "IN", "sa_crypto_random_s")
               /\ IsOut(p[1]) /\ IsNull(p[2]) /\ IsNull(p[3]),
   present |-> Filled(p[1])]
  @@ Handler([out |-> p[1].ref, length |-> p[1].size], <<>>)

ta_invoke_crypto_cipher_init(c, p) ==
  LET algorithm == c.fields.cipher_algorithm
      needs_first == {"AES_CBC", "AES_CBC_PKCS7", "AES_CTR", "AES_GCM",
                      "CHACHA20", "CHACHA20_POLY1305", "RSA_OAEP"}
  IN  [valid   |-> /\ Carries(c, "INOUT", "sa_crypto_cipher_init_s")
                   /\ \A i \in 1 .. 3 : InOrNull(p[i])
                   /\ algorithm = "RSA_OAEP" =>
                        p[1].size = sizeof("sa_cipher_parameters_rsa_oaep_s"),
       present |-> /\ algorithm \in needs_first => p[1].ref # NULL
                   /\ algorithm = "CHACHA20" => p[2].ref # NULL]
      @@ Handler(
           Same(c.fields, {"context", "cipher_algorithm", "cipher_mode", "key"})
             @@ CASE algorithm \in {"AES_CBC", "AES_CBC_PKCS7"} ->
                       [iv |-> p[1].ref, iv_length |-> p[1].size]
                  [] algorithm = "AES_CTR" ->
                       [ctr |-> p[1].ref, ctr_length |-> p[1].size]
                  [] algorithm = "AES_GCM" ->
                       [iv |-> p[1].ref, iv_length |-> p[1].size,
                        aad |-> p[2].ref, aad_length |-> p[2].size]
                  [] algorithm = "CHACHA20" ->
                       [nonce |-> p[1].ref, nonce_length |-> p[1].size,
                        counter |-> p[2].ref, counter_length |-> p[2].size]
                  [] algorithm = "CHACHA20_POLY1305" ->
                       [nonce |-> p[1].ref, nonce_length |-> p[1].size,
                        aad |-> p[2].ref, aad_length |-> p[2].size]
                  [] algorithm = "RSA_OAEP" ->
                       [n \in {"digest_algorithm", "mgf1_digest_algorithm"} |->
                          Read(p[1], n)] @@
                       [label |-> p[2].ref, label_length |-> p[2].size]
                  [] OTHER -> <<>>,
           [context |-> "context"])

ta_invoke_crypto_cipher_update_iv(c, p) ==
  [valid   |-> /\ Carries(c, "IN", "sa_crypto_cipher_update_iv_s")
               /\ IsIn(p[1]) /\ IsNull(p[2]) /\ IsNull(p[3]),
   present |-> Filled(p[1])]
  @@ Handler([iv |-> p[1].ref, iv_length |-> p[1].size,
              context |-> c.fields.context], <<>>)

\* params[1] is refused if it is an INOUT parameter with a reference, and
\* accepted whatever else it is.
ta_invoke_crypto_cipher_process(last, c, p) ==
  [valid   |-> /\ Carries(c, "INOUT", "sa_crypto_cipher_process_s")
               /\ ~(IsInOut(p[1]) /\ ~IsNull(p[1]))
               /\ IsIn(p[2])
               /\ IsInOut(p[3]) \/ IsNull(p[3]),
   present |-> p[2].ref # NULL]
  @@ Handler(
       Same(c.fields, {"context", "bytes_to_process"}) @@
       [out |-> IF p[1].ref = NULL THEN NULL
                ELSE BufferOf(c.fields.out_buffer_type, p[1],
                              c.fields.out_offset),
        in  |-> BufferOf(c.fields.in_buffer_type, p[2], c.fields.in_offset)] @@
       (IF last /\ p[3].ref # NULL
        THEN [tag |-> p[3].ref, tag_length |-> p[3].size] ELSE <<>>),
       [bytes_to_process |-> "bytes_to_process", in_offset |-> "in_offset"] @@
       (IF p[1].ref = NULL THEN <<>> ELSE [out_offset |-> "out_offset"]))

ta_invoke_crypto_cipher_release(c, p) ==
  [valid |-> Carries(c, "IN", "sa_crypto_cipher_release_s") /\ NoOther(p)]
  @@ Handler([context |-> c.fields.cipher_context], <<>>)

-----------------------------------------------------------------------------
ta_invoke_crypto_mac_init(c, p) ==
  [valid |-> Carries(c, "INOUT", "sa_crypto_mac_init_s") /\ NoOther(p)]
  @@ Handler(Same(c.fields, {"context", "mac_algorithm", "key"}) @@
               (IF c.fields.mac_algorithm = "HMAC"
                THEN Same(c.fields, {"digest_algorithm"}) ELSE <<>>),
             [context |-> "context"])

ta_invoke_crypto_mac_process(c, p) ==
  [valid |-> /\ Carries(c, "IN", "sa_crypto_mac_process_s")
             /\ InOrNull(p[1]) /\ IsNull(p[2]) /\ IsNull(p[3])]
  @@ Handler([context |-> c.fields.mac_context, in |-> p[1].ref,
              in_length |-> p[1].size], <<>>)

ta_invoke_crypto_mac_process_key(c, p) ==
  [valid |-> Carries(c, "IN", "sa_crypto_mac_process_key_s") /\ NoOther(p)]
  @@ Handler([context |-> c.fields.mac_context, key |-> c.fields.key], <<>>)

ta_invoke_crypto_mac_release(c, p) ==
  [valid |-> Carries(c, "IN", "sa_crypto_mac_release_s") /\ NoOther(p)]
  @@ Handler([context |-> c.fields.context], <<>>)

ta_invoke_crypto_sign(c, p) ==
  LET algorithm == c.fields.signature_algorithm
  IN  [valid |-> /\ Carries(c, "INOUT", "sa_crypto_sign_s")
                 /\ OutOrNull(p[1]) /\ InOrNull(p[2]) /\ IsNull(p[3])
                 /\ SizeIs(p[1], c.fields.out_length)]
      @@ Handler(
           [out |-> p[1].ref, in |-> p[2].ref, in_length |-> p[2].size]
             @@ Same(c.fields, {"out_length", "signature_algorithm", "key"})
             @@ CASE algorithm = "RSA_PSS" ->
                       Same(c.fields, {"digest_algorithm", "precomputed_digest",
                                       "mgf1_digest_algorithm", "salt_length"})
                  [] algorithm \in {"RSA_PKCS1V15", "ECDSA"} ->
                       Same(c.fields, {"digest_algorithm", "precomputed_digest"})
                  [] OTHER -> <<>>,
           [out_length |-> "out_length"])

-----------------------------------------------------------------------------
ta_invoke_svp_supported(c, p) ==
  [valid |-> Carries(c, "IN", "sa_svp_supported_s") /\ NoOther(p)]
  @@ Handler(<<>>, <<>>)

ta_invoke_svp_buffer_create(c, p) ==
  [valid |-> Carries(c, "INOUT", "sa_svp_buffer_create_s") /\ NoOther(p)]
  @@ Handler(Same(c.fields, {"svp_buffer", "svp_memory", "size"}),
             [svp_buffer |-> "svp_buffer"])

ta_invoke_svp_buffer_release(c, p) ==
  [valid |-> Carries(c, "INOUT", "sa_svp_buffer_release_s") /\ NoOther(p)]
  @@ Handler([svp_buffer |-> c.fields.svp_buffer],
             [svp_memory |-> "svp_memory", size |-> "size"])

ta_invoke_svp_buffer_write(c, p) ==
  [valid   |-> /\ Carries(c, "INOUT", "sa_svp_buffer_write_s")
               /\ IsIn(p[1]) /\ IsIn(p[2]) /\ IsNull(p[3]),
   present |-> Filled(p[1]) /\ Filled(p[2]),
   copies  |-> TRUE]
  @@ Handler([out |-> c.fields.out, in |-> p[1].ref, in_length |-> p[1].size,
              offsets |-> Read(p[2], "offsets"), offsets_length |-> Count(p[2].size)],
             <<>>)

ta_invoke_svp_buffer_copy(c, p) ==
  [valid   |-> /\ Carries(c, "INOUT", "sa_svp_buffer_copy_s")
               /\ IsIn(p[1]) /\ IsNull(p[2]) /\ IsNull(p[3]),
   present |-> Filled(p[1]),
   copies  |-> TRUE]
  @@ Handler([out |-> c.fields.out, in |-> c.fields.in,
              offsets |-> Read(p[1], "offsets"), offsets_length |-> Count(p[1].size)],
             <<>>)

\* The offset returned is that of a buffer in memory, whatever the buffer is. It
\* is assigned through in_buffer_type, of 32 bits: one below 4 GiB, the offsets
\* that the model has, arrives as it is.
ta_invoke_svp_key_check(c, p) ==
  [valid   |-> /\ Carries(c, "INOUT", "sa_svp_key_check_s")
               /\ IsIn(p[1]) /\ IsIn(p[2]) /\ IsNull(p[3]),
   present |-> Filled(p[1]) /\ Filled(p[2])]
  @@ Handler(Same(c.fields, {"key", "bytes_to_process"}) @@
               [in |-> BufferOf(c.fields.in_buffer_type, p[1],
                                c.fields.in_offset),
                expected |-> p[2].ref, expected_length |-> p[2].size],
             [in_offset |-> IF c.fields.in_buffer_type = "CLEAR"
                            THEN "in_offset" ELSE "unset"])

ta_invoke_svp_buffer_check(c, p) ==
  [valid   |-> /\ Carries(c, "IN", "sa_svp_buffer_check_s")
               /\ IsIn(p[1]) /\ IsNull(p[2]) /\ IsNull(p[3]),
   present |-> Filled(p[1])]
  @@ Handler(Same(c.fields, {"svp_buffer", "offset", "length",
                             "digest_algorithm"}) @@
               [hash |-> p[1].ref, hash_length |-> p[1].size],
             <<>>)

\* A build without SVP returns from the loop, without freeing the array, when the
\* output is an SVP buffer. That is left out: the client library of such a build
\* sends no request with one.
ta_invoke_process_common_encryption(c, p) ==
  [valid   |-> /\ Carries(c, "INOUT", "sa_process_common_encryption_s")
               /\ IsIn(p[1]) /\ (IsIn(p[2]) \/ IsOut(p[2])) /\ IsIn(p[3])
               /\ \A i \in 1 .. 3 : p[i].size # Zero
               /\ p[1].size =
                    Times(c.fields.subsample_count, "sa_subsample_length"),
   present |-> \A i \in 1 .. 3 : p[i].ref # NULL,
   copies  |-> TRUE]
  @@ Handler(
       Same(c.fields, {"iv", "crypt_byte_block", "skip_byte_block",
                       "subsample_count", "context"}) @@
       [iv_length |-> AES_BLOCK_SIZE, subsample_lengths |-> p[1].ref,
        out |-> BufferOf(c.fields.out_buffer_type, p[2], c.fields.out_offset),
        in  |-> BufferOf(c.fields.in_buffer_type, p[3], c.fields.in_offset)],
       [out_offset |-> "out_offset", in_offset |-> "in_offset"])
=============================================================================
