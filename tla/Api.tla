-------------------------------- MODULE Api --------------------------------
(* The calls of the interface (sa.h, sa_key.h, sa_crypto.h, sa_svp.h,        *)
(* sa_cenc.h): each function with its arguments, and the fields of the       *)
(* structures they point to, in every combination of pointers that are NULL  *)
(* or not, lengths that are zero, right, or wrong where the interface fixes  *)
(* them, offsets that are zero, inside their buffer or past its end, and the *)
(* algorithms, formats and types of buffers that make a difference.          *)
EXTENDS Requests

Given(n) == {<<n>>}
Pointer(n) == {<<n>>, NULL}
Length(n) == {<<n>>, Zero}
\* A pointer to a length.
InOutLength(n) == {<<n>>, Zero, NULL}
Exactly(length) == {length, Zero}

Both(A, B) == {a @@ b : a \in A, b \in B}

\* A structure with more arguments, which do not matter if it is NULL.
Structure(n, fields) ==
  {(n :> s.pointer) @@ s.fields :
     s \in {s \in [pointer : Pointer(n), fields : fields] :
            s.pointer = NULL => s.fields = CHOOSE f \in fields : TRUE}}

Clear(n) ==
  {b \in [type : {"CLEAR"}, buffer : Pointer(n), length : Length("length"),
          offset : {Zero, <<"offset">>, Beyond}] :
     b.length = Zero => b.offset # <<"offset">>}
Svp(n) ==
  [type : {"SVP"}, buffer : Given(n), length : {sizeof("sa_svp_buffer")},
   offset : Length("offset")]
Buffers(n, svp) == Clear(n) \cup (IF svp THEN Svp(n) ELSE {})

-----------------------------------------------------------------------------
GetVersion == [version : Pointer("version")]
GetTaUuid == [uuid : Pointer("uuid")]
GetDeviceId == [id : Pointer("id")]
GetName == [name : Pointer("name"), name_length : InOutLength("name_length")]

\* The parameters of each type of key.
sa_generate_parameters_symmetric == [key_length : Given("key_length")]
sa_generate_parameters_rsa == [modulus_length : Given("modulus_length")]
sa_generate_parameters_ec == [curve : Given("curve")]
sa_generate_parameters_dh ==
  [p : Pointer("p"), p_length : Length("p_length"),
   g : Pointer("g"), g_length : Length("g_length")]

sa_generate_parameters ==
  Both([key_type : {"SYMMETRIC"}],
       Structure("parameters", sa_generate_parameters_symmetric))
  \cup
  Both([key_type : {"RSA"}],
       Structure("parameters", sa_generate_parameters_rsa))
  \cup
  Both([key_type : {"EC"}], Structure("parameters", sa_generate_parameters_ec))
  \cup
  Both([key_type : {"DH"}], Structure("parameters", sa_generate_parameters_dh))
  \cup [key_type : {"UNKNOWN"}, parameters : Pointer("parameters")]

KeyGenerate ==
  Both([key : Pointer("key"), rights : Pointer("rights")],
       sa_generate_parameters)

KeyExport ==
  [out : Pointer("out"), out_length : InOutLength("out_length"),
   mixin : Pointer("mixin"), mixin_length : Length("mixin_length"),
   key : Given("key")]

\* The parameters of each format.  The length of those of a SoC key is in the
\* parameters themselves, in two bytes that may say any number.
LengthInside == Length("parameters_length") \cup {Oversized}

sa_import_parameters_symmetric == [rights : Pointer("rights")]
sa_import_parameters_ec_private_bytes ==
  [rights : Pointer("rights"), curve : Given("curve")]

sa_import_parameters ==
  Both([key_format : {"SYMMETRIC_BYTES", "RSA_PRIVATE_KEY_INFO"}],
       Structure("parameters", sa_import_parameters_symmetric))
  \cup
  Both([key_format : {"EC_PRIVATE_BYTES"}],
       Structure("parameters", sa_import_parameters_ec_private_bytes))
  \cup [key_format : {"EXPORTED", "UNKNOWN"}]
  \cup [key_format : {"TYPEJ"}, parameters : Pointer("parameters")]
  \cup
  [key_format : {"SOC"}, parameters : Given("parameters"),
   parameters_length : LengthInside]
  \cup
  [key_format : {"SOC"}, parameters : {NULL}, parameters_length : {Zero}]

KeyImport ==
  Both([key : Pointer("key"), in : Pointer("in"), in_length : Length("in_length")],
       sa_import_parameters)

\* The objects that are provisioned.
WidevineOemProvisioning ==
  [in_length : Length("in_length"),
   private_key : Pointer("private_key"),
   private_key_length : Length("private_key_length"),
   certificate : Pointer("certificate"),
   certificate_length : Length("certificate_length")]
PlayReadyProvisioning == WidevineOemProvisioning
NetflixProvisioning ==
  [in_length : Given("in_length"),
   encryption_key : Pointer("encryption_key"),
   encryption_key_length : Length("encryption_key_length"),
   hmac_key : Pointer("hmac_key"),
   hmac_key_length : Length("hmac_key_length"),
   wrapping_key : Pointer("wrapping_key"),
   wrapping_key_length : Length("wrapping_key_length"),
   esn_container : Pointer("esn_container"),
   esn_container_length : Length("esn_container_length")]
OtherProvisioning == [in_length : Length("in_length")]
Provisioning ==
  Both([ta_key_type : {"WIDEVINE_OEM"}],
       Structure("in", WidevineOemProvisioning))
  \cup
  Both([ta_key_type : {"PLAYREADY_MODEL"}],
       Structure("in", PlayReadyProvisioning))
  \cup
  Both([ta_key_type : {"NETFLIX"}], Structure("in", NetflixProvisioning))
  \cup
  Both([ta_key_type : {"APPLE", "UNKNOWN"}], Structure("in", OtherProvisioning))

ProvisioningParameters == [parameters_length : LengthInside]
KeyProvision ==
  Both(Structure("parameters", ProvisioningParameters), Provisioning)

\* The parameters of each algorithm that wraps keys.
sa_unwrap_parameters_aes_cbc ==
  [iv : Pointer("iv"), iv_length : Exactly(AES_BLOCK_SIZE)]
sa_unwrap_parameters_aes_ctr ==
  [ctr : Pointer("ctr"), ctr_length : Exactly(AES_BLOCK_SIZE)]
sa_unwrap_parameters_aes_gcm ==
  [iv : Pointer("iv"), iv_length : Exactly(GCM_IV_LENGTH),
   aad : Pointer("aad"), aad_length : Length("aad_length"),
   tag : Pointer("tag"), tag_length : {AES_BLOCK_SIZE, Zero, TooLong}]
sa_unwrap_parameters_chacha20 ==
  [counter : Pointer("counter"),
   counter_length : Exactly(CHACHA20_COUNTER_LENGTH),
   nonce : Pointer("nonce"), nonce_length : Exactly(CHACHA20_NONCE_LENGTH)]
sa_unwrap_parameters_chacha20_poly1305 ==
  [nonce : Pointer("nonce"), nonce_length : Exactly(CHACHA20_NONCE_LENGTH),
   aad : Pointer("aad"), aad_length : Length("aad_length"),
   tag : Pointer("tag"), tag_length : Exactly(AES_BLOCK_SIZE)]
sa_unwrap_parameters_rsa_oaep ==
  [digest_algorithm : Given("digest_algorithm"),
   mgf1_digest_algorithm : Given("mgf1_digest_algorithm"),
   label : Pointer("label"), label_length : Length("label_length")]
sa_unwrap_parameters_ec_elgamal ==
  [key_length : Given("key_length"), offset : Given("offset")]

sa_unwrap_parameters ==
  [cipher_algorithm : {"AES_ECB", "RSA_PKCS1V15", "UNKNOWN"}]
  \cup
  Both([cipher_algorithm : {"AES_CBC", "AES_CBC_PKCS7"}],
       Structure("algorithm_parameters", sa_unwrap_parameters_aes_cbc))
  \cup
  Both([cipher_algorithm : {"AES_CTR"}],
       Structure("algorithm_parameters", sa_unwrap_parameters_aes_ctr))
  \cup
  Both([cipher_algorithm : {"AES_GCM"}],
       Structure("algorithm_parameters", sa_unwrap_parameters_aes_gcm))
  \cup
  Both([cipher_algorithm : {"CHACHA20"}],
       Structure("algorithm_parameters", sa_unwrap_parameters_chacha20))
  \cup
  Both([cipher_algorithm : {"CHACHA20_POLY1305"}],
       Structure("algorithm_parameters", sa_unwrap_parameters_chacha20_poly1305))
  \cup
  Both([cipher_algorithm : {"EC_ELGAMAL"}],
       Structure("algorithm_parameters", sa_unwrap_parameters_ec_elgamal))
  \cup
  Both([cipher_algorithm : {"RSA_OAEP"}],
       Structure("algorithm_parameters", sa_unwrap_parameters_rsa_oaep))

\* The parameters of each type of key that is unwrapped.
sa_unwrap_type_parameters_ec == [curve : Given("curve")]
sa_type_parameters ==
  [key_type : {"SYMMETRIC"}]
  \cup
  Both([key_type : {"EC"}],
       Structure("type_parameters", sa_unwrap_type_parameters_ec))

KeyUnwrap ==
  Both([key : Pointer("key"), rights : Pointer("rights"),
        wrapping_key : Given("wrapping_key"),
        in : Pointer("in"), in_length : Length("in_length")],
       Both(sa_type_parameters, sa_unwrap_parameters))

KeyGetPublic ==
  [out : Pointer("out"), out_length : InOutLength("out_length"),
   key : Given("key")]

\* The parameters of each derivation.
sa_kdf_parameters_root_key_ladder ==
  [c1 : Pointer("c1"), c1_length : Exactly(AES_BLOCK_SIZE),
   c2 : Pointer("c2"), c2_length : Exactly(AES_BLOCK_SIZE),
   c3 : Pointer("c3"), c3_length : Exactly(AES_BLOCK_SIZE),
   c4 : Pointer("c4"), c4_length : Exactly(AES_BLOCK_SIZE)]
sa_kdf_parameters_hkdf ==
  [key_length : Given("key_length"),
   digest_algorithm : Given("digest_algorithm"), parent : Given("parent"),
   salt : Pointer("salt"), salt_length : Length("salt_length"),
   info : Pointer("info"), info_length : Length("info_length")]
sa_kdf_parameters_concat ==
  [key_length : Given("key_length"),
   digest_algorithm : Given("digest_algorithm"), parent : Given("parent"),
   info : Pointer("info"), info_length : Length("info_length")]
sa_kdf_parameters_ansi_x963 == sa_kdf_parameters_concat
sa_kdf_parameters_cmac ==
  [key_length : Given("key_length"), parent : Given("parent"),
   other_data : Pointer("other_data"),
   other_data_length : Length("other_data_length"),
   counter : Given("counter")]
sa_kdf_parameters_netflix == [kenc : Given("kenc"), khmac : Given("khmac")]

sa_kdf_parameters ==
  Both([kdf_algorithm : {"ROOT_KEY_LADDER", "COMMON_ROOT_KEY_LADDER"}],
       Structure("parameters", sa_kdf_parameters_root_key_ladder))
  \cup
  Both([kdf_algorithm : {"HKDF"}],
       Structure("parameters", sa_kdf_parameters_hkdf))
  \cup
  Both([kdf_algorithm : {"CONCAT"}],
       Structure("parameters", sa_kdf_parameters_concat))
  \cup
  Both([kdf_algorithm : {"ANSI_X963"}],
       Structure("parameters", sa_kdf_parameters_ansi_x963))
  \cup
  Both([kdf_algorithm : {"CMAC"}],
       Structure("parameters", sa_kdf_parameters_cmac))
  \cup
  Both([kdf_algorithm : {"NETFLIX"}],
       Structure("parameters", sa_kdf_parameters_netflix))
  \cup [kdf_algorithm : {"UNKNOWN"}]

KeyDerive ==
  Both([key : Pointer("key"), rights : Pointer("rights")],
       sa_kdf_parameters)

\* The parameters of each exchange.
sa_key_exchange_parameters_netflix_authenticated_dh ==
  [in_kw : Given("in_kw"), out_ke : Pointer("out_ke"),
   rights_ke : Pointer("rights_ke"), out_kh : Pointer("out_kh"),
   rights_kh : Pointer("rights_kh")]
sa_key_exchange_parameters ==
  [key_exchange_algorithm : {"ECDH"}]
  \cup
  Both([key_exchange_algorithm : {"NETFLIX_AUTHENTICATED_DH"}],
       Structure("parameters",
                 sa_key_exchange_parameters_netflix_authenticated_dh))

KeyExchange ==
  Both([key : Pointer("key"), rights : Pointer("rights"),
        private_key : Given("private_key"),
        other_public : Pointer("other_public"),
        other_public_length : Length("other_public_length")],
       sa_key_exchange_parameters)

KeyRelease == [key : Given("key")]
KeyHeader == [header : Pointer("header"), key : Given("key")]
KeyDigest ==
  [out : Pointer("out"), out_length : InOutLength("out_length"),
   key : Given("key"), digest_algorithm : Given("digest_algorithm")]

-----------------------------------------------------------------------------
CryptoRandom == [out : Pointer("out"), length : Length("length")]

\* The parameters of each cipher algorithm.
sa_cipher_parameters_aes_cbc ==
  [iv : Pointer("iv"), iv_length : Length("iv_length")]
sa_cipher_parameters_aes_ctr ==
  [ctr : Pointer("ctr"), ctr_length : Length("ctr_length")]
sa_cipher_parameters_aes_gcm ==
  [iv : Pointer("iv"), iv_length : Length("iv_length"),
   aad : Pointer("aad"), aad_length : Length("aad_length")]
sa_cipher_parameters_chacha20 ==
  [counter : Pointer("counter"), counter_length : Length("counter_length"),
   nonce : Pointer("nonce"), nonce_length : Length("nonce_length")]
sa_cipher_parameters_chacha20_poly1305 ==
  [nonce : Pointer("nonce"), nonce_length : Length("nonce_length"),
   aad : Pointer("aad"), aad_length : Length("aad_length")]
sa_cipher_parameters_rsa_oaep ==
  [digest_algorithm : Given("digest_algorithm"),
   mgf1_digest_algorithm : Given("mgf1_digest_algorithm"),
   label : Pointer("label"), label_length : Length("label_length")]

sa_cipher_parameters ==
  [cipher_algorithm : {"AES_ECB", "EC_ELGAMAL", "UNKNOWN"}]
  \cup
  Both([cipher_algorithm : {"AES_CBC", "AES_CBC_PKCS7"}],
       Structure("parameters", sa_cipher_parameters_aes_cbc))
  \cup
  Both([cipher_algorithm : {"AES_CTR"}],
       Structure("parameters", sa_cipher_parameters_aes_ctr))
  \cup
  Both([cipher_algorithm : {"AES_GCM"}],
       Structure("parameters", sa_cipher_parameters_aes_gcm))
  \cup
  Both([cipher_algorithm : {"CHACHA20"}],
       Structure("parameters", sa_cipher_parameters_chacha20))
  \cup
  Both([cipher_algorithm : {"CHACHA20_POLY1305"}],
       Structure("parameters", sa_cipher_parameters_chacha20_poly1305))
  \cup
  Both([cipher_algorithm : {"RSA_OAEP"}],
       Structure("parameters", sa_cipher_parameters_rsa_oaep))

CipherInit ==
  Both([context : Pointer("context"), key : Given("key"),
        cipher_mode : Given("cipher_mode")],
       sa_cipher_parameters)

CipherUpdateIv ==
  [context : Given("context"), iv : Pointer("iv"),
   iv_length : Length("iv_length")]

CipherProcess(svp) ==
  [out : Buffers("out", svp) \cup {NULL}, context : Given("context"),
   in : Buffers("in", svp) \cup {NULL},
   bytes_to_process : InOutLength("bytes_to_process")]

\* Only the algorithms with a tag have parameters at the end.
sa_cipher_end_parameters ==
  [parameters : {NULL}] \cup
  [parameters : Given("parameters"), tag : Pointer("tag"),
   tag_length : Length("tag_length")]

CipherProcessLast(svp) == Both(CipherProcess(svp), sa_cipher_end_parameters)

CipherRelease == [context : Given("context")]

\* The parameters of each MAC algorithm.
sa_mac_parameters_hmac == [digest_algorithm : Given("digest_algorithm")]
sa_mac_parameters ==
  Both([mac_algorithm : {"HMAC"}],
       Structure("parameters", sa_mac_parameters_hmac))
  \cup [mac_algorithm : {"CMAC"}]

MacInit ==
  Both([context : Pointer("context"), key : Given("key")], sa_mac_parameters)

MacProcess ==
  [context : Given("context"), in : Pointer("in"),
   in_length : Length("in_length")]
MacRelease == [context : Given("context")]
MacProcessKey == [context : Given("context"), key : Given("key")]
MacCompute ==
  [out : Pointer("out"), out_length : InOutLength("out_length"),
   context : Given("context")]

\* The parameters of each signature algorithm.
sa_sign_parameters_rsa_pss ==
  [digest_algorithm : Given("digest_algorithm"),
   mgf1_digest_algorithm : Given("mgf1_digest_algorithm"),
   precomputed_digest : Given("precomputed_digest"),
   salt_length : Given("salt_length")]
sa_sign_parameters_rsa_pkcs1v15 ==
  [digest_algorithm : Given("digest_algorithm"),
   precomputed_digest : Given("precomputed_digest")]
sa_sign_parameters_ecdsa == sa_sign_parameters_rsa_pkcs1v15

sa_sign_parameters ==
  Both([signature_algorithm : {"RSA_PSS"}],
       Structure("parameters", sa_sign_parameters_rsa_pss))
  \cup
  Both([signature_algorithm : {"RSA_PKCS1V15"}],
       Structure("parameters", sa_sign_parameters_rsa_pkcs1v15))
  \cup
  Both([signature_algorithm : {"ECDSA"}],
       Structure("parameters", sa_sign_parameters_ecdsa))
  \cup [signature_algorithm : {"EDDSA"}]

CryptoSign ==
  Both([out : Pointer("out"), out_length : InOutLength("out_length"),
        key : Given("key"), in : Pointer("in"), in_length : Length("in_length")],
       sa_sign_parameters)

-----------------------------------------------------------------------------
SvpSupported == {<<>>}
SvpBufferCreate ==
  [svp_buffer : Pointer("svp_buffer"), svp_memory : Pointer("svp_memory"),
   size : Length("size")]
SvpBufferRelease ==
  [svp_memory : Pointer("svp_memory"), size : Pointer("size"),
   svp_buffer : Given("svp_buffer")]
SvpBufferWrite ==
  [out : Given("out"), in : Pointer("in"), in_length : Length("in_length"),
   offsets : Pointer("offsets"), offsets_length : {Zero, <<"one">>, <<"many">>}]
SvpBufferCopy ==
  [out : Given("out"), in : Given("in"),
   offsets : Pointer("offsets"), offsets_length : {Zero, <<"one">>, <<"many">>}]
SvpKeyCheck ==
  [key : Given("key"), in : Buffers("in", TRUE) \cup {NULL},
   bytes_to_process : Length("bytes_to_process"),
   expected : Pointer("expected"), expected_length : Length("expected_length")]
SvpBufferCheck ==
  [svp_buffer : Given("svp_buffer"), offset : Given("offset"),
   length : Given("length"), digest_algorithm : Given("digest_algorithm"),
   hash : Pointer("hash"), hash_length : Length("hash_length")]

\* A sample of sa_process_common_encryption.  The samples of one call are given
\* one after the other, with the number of those left.
Samples(svp) ==
  [iv : Pointer("iv"), iv_length : Exactly(AES_BLOCK_SIZE),
   crypt_byte_block : Given("crypt_byte_block"),
   skip_byte_block : Given("skip_byte_block"),
   subsample_count : Length("subsample_count"),
   subsample_lengths : Pointer("subsample_lengths"),
   context : Given("context"),
   out : Buffers("out", svp) \cup {NULL}, in : Buffers("in", svp) \cup {NULL}]
=============================================================================
