---------------------------- MODULE KeyHandlers ----------------------------
(* What the commands of the TA ask of the keys they use and which keys they    *)
(* make (ta_sa_key_*.c and the uses of keys in ta_sa_crypto_*.c).              *)
(*                                                                             *)
(* A handler is a record: "needs" lists the keys it unwraps, in order, with    *)
(* the flags and the kinds of keys it asks for; "yields" lists the keys it     *)
(* makes, in order, with the kinds they can be, the need whose rights limit    *)
(* them (0: none), the needs their bytes come from, and where their rights     *)
(* come from. Parameter checks and what is computed are left out.              *)
EXTENDS Rights, Sequences

Symmetric == {"SYM128", "SYM160", "SYM256"}
Kinds == Symmetric \cup {"RSA", "EC", "DH"}

key_type_supports_aes == {"SYM128", "SYM256"}
key_type_supports_chacha20 == {"SYM256"}
key_type_supports_hmac == Symmetric
key_type_supports_rsa == {"RSA"}
key_type_supports_ec == {"EC"}
key_type_supports_dh == {"DH"}

Need(usage, kinds) == [usage |-> usage, kinds |-> kinds]
Yield(kinds, parent, of, rights) ==
  [kinds |-> kinds, parent |-> parent, of |-> of, rights |-> rights]
Handler(needs, yields) == [needs |-> needs, yields |-> yields]
Child(kinds) == Yield(kinds, 1, {1}, "given")
Fresh(kinds) == Yield(kinds, 0, {}, "given")

-----------------------------------------------------------------------------
(* ta_sa_key_unwrap.c and unwrap.c                                            *)

import_key == Symmetric \cup {"EC", "RSA"}

unwrap_aes_ecb == Child(import_key)
unwrap_aes_cbc == Child(import_key)
unwrap_aes_ctr == Child(import_key)
unwrap_aes_gcm == Child(import_key)
unwrap_chacha20 == Child(import_key)
unwrap_chacha20_poly1305 == Child(import_key)
unwrap_rsa == Child(Symmetric)
unwrap_ec == Child(Symmetric)

ta_sa_key_unwrap_aes_ecb ==
  Handler(<<Need({"UNWRAP"}, key_type_supports_aes)>>, <<unwrap_aes_ecb>>)
ta_sa_key_unwrap_aes_cbc ==
  Handler(<<Need({"UNWRAP"}, key_type_supports_aes)>>, <<unwrap_aes_cbc>>)
ta_sa_key_unwrap_aes_ctr ==
  Handler(<<Need({"UNWRAP"}, key_type_supports_aes)>>, <<unwrap_aes_ctr>>)
ta_sa_key_unwrap_aes_gcm ==
  Handler(<<Need({"UNWRAP"}, key_type_supports_aes)>>, <<unwrap_aes_gcm>>)
ta_sa_key_unwrap_chacha20 ==
  Handler(<<Need({"UNWRAP"}, key_type_supports_chacha20)>>, <<unwrap_chacha20>>)
ta_sa_key_unwrap_chacha20_poly1305 ==
  Handler(<<Need({"UNWRAP"}, key_type_supports_chacha20)>>, <<unwrap_chacha20_poly1305>>)
ta_sa_key_unwrap_rsa ==
  Handler(<<Need({"UNWRAP"}, key_type_supports_rsa)>>, <<unwrap_rsa>>)
ta_sa_key_unwrap_ec ==
  Handler(<<Need({"UNWRAP"}, key_type_supports_ec)>>, <<unwrap_ec>>)

ta_sa_key_unwrap ==
  {ta_sa_key_unwrap_aes_ecb, ta_sa_key_unwrap_aes_cbc, ta_sa_key_unwrap_aes_ctr,
   ta_sa_key_unwrap_aes_gcm, ta_sa_key_unwrap_chacha20,
   ta_sa_key_unwrap_chacha20_poly1305, ta_sa_key_unwrap_rsa, ta_sa_key_unwrap_ec}

-----------------------------------------------------------------------------
(* ta_sa_key_derive.c, kdf.c and netflix.c. The root key ladder starts from   *)
(* the key of the device, which is no key of the store.                       *)

kdf_hkdf_hmac == Child(Symmetric)
kdf_concat_kdf == Child(Symmetric)
kdf_ansi_x963 == Child(Symmetric)
kdf_ctr_cmac == Child({"SYM128", "SYM256"})
kdf_netflix_wrapping == Yield({"SYM128"}, 1, {1, 2}, "given")
kdf_netflix_shared_secret ==
  <<Yield({"SYM128"}, 1, {1, 2}, "given"), Yield({"SYM256"}, 1, {1, 2}, "given")>>

ta_sa_key_derive_root_key_ladder == Handler(<<>>, <<Fresh({"SYM128"})>>)
ta_sa_key_derive_ansi_x963 == Handler(<<Need({"DERIVE"}, Symmetric)>>, <<kdf_ansi_x963>>)
ta_sa_key_derive_cmac ==
  Handler(<<Need({"DERIVE"}, Symmetric \cap key_type_supports_aes)>>, <<kdf_ctr_cmac>>)
ta_sa_key_derive_concat == Handler(<<Need({"DERIVE"}, Symmetric)>>, <<kdf_concat_kdf>>)
ta_sa_key_derive_hkdf ==
  Handler(<<Need({"DERIVE"}, Symmetric \cap key_type_supports_hmac)>>, <<kdf_hkdf_hmac>>)
\* kdf_netflix_wrapping takes an encryption key of 16 and a MAC key of 32 bytes.
ta_sa_key_derive_netflix ==
  Handler(<<Need({"DERIVE"}, {"SYM128"}), Need({"DERIVE"}, {"SYM256"})>>,
          <<kdf_netflix_wrapping>>)

ta_sa_key_derive ==
  {ta_sa_key_derive_root_key_ladder, ta_sa_key_derive_ansi_x963, ta_sa_key_derive_cmac,
   ta_sa_key_derive_concat, ta_sa_key_derive_hkdf, ta_sa_key_derive_netflix}

-----------------------------------------------------------------------------
(* ta_sa_key_exchange.c. The Netflix exchange takes a symmetric key of 16     *)
(* bytes and a DH key and makes three keys, limited by the symmetric one.     *)

dh_compute_shared_secret == Child(Symmetric)
ec_compute_ecdh_shared_secret == Child(Symmetric)

ta_sa_key_exchange_dh ==
  Handler(<<Need({"KEY_EXCHANGE"}, key_type_supports_dh)>>, <<dh_compute_shared_secret>>)
ta_sa_key_exchange_ecdh ==
  Handler(<<Need({"KEY_EXCHANGE"}, key_type_supports_ec)>>, <<ec_compute_ecdh_shared_secret>>)
ta_sa_key_exchange_netflix_dh ==
  Handler(<<Need({"DERIVE"}, {"SYM128"}), Need({"KEY_EXCHANGE"}, key_type_supports_dh)>>,
          <<kdf_netflix_shared_secret[1], kdf_netflix_shared_secret[2], kdf_netflix_wrapping>>)

ta_sa_key_exchange ==
  {ta_sa_key_exchange_dh, ta_sa_key_exchange_ecdh, ta_sa_key_exchange_netflix_dh}

-----------------------------------------------------------------------------
(* ta_sa_key_generate.c                                                       *)

symmetric_generate_key == Fresh(Symmetric)
ec_generate_key == Fresh({"EC"})
rsa_generate_key == Fresh({"RSA"})
dh_generate_key == Fresh({"DH"})

ta_sa_key_generate_symmetric == Handler(<<>>, <<symmetric_generate_key>>)
ta_sa_key_generate_ec == Handler(<<>>, <<ec_generate_key>>)
ta_sa_key_generate_rsa == Handler(<<>>, <<rsa_generate_key>>)
ta_sa_key_generate_dh == Handler(<<>>, <<dh_generate_key>>)

ta_sa_key_generate ==
  {ta_sa_key_generate_symmetric, ta_sa_key_generate_ec, ta_sa_key_generate_rsa,
   ta_sa_key_generate_dh}

-----------------------------------------------------------------------------
(* ta_sa_key_import.c. Containers of the SoC and of type J bring their rights, *)
(* exported keys are stored as they were. ta_sa_key_provision.c opens a SoC    *)
(* container too, and keeps nothing.                                           *)

typej_unwrap == Yield(Symmetric, 2, {2}, "typej")
soc_kc_unwrap == Yield(Symmetric \cup {"EC", "RSA"}, 0, {}, "soc")

ta_sa_key_import_symmetric_bytes == Handler(<<>>, <<Fresh(Symmetric)>>)
ta_sa_key_import_ec_private_bytes == Handler(<<>>, <<Fresh({"EC"})>>)
ta_sa_key_import_rsa_private_key_info == Handler(<<>>, <<Fresh({"RSA"})>>)
ta_sa_key_import_exported == Handler(<<>>, <<Yield(Kinds, 0, {}, "exported")>>)
ta_sa_key_import_soc == Handler(<<>>, <<soc_kc_unwrap>>)
ta_sa_key_import_typej ==
  Handler(<<Need({"SIGN"}, key_type_supports_hmac), Need({"UNWRAP"}, key_type_supports_aes)>>,
          <<typej_unwrap>>)
ta_sa_key_provision == Handler(<<>>, <<>>)

ta_sa_key_import ==
  {ta_sa_key_import_symmetric_bytes, ta_sa_key_import_ec_private_bytes,
   ta_sa_key_import_rsa_private_key_info, ta_sa_key_import_exported,
   ta_sa_key_import_soc, ta_sa_key_import_typej}

-----------------------------------------------------------------------------
(* Uses of a key that make no key.                                            *)

Use(usage, kinds) == Handler(<<Need(usage, kinds)>>, <<>>)

ta_sa_crypto_sign_ecdsa == Use({"SIGN"}, key_type_supports_ec)
ta_sa_crypto_sign_eddsa == Use({"SIGN"}, key_type_supports_ec)
ta_sa_crypto_sign_rsa_pss == Use({"SIGN"}, key_type_supports_rsa)
ta_sa_crypto_sign_rsa_pkcs1v15 == Use({"SIGN"}, key_type_supports_rsa)
ta_sa_crypto_sign ==
  {ta_sa_crypto_sign_ecdsa, ta_sa_crypto_sign_eddsa, ta_sa_crypto_sign_rsa_pss,
   ta_sa_crypto_sign_rsa_pkcs1v15}

ta_sa_crypto_mac_init_hmac == Use({"SIGN"}, key_type_supports_hmac)
ta_sa_crypto_mac_init_cmac == Use({"SIGN"}, key_type_supports_aes)
ta_sa_crypto_mac_process_key == Use({}, Symmetric)

CipherModes == {"ENCRYPT", "DECRYPT"}
ta_sa_crypto_cipher_init_aes_ecb == {Use({m}, key_type_supports_aes) : m \in CipherModes}
ta_sa_crypto_cipher_init_aes_cbc == {Use({m}, key_type_supports_aes) : m \in CipherModes}
ta_sa_crypto_cipher_init_aes_ctr == {Use({m}, key_type_supports_aes) : m \in CipherModes}
ta_sa_crypto_cipher_init_aes_gcm == {Use({m}, key_type_supports_aes) : m \in CipherModes}
ta_sa_crypto_cipher_init_chacha20 ==
  {Use({m}, key_type_supports_chacha20) : m \in CipherModes}
ta_sa_crypto_cipher_init_chacha20_poly1305 ==
  {Use({m}, key_type_supports_chacha20) : m \in CipherModes}
ta_sa_crypto_cipher_init_rsa_pkcs1v15 == {Use({"DECRYPT"}, key_type_supports_rsa)}
ta_sa_crypto_cipher_init_rsa_oaep == {Use({"DECRYPT"}, key_type_supports_rsa)}
ta_sa_crypto_cipher_init_ec == {Use({"DECRYPT"}, key_type_supports_ec)}
ta_sa_crypto_cipher_init ==
  ta_sa_crypto_cipher_init_aes_ecb \cup ta_sa_crypto_cipher_init_aes_cbc
    \cup ta_sa_crypto_cipher_init_aes_ctr \cup ta_sa_crypto_cipher_init_aes_gcm
    \cup ta_sa_crypto_cipher_init_chacha20
    \cup ta_sa_crypto_cipher_init_chacha20_poly1305
    \cup ta_sa_crypto_cipher_init_rsa_pkcs1v15
    \cup ta_sa_crypto_cipher_init_rsa_oaep \cup ta_sa_crypto_cipher_init_ec

\* To decrypt from a clear buffer the key must not require SVP.
ta_sa_svp_key_check ==
  {Use({"DECRYPT"}, key_type_supports_aes),
   Use({"DECRYPT", "SVP_OPTIONAL"}, key_type_supports_aes)}
ta_sa_key_digest == Use({}, Symmetric)
ta_sa_key_get_public == Use({}, {"EC", "DH", "RSA"})

Uses ==
  ta_sa_crypto_sign \cup ta_sa_crypto_cipher_init \cup ta_sa_svp_key_check
    \cup {ta_sa_crypto_mac_init_hmac, ta_sa_crypto_mac_init_cmac,
          ta_sa_crypto_mac_process_key, ta_sa_key_digest, ta_sa_key_get_public}

Handlers ==
  ta_sa_key_unwrap \cup ta_sa_key_derive \cup ta_sa_key_exchange
    \cup ta_sa_key_generate \cup ta_sa_key_import \cup Uses \cup {ta_sa_key_provision}
=============================================================================
