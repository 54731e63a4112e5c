--------------------------- MODULE CommandsProofs ---------------------------
(* Proofs about Commands.  First, for every command: what the client library *)
(* packs is what the dispatcher unpacks and accepts, and each result comes   *)
(* back to its argument.  Then the steps of a call: results come back only   *)
(* from a success, and everything that is allocated is freed.                *)
EXTENDS Commands, SequenceTheorems, TLAPS

\* The steps that name no prover: SMT first, then Zenon, with time to spare.
USE SMTT(60), ZenonT(60)

-----------------------------------------------------------------------------
(* What is to be shown of each command *)

\* The client library sends the call.
Sent ==
  ~request.refused /\ ~request.rejected /\ ~request.absent /\ ~request.late

\* The handler is called.
Taken == Sent /\ dispatched.valid /\ dispatched.present

\* The handler gets the argument n.
Gets(n, value) == n \in DOMAIN dispatched.args /\ dispatched.args[n] = value

\* ArgumentsArrive, for the call as it is.
Arrives ==
  ~ManyOffsets =>
    \A n \in Passed :
      /\ n \in DOMAIN dispatched.args
      /\ IF n \in {"out", "in"} /\ call.command \in BufferCommands
         THEN View(dispatched.args[n]) = View(call.args[n])
         ELSE dispatched.args[n] = call.args[n]

\* A parameter has a type exactly if it has a reference.
WellFormed(p) ==
  /\ p.ref = NULL <=> p.type = "NONE"
  /\ p.ref = NULL => p.size = Zero

\* RequestsAccepted, for the call as it is.
Accepted ==
  ~InputLeftOut =>
    /\ RefusedByTA \/ (dispatched.valid /\ dispatched.present)
    /\ \A i \in 1 .. 3 : WellFormed(request.params[i])

\* What becomes of the argument n when the handler stored its results.
Landed(n) ==
  LET value == Result(dispatched.args, dispatched.stores[request.returns[n]])
  IN  IF \/ n = "out_offset" /\ "out" \in request.adds
         \/ n = "in_offset" /\ "in" \in request.adds
      THEN Argument(call.args, n) \o value ELSE value

ResultsLand ==
  ~LostOffset =>
    \A n \in DOMAIN request.returns :
      /\ request.returns[n] \in DOMAIN dispatched.stores
      /\ Landed(n) = Result(call.args, n)

\* What a few functions only do.
Ordinary ==
  /\ request.keeps => call.command = "SA_GET_DEVICE_ID"
  /\ request.always => call.command \in EarlyResults
  /\ request.command.direction = "INOUT" \/ DOMAIN request.returns = {}

CommandRight ==
  Ordinary /\ (Sent => Accepted) /\ (Taken => Arrives /\ ResultsLand)

\* NULL is an address that nothing has.
NullIsNoFunction == NULL # [x \in DOMAIN NULL |-> NULL[x]]

-----------------------------------------------------------------------------
(* Parameters *)

(* A parameter for something that may be left out has its reference, and its *)
(* size unless it is left out.                                              *)
LEMMA OptionalInParts ==
  ASSUME NEW r, NEW s
  PROVE  LET p == OptionalIn(r, s)
         IN  /\ p.ref = r
             /\ r # NULL \/ s = Zero => p.size = s
             /\ r = NULL => p.size = Zero
             /\ r # NULL => IsIn(p)
             /\ WellFormed(p) /\ InOrNull(p)
BY ZenonT(60) DEF OptionalIn, In, None, Param, WellFormed, InOrNull, IsIn, IsNull

(* So has one for results that may be left out.                              *)
LEMMA OptionalOutParts ==
  ASSUME NEW r, NEW s
  PROVE  LET p == OptionalOut(r, s)
         IN  /\ p.ref = r
             /\ SizeIs(p, s)
             /\ WellFormed(p) /\ OutOrNull(p)
BY DEF OptionalOut, Out, None, Param, WellFormed, OutOrNull, IsOut, IsNull,
       SizeIs

(* So has one for something that must be there; it is well formed if it is.  *)
LEMMA ParamParts ==
  ASSUME NEW type, type # "NONE", NEW r, NEW s
  PROVE  LET p == Param(type, r, s)
         IN  /\ p.type = type /\ p.ref = r /\ p.size = s
             /\ r # NULL => WellFormed(p)
             /\ ~IsNull(p)
BY DEF Param, None, WellFormed, IsNull

(* One for an argument that must be there.                                   *)
LEMMA InParts ==
  ASSUME NEW r, NEW s
  PROVE  LET p == In(r, s)
         IN  /\ p.ref = r /\ p.size = s
             /\ r # NULL => WellFormed(p)
             /\ IsIn(p) /\ InOrNull(p)
BY ParamParts DEF In, IsIn, InOrNull, Param

(* One for a result that must be there.                                      *)
LEMMA OutParts ==
  ASSUME NEW r, NEW s
  PROVE  LET p == Out(r, s)
         IN  /\ p.ref = r /\ p.size = s
             /\ r # NULL => WellFormed(p)
             /\ IsOut(p) /\ OutOrNull(p)
BY ParamParts DEF Out, IsOut, OutOrNull, Param

(* A structure is somewhere, and the other side reads its fields. *)
LEMMA StructParts ==
  ASSUME NullIsNoFunction, NEW n, NEW f
  PROVE  LET s == Struct(n, f) IN s # NULL /\ s.struct = n /\ s.fields = f
BY DEF Struct, NullIsNoFunction

(* A parameter for a structure refers to it, and its fields are read there.  *)
LEMMA StructParamParts ==
  ASSUME NEW s, s # NULL, NEW type, type # "NONE"
  PROVE  LET p == StructParam(type, s)
         IN  /\ p.type = type /\ p.ref = s /\ p.size = sizeof(s.struct)
             /\ WellFormed(p) /\ ~IsNull(p)
             /\ \A n : Read(p, n) = s.fields[n]
BY DEF StructParam, Param, Read, WellFormed, None, IsNull

(* A parameter that is not used has neither type, reference nor size.        *)
LEMMA NoneParts ==
  /\ None.ref = NULL /\ None.size = Zero
  /\ WellFormed(None) /\ IsNull(None) /\ InOrNull(None) /\ OutOrNull(None)
<1>1. None.ref = NULL /\ None.size = Zero /\ None.type = "NONE"
  BY DEF None, Param
<1>2. QED
  BY <1>1 DEF WellFormed, IsNull, InOrNull, OutOrNull

-----------------------------------------------------------------------------
(* Arguments *)

(* A structure has its own name and those of its fields. *)
LEMMA StructureNames ==
  ASSUME NEW n, NEW fields, NEW x \in Structure(n, fields)
  PROVE  \E f \in fields : DOMAIN x = {n} \cup DOMAIN f
BY DEF Structure, @@, :>

(* By key_type, the parameters of each type of key. *)
LEMMA GenerateNames ==
  ASSUME NEW x \in sa_generate_parameters
  PROVE  \/ /\ x.key_type = "SYMMETRIC"
            /\ DOMAIN x = {"key_type", "parameters", "key_length"}
         \/ /\ x.key_type = "RSA"
            /\ DOMAIN x = {"key_type", "parameters", "modulus_length"}
         \/ /\ x.key_type = "EC"
            /\ DOMAIN x = {"key_type", "parameters", "curve"}
         \/ /\ x.key_type = "DH"
            /\ DOMAIN x = {"key_type", "parameters", "p", "p_length", "g",
                            "g_length"}
         \/ /\ x.key_type = "UNKNOWN"
            /\ DOMAIN x = {"key_type", "parameters"}
<1>1. CASE x \in Both([key_type : {"SYMMETRIC"}],
                    Structure("parameters", sa_generate_parameters_symmetric))
  <2>1. PICK s \in Structure("parameters", sa_generate_parameters_symmetric) :
          /\ x.key_type = "SYMMETRIC"
          /\ DOMAIN x = {"key_type"} \cup DOMAIN s
    BY <1>1 DEF Both, @@
  <2>2. PICK f \in sa_generate_parameters_symmetric :
          DOMAIN s = {"parameters"} \cup DOMAIN f
    BY StructureNames
  <2>3. QED
    BY <2>1, <2>2 DEF sa_generate_parameters_symmetric
<1>2. CASE x \in Both([key_type : {"RSA"}],
                    Structure("parameters", sa_generate_parameters_rsa))
  <2>1. PICK s \in Structure("parameters", sa_generate_parameters_rsa) :
          /\ x.key_type = "RSA"
          /\ DOMAIN x = {"key_type"} \cup DOMAIN s
    BY <1>2 DEF Both, @@
  <2>2. PICK f \in sa_generate_parameters_rsa :
          DOMAIN s = {"parameters"} \cup DOMAIN f
    BY StructureNames
  <2>3. QED
    BY <2>1, <2>2 DEF sa_generate_parameters_rsa
<1>3. CASE x \in Both([key_type : {"EC"}],
                    Structure("parameters", sa_generate_parameters_ec))
  <2>1. PICK s \in Structure("parameters", sa_generate_parameters_ec) :
          /\ x.key_type = "EC"
          /\ DOMAIN x = {"key_type"} \cup DOMAIN s
    BY <1>3 DEF Both, @@
  <2>2. PICK f \in sa_generate_parameters_ec :
          DOMAIN s = {"parameters"} \cup DOMAIN f
    BY StructureNames
  <2>3. QED
    BY <2>1, <2>2 DEF sa_generate_parameters_ec
<1>4. CASE x \in Both([key_type : {"DH"}],
                    Structure("parameters", sa_generate_parameters_dh))
  <2>1. PICK s \in Structure("parameters", sa_generate_parameters_dh) :
          /\ x.key_type = "DH"
          /\ DOMAIN x = {"key_type"} \cup DOMAIN s
    BY <1>4 DEF Both, @@
  <2>2. PICK f \in sa_generate_parameters_dh :
          DOMAIN s = {"parameters"} \cup DOMAIN f
    BY StructureNames
  <2>3. QED
    BY <2>1, <2>2 DEF sa_generate_parameters_dh
<1>5. QED
  BY <1>1, <1>2, <1>3, <1>4 DEF sa_generate_parameters

(* By key_format, the parameters of each format. *)
LEMMA ImportNames ==
  ASSUME NEW x \in sa_import_parameters
  PROVE  \/ /\ x.key_format \in {"SYMMETRIC_BYTES", "RSA_PRIVATE_KEY_INFO"}
            /\ DOMAIN x = {"key_format", "parameters", "rights"}
         \/ /\ x.key_format = "EC_PRIVATE_BYTES"
            /\ DOMAIN x = {"key_format", "parameters", "rights", "curve"}
         \/ /\ x.key_format \in {"EXPORTED", "UNKNOWN"}
            /\ DOMAIN x = {"key_format"}
         \/ /\ x.key_format = "TYPEJ"
            /\ DOMAIN x = {"key_format", "parameters"}
         \/ /\ x.key_format = "SOC"
            /\ DOMAIN x = {"key_format", "parameters", "parameters_length"}
<1>1. CASE x \in Both([key_format : {"SYMMETRIC_BYTES",
                                     "RSA_PRIVATE_KEY_INFO"}],
                    Structure("parameters", sa_import_parameters_symmetric))
  <2>1. PICK s \in Structure("parameters", sa_import_parameters_symmetric) :
          /\ x.key_format \in {"SYMMETRIC_BYTES", "RSA_PRIVATE_KEY_INFO"}
          /\ DOMAIN x = {"key_format"} \cup DOMAIN s
    BY <1>1 DEF Both, @@
  <2>2. PICK f \in sa_import_parameters_symmetric :
          DOMAIN s = {"parameters"} \cup DOMAIN f
    BY StructureNames
  <2>3. QED
    BY <2>1, <2>2 DEF sa_import_parameters_symmetric
<1>2. CASE x \in Both([key_format : {"EC_PRIVATE_BYTES"}],
                    Structure("parameters",
                              sa_import_parameters_ec_private_bytes))
  <2>1. PICK s \in Structure("parameters",
                             sa_import_parameters_ec_private_bytes) :
          /\ x.key_format = "EC_PRIVATE_BYTES"
          /\ DOMAIN x = {"key_format"} \cup DOMAIN s
    BY <1>2 DEF Both, @@
  <2>2. PICK f \in sa_import_parameters_ec_private_bytes :
          DOMAIN s = {"parameters"} \cup DOMAIN f
    BY StructureNames
  <2>3. QED
    BY <2>1, <2>2 DEF sa_import_parameters_ec_private_bytes
<1>3. QED
  BY <1>1, <1>2 DEF sa_import_parameters

(* By ta_key_type, the objects that are provisioned. *)
LEMMA ProvisioningNames ==
  ASSUME NEW x \in Provisioning
  PROVE  \/ /\ x.ta_key_type = "WIDEVINE_OEM"
            /\ DOMAIN x = {"ta_key_type", "in", "in_length", "private_key",
                            "private_key_length", "certificate",
                            "certificate_length"}
         \/ /\ x.ta_key_type = "PLAYREADY_MODEL"
            /\ DOMAIN x = {"ta_key_type", "in", "in_length", "private_key",
                            "private_key_length", "certificate",
                            "certificate_length"}
         \/ /\ x.ta_key_type = "NETFLIX"
            /\ DOMAIN x = {"ta_key_type", "in", "in_length",
                            "encryption_key", "encryption_key_length",
                            "hmac_key",
                            "hmac_key_length", "wrapping_key",
                            "wrapping_key_length",
                            "esn_container", "esn_container_length"}
         \/ /\ x.ta_key_type \in {"APPLE", "UNKNOWN"}
            /\ DOMAIN x = {"ta_key_type", "in", "in_length"}
<1>1. CASE x \in Both([ta_key_type : {"WIDEVINE_OEM"}],
                    Structure("in", WidevineOemProvisioning))
  <2>1. PICK s \in Structure("in", WidevineOemProvisioning) :
          /\ x.ta_key_type = "WIDEVINE_OEM"
          /\ DOMAIN x = {"ta_key_type"} \cup DOMAIN s
    BY <1>1 DEF Both, @@
  <2>2. PICK f \in WidevineOemProvisioning :
          DOMAIN s = {"in"} \cup DOMAIN f
    BY StructureNames
  <2>3. QED
    BY <2>1, <2>2 DEF WidevineOemProvisioning
<1>2. CASE x \in Both([ta_key_type : {"PLAYREADY_MODEL"}],
                    Structure("in", PlayReadyProvisioning))
  <2>1. PICK s \in Structure("in", PlayReadyProvisioning) :
          /\ x.ta_key_type = "PLAYREADY_MODEL"
          /\ DOMAIN x = {"ta_key_type"} \cup DOMAIN s
    BY <1>2 DEF Both, @@
  <2>2. PICK f \in PlayReadyProvisioning :
          DOMAIN s = {"in"} \cup DOMAIN f
    BY StructureNames
  <2>3. QED
    BY <2>1, <2>2 DEF PlayReadyProvisioning, WidevineOemProvisioning
<1>3. CASE x \in Both([ta_key_type : {"NETFLIX"}],
                    Structure("in", NetflixProvisioning))
  <2>1. PICK s \in Structure("in", NetflixProvisioning) :
          /\ x.ta_key_type = "NETFLIX"
          /\ DOMAIN x = {"ta_key_type"} \cup DOMAIN s
    BY <1>3 DEF Both, @@
  <2>2. PICK f \in NetflixProvisioning :
          DOMAIN s = {"in"} \cup DOMAIN f
    BY StructureNames
  <2>3. QED
    BY <2>1, <2>2 DEF NetflixProvisioning
<1>4. CASE x \in Both([ta_key_type : {"APPLE", "UNKNOWN"}],
                    Structure("in", OtherProvisioning))
  <2>1. PICK s \in Structure("in", OtherProvisioning) :
          /\ x.ta_key_type \in {"APPLE", "UNKNOWN"}
          /\ DOMAIN x = {"ta_key_type"} \cup DOMAIN s
    BY <1>4 DEF Both, @@
  <2>2. PICK f \in OtherProvisioning :
          DOMAIN s = {"in"} \cup DOMAIN f
    BY StructureNames
  <2>3. QED
    BY <2>1, <2>2 DEF OtherProvisioning
<1>5. QED
  BY <1>1, <1>2, <1>3, <1>4 DEF Provisioning

(* By cipher_algorithm, the parameters of each algorithm that unwraps. *)
LEMMA UnwrapNames ==
  ASSUME NEW x \in sa_unwrap_parameters
  PROVE  \/ /\ x.cipher_algorithm \in {"AES_ECB", "RSA_PKCS1V15", "UNKNOWN"}
            /\ DOMAIN x = {"cipher_algorithm"}
         \/ /\ x.cipher_algorithm \in {"AES_CBC", "AES_CBC_PKCS7"}
            /\ DOMAIN x = {"cipher_algorithm", "algorithm_parameters",
                            "iv", "iv_length"}
         \/ /\ x.cipher_algorithm = "AES_CTR"
            /\ DOMAIN x = {"cipher_algorithm", "algorithm_parameters",
                            "ctr", "ctr_length"}
         \/ /\ x.cipher_algorithm = "AES_GCM"
            /\ DOMAIN x = {"cipher_algorithm", "algorithm_parameters",
                            "iv", "iv_length", "aad", "aad_length", "tag",
                            "tag_length"}
         \/ /\ x.cipher_algorithm = "CHACHA20"
            /\ DOMAIN x = {"cipher_algorithm", "algorithm_parameters",
                            "counter", "counter_length", "nonce",
                            "nonce_length"}
         \/ /\ x.cipher_algorithm = "CHACHA20_POLY1305"
            /\ DOMAIN x = {"cipher_algorithm", "algorithm_parameters",
                            "nonce", "nonce_length", "aad", "aad_length",
                            "tag",
                            "tag_length"}
         \/ /\ x.cipher_algorithm = "EC_ELGAMAL"
            /\ DOMAIN x = {"cipher_algorithm", "algorithm_parameters",
                            "key_length", "offset"}
         \/ /\ x.cipher_algorithm = "RSA_OAEP"
            /\ DOMAIN x = {"cipher_algorithm", "algorithm_parameters",
                            "digest_algorithm", "mgf1_digest_algorithm",
                            "label",
                            "label_length"}
<1>1. CASE x \in Both([cipher_algorithm : {"AES_CBC", "AES_CBC_PKCS7"}],
                    Structure("algorithm_parameters",
                              sa_unwrap_parameters_aes_cbc))
  <2>1. PICK s \in Structure("algorithm_parameters",
                             sa_unwrap_parameters_aes_cbc) :
          /\ x.cipher_algorithm \in {"AES_CBC", "AES_CBC_PKCS7"}
          /\ DOMAIN x = {"cipher_algorithm"} \cup DOMAIN s
    BY <1>1 DEF Both, @@
  <2>2. PICK f \in sa_unwrap_parameters_aes_cbc :
          DOMAIN s = {"algorithm_parameters"} \cup DOMAIN f
    BY StructureNames
  <2>3. QED
    BY <2>1, <2>2 DEF sa_unwrap_parameters_aes_cbc
<1>2. CASE x \in Both([cipher_algorithm : {"AES_CTR"}],
                    Structure("algorithm_parameters",
                              sa_unwrap_parameters_aes_ctr))
  <2>1. PICK s \in Structure("algorithm_parameters",
                             sa_unwrap_parameters_aes_ctr) :
          /\ x.cipher_algorithm = "AES_CTR"
          /\ DOMAIN x = {"cipher_algorithm"} \cup DOMAIN s
    BY <1>2 DEF Both, @@
  <2>2. PICK f \in sa_unwrap_parameters_aes_ctr :
          DOMAIN s = {"algorithm_parameters"} \cup DOMAIN f
    BY StructureNames
  <2>3. QED
    BY <2>1, <2>2 DEF sa_unwrap_parameters_aes_ctr
<1>3. CASE x \in Both([cipher_algorithm : {"AES_GCM"}],
                    Structure("algorithm_parameters",
                              sa_unwrap_parameters_aes_gcm))
  <2>1. PICK s \in Structure("algorithm_parameters",
                             sa_unwrap_parameters_aes_gcm) :
          /\ x.cipher_algorithm = "AES_GCM"
          /\ DOMAIN x = {"cipher_algorithm"} \cup DOMAIN s
    BY <1>3 DEF Both, @@
  <2>2. PICK f \in sa_unwrap_parameters_aes_gcm :
          DOMAIN s = {"algorithm_parameters"} \cup DOMAIN f
    BY StructureNames
  <2>3. QED
    BY <2>1, <2>2 DEF sa_unwrap_parameters_aes_gcm
<1>4. CASE x \in Both([cipher_algorithm : {"CHACHA20"}],
                    Structure("algorithm_parameters",
                              sa_unwrap_parameters_chacha20))
  <2>1. PICK s \in Structure("algorithm_parameters",
                             sa_unwrap_parameters_chacha20) :
          /\ x.cipher_algorithm = "CHACHA20"
          /\ DOMAIN x = {"cipher_algorithm"} \cup DOMAIN s
    BY <1>4 DEF Both, @@
  <2>2. PICK f \in sa_unwrap_parameters_chacha20 :
          DOMAIN s = {"algorithm_parameters"} \cup DOMAIN f
    BY StructureNames
  <2>3. QED
    BY <2>1, <2>2 DEF sa_unwrap_parameters_chacha20
<1>5. CASE x \in Both([cipher_algorithm : {"CHACHA20_POLY1305"}],
                    Structure("algorithm_parameters",
                              sa_unwrap_parameters_chacha20_poly1305))
  <2>1. PICK s \in Structure("algorithm_parameters",
                             sa_unwrap_parameters_chacha20_poly1305) :
          /\ x.cipher_algorithm = "CHACHA20_POLY1305"
          /\ DOMAIN x = {"cipher_algorithm"} \cup DOMAIN s
    BY <1>5 DEF Both, @@
  <2>2. PICK f \in sa_unwrap_parameters_chacha20_poly1305 :
          DOMAIN s = {"algorithm_parameters"} \cup DOMAIN f
    BY StructureNames
  <2>3. QED
    BY <2>1, <2>2 DEF sa_unwrap_parameters_chacha20_poly1305
<1>6. CASE x \in Both([cipher_algorithm : {"EC_ELGAMAL"}],
                    Structure("algorithm_parameters",
                              sa_unwrap_parameters_ec_elgamal))
  <2>1. PICK s \in Structure("algorithm_parameters",
                             sa_unwrap_parameters_ec_elgamal) :
          /\ x.cipher_algorithm = "EC_ELGAMAL"
          /\ DOMAIN x = {"cipher_algorithm"} \cup DOMAIN s
    BY <1>6 DEF Both, @@
  <2>2. PICK f \in sa_unwrap_parameters_ec_elgamal :
          DOMAIN s = {"algorithm_parameters"} \cup DOMAIN f
    BY StructureNames
  <2>3. QED
    BY <2>1, <2>2 DEF sa_unwrap_parameters_ec_elgamal
<1>7. CASE x \in Both([cipher_algorithm : {"RSA_OAEP"}],
                    Structure("algorithm_parameters",
                              sa_unwrap_parameters_rsa_oaep))
  <2>1. PICK s \in Structure("algorithm_parameters",
                             sa_unwrap_parameters_rsa_oaep) :
          /\ x.cipher_algorithm = "RSA_OAEP"
          /\ DOMAIN x = {"cipher_algorithm"} \cup DOMAIN s
    BY <1>7 DEF Both, @@
  <2>2. PICK f \in sa_unwrap_parameters_rsa_oaep :
          DOMAIN s = {"algorithm_parameters"} \cup DOMAIN f
    BY StructureNames
  <2>3. QED
    BY <2>1, <2>2 DEF sa_unwrap_parameters_rsa_oaep
<1>8. QED
  BY <1>1, <1>2, <1>3, <1>4, <1>5, <1>6, <1>7 DEF sa_unwrap_parameters

(* By key_type, the parameters of each type of key that is unwrapped. *)
LEMMA UnwrapTypeNames ==
  ASSUME NEW x \in sa_type_parameters
  PROVE  \/ /\ x.key_type = "SYMMETRIC"
            /\ DOMAIN x = {"key_type"}
         \/ /\ x.key_type = "EC"
            /\ DOMAIN x = {"key_type", "type_parameters", "curve"}
<1>1. CASE x \in Both([key_type : {"EC"}],
                    Structure("type_parameters", sa_unwrap_type_parameters_ec))
  <2>1. PICK s \in Structure("type_parameters", sa_unwrap_type_parameters_ec) :
          /\ x.key_type = "EC"
          /\ DOMAIN x = {"key_type"} \cup DOMAIN s
    BY <1>1 DEF Both, @@
  <2>2. PICK f \in sa_unwrap_type_parameters_ec :
          DOMAIN s = {"type_parameters"} \cup DOMAIN f
    BY StructureNames
  <2>3. QED
    BY <2>1, <2>2 DEF sa_unwrap_type_parameters_ec
<1>2. QED
  BY <1>1 DEF sa_type_parameters

(* By kdf_algorithm, the parameters of each derivation. *)
LEMMA KdfNames ==
  ASSUME NEW x \in sa_kdf_parameters
  PROVE  \/ /\ x.kdf_algorithm \in {"ROOT_KEY_LADDER", "COMMON_ROOT_KEY_LADDER"}
            /\ DOMAIN x = {"kdf_algorithm", "parameters", "c1",
                            "c1_length", "c2", "c2_length", "c3",
                            "c3_length", "c4",
                            "c4_length"}
         \/ /\ x.kdf_algorithm = "HKDF"
            /\ DOMAIN x = {"kdf_algorithm", "parameters", "key_length",
                            "digest_algorithm", "parent", "salt",
                            "salt_length", "info",
                            "info_length"}
         \/ /\ x.kdf_algorithm = "CONCAT"
            /\ DOMAIN x = {"kdf_algorithm", "parameters", "key_length",
                            "digest_algorithm", "parent", "info",
                            "info_length"}
         \/ /\ x.kdf_algorithm = "ANSI_X963"
            /\ DOMAIN x = {"kdf_algorithm", "parameters", "key_length",
                            "digest_algorithm", "parent", "info",
                            "info_length"}
         \/ /\ x.kdf_algorithm = "CMAC"
            /\ DOMAIN x = {"kdf_algorithm", "parameters", "key_length",
                            "parent", "other_data", "other_data_length",
                            "counter"}
         \/ /\ x.kdf_algorithm = "NETFLIX"
            /\ DOMAIN x = {"kdf_algorithm", "parameters", "kenc", "khmac"}
         \/ /\ x.kdf_algorithm = "UNKNOWN"
            /\ DOMAIN x = {"kdf_algorithm"}
<1>1. CASE x \in Both([kdf_algorithm : {"ROOT_KEY_LADDER",
                                        "COMMON_ROOT_KEY_LADDER"}],
                    Structure("parameters", sa_kdf_parameters_root_key_ladder))
  <2>1. PICK s \in Structure("parameters", sa_kdf_parameters_root_key_ladder) :
          /\ x.kdf_algorithm \in {"ROOT_KEY_LADDER", "COMMON_ROOT_KEY_LADDER"}
          /\ DOMAIN x = {"kdf_algorithm"} \cup DOMAIN s
    BY <1>1 DEF Both, @@
  <2>2. PICK f \in sa_kdf_parameters_root_key_ladder :
          DOMAIN s = {"parameters"} \cup DOMAIN f
    BY StructureNames
  <2>3. QED
    BY <2>1, <2>2 DEF sa_kdf_parameters_root_key_ladder
<1>2. CASE x \in Both([kdf_algorithm : {"HKDF"}],
                    Structure("parameters", sa_kdf_parameters_hkdf))
  <2>1. PICK s \in Structure("parameters", sa_kdf_parameters_hkdf) :
          /\ x.kdf_algorithm = "HKDF"
          /\ DOMAIN x = {"kdf_algorithm"} \cup DOMAIN s
    BY <1>2 DEF Both, @@
  <2>2. PICK f \in sa_kdf_parameters_hkdf :
          DOMAIN s = {"parameters"} \cup DOMAIN f
    BY StructureNames
  <2>3. QED
    BY <2>1, <2>2 DEF sa_kdf_parameters_hkdf
<1>3. CASE x \in Both([kdf_algorithm : {"CONCAT"}],
                    Structure("parameters", sa_kdf_parameters_concat))
  <2>1. PICK s \in Structure("parameters", sa_kdf_parameters_concat) :
          /\ x.kdf_algorithm = "CONCAT"
          /\ DOMAIN x = {"kdf_algorithm"} \cup DOMAIN s
    BY <1>3 DEF Both, @@
  <2>2. PICK f \in sa_kdf_parameters_concat :
          DOMAIN s = {"parameters"} \cup DOMAIN f
    BY StructureNames
  <2>3. QED
    BY <2>1, <2>2 DEF sa_kdf_parameters_concat
<1>4. CASE x \in Both([kdf_algorithm : {"ANSI_X963"}],
                    Structure("parameters", sa_kdf_parameters_ansi_x963))
  <2>1. PICK s \in Structure("parameters", sa_kdf_parameters_ansi_x963) :
          /\ x.kdf_algorithm = "ANSI_X963"
          /\ DOMAIN x = {"kdf_algorithm"} \cup DOMAIN s
    BY <1>4 DEF Both, @@
  <2>2. PICK f \in sa_kdf_parameters_ansi_x963 :
          DOMAIN s = {"parameters"} \cup DOMAIN f
    BY StructureNames
  <2>3. QED
    BY <2>1, <2>2 DEF sa_kdf_parameters_ansi_x963, sa_kdf_parameters_concat
<1>5. CASE x \in Both([kdf_algorithm : {"CMAC"}],
                    Structure("parameters", sa_kdf_parameters_cmac))
  <2>1. PICK s \in Structure("parameters", sa_kdf_parameters_cmac) :
          /\ x.kdf_algorithm = "CMAC"
          /\ DOMAIN x = {"kdf_algorithm"} \cup DOMAIN s
    BY <1>5 DEF Both, @@
  <2>2. PICK f \in sa_kdf_parameters_cmac :
          DOMAIN s = {"parameters"} \cup DOMAIN f
    BY StructureNames
  <2>3. QED
    BY <2>1, <2>2 DEF sa_kdf_parameters_cmac
<1>6. CASE x \in Both([kdf_algorithm : {"NETFLIX"}],
                    Structure("parameters", sa_kdf_parameters_netflix))
  <2>1. PICK s \in Structure("parameters", sa_kdf_parameters_netflix) :
          /\ x.kdf_algorithm = "NETFLIX"
          /\ DOMAIN x = {"kdf_algorithm"} \cup DOMAIN s
    BY <1>6 DEF Both, @@
  <2>2. PICK f \in sa_kdf_parameters_netflix :
          DOMAIN s = {"parameters"} \cup DOMAIN f
    BY StructureNames
  <2>3. QED
    BY <2>1, <2>2 DEF sa_kdf_parameters_netflix
<1>7. QED
  BY <1>1, <1>2, <1>3, <1>4, <1>5, <1>6 DEF sa_kdf_parameters

(* By key_exchange_algorithm, the parameters of each exchange. *)
LEMMA ExchangeNames ==
  ASSUME NEW x \in sa_key_exchange_parameters
  PROVE  \/ /\ x.key_exchange_algorithm = "ECDH"
            /\ DOMAIN x = {"key_exchange_algorithm"}
         \/ /\ x.key_exchange_algorithm = "NETFLIX_AUTHENTICATED_DH"
            /\ DOMAIN x = {"key_exchange_algorithm", "parameters", "in_kw",
                            "out_ke", "rights_ke", "out_kh", "rights_kh"}
<1>1. CASE x \in Both([key_exchange_algorithm : {"NETFLIX_AUTHENTICATED_DH"}],
                    Structure("parameters",
                              sa_key_exchange_parameters_netflix_authenticated_dh))
  <2>1. PICK s \in Structure("parameters",
                             sa_key_exchange_parameters_netflix_authenticated_dh) :
          /\ x.key_exchange_algorithm = "NETFLIX_AUTHENTICATED_DH"
          /\ DOMAIN x = {"key_exchange_algorithm"} \cup DOMAIN s
    BY <1>1 DEF Both, @@
  <2>2. PICK f \in sa_key_exchange_parameters_netflix_authenticated_dh :
          DOMAIN s = {"parameters"} \cup DOMAIN f
    BY StructureNames
  <2>3. QED
    BY <2>1, <2>2 DEF sa_key_exchange_parameters_netflix_authenticated_dh
<1>2. QED
  BY <1>1 DEF sa_key_exchange_parameters

(* By cipher_algorithm, the parameters of each cipher algorithm. *)
LEMMA CipherNames ==
  ASSUME NEW x \in sa_cipher_parameters
  PROVE  \/ /\ x.cipher_algorithm \in {"AES_ECB", "EC_ELGAMAL", "UNKNOWN"}
            /\ DOMAIN x = {"cipher_algorithm"}
         \/ /\ x.cipher_algorithm \in {"AES_CBC", "AES_CBC_PKCS7"}
            /\ DOMAIN x = {"cipher_algorithm", "parameters", "iv",
                            "iv_length"}
         \/ /\ x.cipher_algorithm = "AES_CTR"
            /\ DOMAIN x = {"cipher_algorithm", "parameters", "ctr",
                            "ctr_length"}
         \/ /\ x.cipher_algorithm = "AES_GCM"
            /\ DOMAIN x = {"cipher_algorithm", "parameters", "iv",
                            "iv_length", "aad", "aad_length"}
         \/ /\ x.cipher_algorithm = "CHACHA20"
            /\ DOMAIN x = {"cipher_algorithm", "parameters", "counter",
                            "counter_length", "nonce", "nonce_length"}
         \/ /\ x.cipher_algorithm = "CHACHA20_POLY1305"
            /\ DOMAIN x = {"cipher_algorithm", "parameters", "nonce",
                            "nonce_length", "aad", "aad_length"}
         \/ /\ x.cipher_algorithm = "RSA_OAEP"
            /\ DOMAIN x = {"cipher_algorithm", "parameters",
                            "digest_algorithm", "mgf1_digest_algorithm",
                            "label",
                            "label_length"}
<1>1. CASE x \in Both([cipher_algorithm : {"AES_CBC", "AES_CBC_PKCS7"}],
                    Structure("parameters", sa_cipher_parameters_aes_cbc))
  <2>1. PICK s \in Structure("parameters", sa_cipher_parameters_aes_cbc) :
          /\ x.cipher_algorithm \in {"AES_CBC", "AES_CBC_PKCS7"}
          /\ DOMAIN x = {"cipher_algorithm"} \cup DOMAIN s
    BY <1>1 DEF Both, @@
  <2>2. PICK f \in sa_cipher_parameters_aes_cbc :
          DOMAIN s = {"parameters"} \cup DOMAIN f
    BY StructureNames
  <2>3. QED
    BY <2>1, <2>2 DEF sa_cipher_parameters_aes_cbc
<1>2. CASE x \in Both([cipher_algorithm : {"AES_CTR"}],
                    Structure("parameters", sa_cipher_parameters_aes_ctr))
  <2>1. PICK s \in Structure("parameters", sa_cipher_parameters_aes_ctr) :
          /\ x.cipher_algorithm = "AES_CTR"
          /\ DOMAIN x = {"cipher_algorithm"} \cup DOMAIN s
    BY <1>2 DEF Both, @@
  <2>2. PICK f \in sa_cipher_parameters_aes_ctr :
          DOMAIN s = {"parameters"} \cup DOMAIN f
    BY StructureNames
  <2>3. QED
    BY <2>1, <2>2 DEF sa_cipher_parameters_aes_ctr
<1>3. CASE x \in Both([cipher_algorithm : {"AES_GCM"}],
                    Structure("parameters", sa_cipher_parameters_aes_gcm))
  <2>1. PICK s \in Structure("parameters", sa_cipher_parameters_aes_gcm) :
          /\ x.cipher_algorithm = "AES_GCM"
          /\ DOMAIN x = {"cipher_algorithm"} \cup DOMAIN s
    BY <1>3 DEF Both, @@
  <2>2. PICK f \in sa_cipher_parameters_aes_gcm :
          DOMAIN s = {"parameters"} \cup DOMAIN f
    BY StructureNames
  <2>3. QED
    BY <2>1, <2>2 DEF sa_cipher_parameters_aes_gcm
<1>4. CASE x \in Both([cipher_algorithm : {"CHACHA20"}],
                    Structure("parameters", sa_cipher_parameters_chacha20))
  <2>1. PICK s \in Structure("parameters", sa_cipher_parameters_chacha20) :
          /\ x.cipher_algorithm = "CHACHA20"
          /\ DOMAIN x = {"cipher_algorithm"} \cup DOMAIN s
    BY <1>4 DEF Both, @@
  <2>2. PICK f \in sa_cipher_parameters_chacha20 :
          DOMAIN s = {"parameters"} \cup DOMAIN f
    BY StructureNames
  <2>3. QED
    BY <2>1, <2>2 DEF sa_cipher_parameters_chacha20
<1>5. CASE x \in Both([cipher_algorithm : {"CHACHA20_POLY1305"}],
                    Structure("parameters",
                              sa_cipher_parameters_chacha20_poly1305))
  <2>1. PICK s \in Structure("parameters",
                             sa_cipher_parameters_chacha20_poly1305) :
          /\ x.cipher_algorithm = "CHACHA20_POLY1305"
          /\ DOMAIN x = {"cipher_algorithm"} \cup DOMAIN s
    BY <1>5 DEF Both, @@
  <2>2. PICK f \in sa_cipher_parameters_chacha20_poly1305 :
          DOMAIN s = {"parameters"} \cup DOMAIN f
    BY StructureNames
  <2>3. QED
    BY <2>1, <2>2 DEF sa_cipher_parameters_chacha20_poly1305
<1>6. CASE x \in Both([cipher_algorithm : {"RSA_OAEP"}],
                    Structure("parameters", sa_cipher_parameters_rsa_oaep))
  <2>1. PICK s \in Structure("parameters", sa_cipher_parameters_rsa_oaep) :
          /\ x.cipher_algorithm = "RSA_OAEP"
          /\ DOMAIN x = {"cipher_algorithm"} \cup DOMAIN s
    BY <1>6 DEF Both, @@
  <2>2. PICK f \in sa_cipher_parameters_rsa_oaep :
          DOMAIN s = {"parameters"} \cup DOMAIN f
    BY StructureNames
  <2>3. QED
    BY <2>1, <2>2 DEF sa_cipher_parameters_rsa_oaep
<1>7. QED
  BY <1>1, <1>2, <1>3, <1>4, <1>5, <1>6 DEF sa_cipher_parameters

(* By mac_algorithm, the parameters of each MAC algorithm. *)
LEMMA MacNames ==
  ASSUME NEW x \in sa_mac_parameters
  PROVE  \/ /\ x.mac_algorithm = "HMAC"
            /\ DOMAIN x = {"mac_algorithm", "parameters",
                            "digest_algorithm"}
         \/ /\ x.mac_algorithm = "CMAC"
            /\ DOMAIN x = {"mac_algorithm"}
<1>1. CASE x \in Both([mac_algorithm : {"HMAC"}],
                    Structure("parameters", sa_mac_parameters_hmac))
  <2>1. PICK s \in Structure("parameters", sa_mac_parameters_hmac) :
          /\ x.mac_algorithm = "HMAC"
          /\ DOMAIN x = {"mac_algorithm"} \cup DOMAIN s
    BY <1>1 DEF Both, @@
  <2>2. PICK f \in sa_mac_parameters_hmac :
          DOMAIN s = {"parameters"} \cup DOMAIN f
    BY StructureNames
  <2>3. QED
    BY <2>1, <2>2 DEF sa_mac_parameters_hmac
<1>2. QED
  BY <1>1 DEF sa_mac_parameters

(* By signature_algorithm, the parameters of each signature algorithm. *)
LEMMA SignNames ==
  ASSUME NEW x \in sa_sign_parameters
  PROVE  \/ /\ x.signature_algorithm = "RSA_PSS"
            /\ DOMAIN x = {"signature_algorithm", "parameters",
                            "digest_algorithm", "mgf1_digest_algorithm",
                            "precomputed_digest", "salt_length"}
         \/ /\ x.signature_algorithm = "RSA_PKCS1V15"
            /\ DOMAIN x = {"signature_algorithm", "parameters",
                            "digest_algorithm", "precomputed_digest"}
         \/ /\ x.signature_algorithm = "ECDSA"
            /\ DOMAIN x = {"signature_algorithm", "parameters",
                            "digest_algorithm", "precomputed_digest"}
         \/ /\ x.signature_algorithm = "EDDSA"
            /\ DOMAIN x = {"signature_algorithm"}
<1>1. CASE x \in Both([signature_algorithm : {"RSA_PSS"}],
                    Structure("parameters", sa_sign_parameters_rsa_pss))
  <2>1. PICK s \in Structure("parameters", sa_sign_parameters_rsa_pss) :
          /\ x.signature_algorithm = "RSA_PSS"
          /\ DOMAIN x = {"signature_algorithm"} \cup DOMAIN s
    BY <1>1 DEF Both, @@
  <2>2. PICK f \in sa_sign_parameters_rsa_pss :
          DOMAIN s = {"parameters"} \cup DOMAIN f
    BY StructureNames
  <2>3. QED
    BY <2>1, <2>2 DEF sa_sign_parameters_rsa_pss
<1>2. CASE x \in Both([signature_algorithm : {"RSA_PKCS1V15"}],
                    Structure("parameters", sa_sign_parameters_rsa_pkcs1v15))
  <2>1. PICK k \in [signature_algorithm : {"RSA_PKCS1V15"}],
             s \in Structure("parameters", sa_sign_parameters_rsa_pkcs1v15) :
          x = k @@ s
    BY <1>2 DEF Both
  <2>2. /\ x.signature_algorithm = "RSA_PKCS1V15"
        /\ DOMAIN x = {"signature_algorithm"} \cup DOMAIN s
    BY <2>1 DEF @@
  <2>3. PICK f \in sa_sign_parameters_rsa_pkcs1v15 :
          DOMAIN s = {"parameters"} \cup DOMAIN f
    BY StructureNames
  <2>4. QED
    BY <2>2, <2>3 DEF sa_sign_parameters_rsa_pkcs1v15
<1>3. CASE x \in Both([signature_algorithm : {"ECDSA"}],
                    Structure("parameters", sa_sign_parameters_ecdsa))
  <2>1. PICK s \in Structure("parameters", sa_sign_parameters_ecdsa) :
          /\ x.signature_algorithm = "ECDSA"
          /\ DOMAIN x = {"signature_algorithm"} \cup DOMAIN s
    BY <1>3 DEF Both, @@
  <2>2. PICK f \in sa_sign_parameters_ecdsa :
          DOMAIN s = {"parameters"} \cup DOMAIN f
    BY StructureNames
  <2>3. QED
    BY <2>1, <2>2 DEF sa_sign_parameters_ecdsa, sa_sign_parameters_rsa_pkcs1v15
<1>4. QED
  BY <1>1, <1>2, <1>3 DEF sa_sign_parameters

-----------------------------------------------------------------------------
(* Commands with one form of request *)

(* sa_get_version: the result is copied whatever the status. *)
LEMMA GetVersionRight ==
  ASSUME call.command = "SA_GET_VERSION", call.args \in GetVersion
  PROVE  CommandRight
<1> DEFINE a == call.args
           c == request.command
           p == request.params
<1>1. request = sa_get_version(a) /\ dispatched = ta_invoke_get_version(c, p)
  BY DEF request, Client, dispatched, ta_invoke_command_handler
<1>2. /\ p[1] = None
      /\ p[2] = None
      /\ p[3] = None
      /\ c.direction = "INOUT" /\ c.struct = "sa_get_version_s"
      /\ c.fields.version = a.version
  BY <1>1 DEF sa_get_version, Request, Command, NoParams, @@, Same
<1>3. Ordinary
  BY <1>1 DEF sa_get_version, Request, Command, @@, Ordinary, EarlyResults
<1>4. request.returns = [version |-> "version"]
  BY <1>1 DEF sa_get_version, Request, @@
<1>5. DOMAIN a = {"version"}
  BY DEF GetVersion
<1>6. /\ DOMAIN dispatched.args = {"version"}
      /\ dispatched.args.version = c.fields.version
  BY <1>1 DEF ta_invoke_get_version, Handler, @@, Same
<1>7. /\ dispatched.stores = [version |-> "version"]
      /\ dispatched.present
  BY <1>1 DEF ta_invoke_get_version, Handler, @@
<1>8. Sent => Accepted
  <2>1. ASSUME Sent PROVE RefusedByTA \/ dispatched.valid
    BY <1>1, <1>2, <2>1, NoneParts DEF ta_invoke_get_version, Handler, @@,
       Carries, NoOther
  <2>2. ASSUME Sent PROVE RefusedByTA \/ dispatched.present
    BY <1>7
  <2>3. ASSUME Sent PROVE \A i \in 1 .. 3 : WellFormed(p[i])
    BY <1>2, <2>3, NoneParts
  <2>4. QED
    BY <2>1, <2>2, <2>3 DEF Accepted
<1>9. Taken => Arrives
  <2>1. Passed = DOMAIN a
    BY <1>5 DEF Passed
  <2>2. ASSUME Taken, ~ManyOffsets, NEW n \in Passed
        PROVE  n \in DOMAIN dispatched.args /\ dispatched.args[n] = a[n]
    BY <1>2, <1>5, <1>6, <2>1, <2>2, NoneParts DEF Taken
  <2>3. QED
    BY <2>2 DEF Arrives, BufferCommands
<1>10. ResultsLand
  BY <1>4, <1>7 DEF ResultsLand, Landed, Result, Argument
<1>11. QED
  BY ZenonT(60), <1>3, <1>8, <1>9, <1>10 DEF CommandRight

(* sa_get_ta_uuid: the result is copied whatever the status. *)
LEMMA GetTaUuidRight ==
  ASSUME call.command = "SA_GET_TA_UUID", call.args \in GetTaUuid
  PROVE  CommandRight
<1> DEFINE a == call.args
           c == request.command
           p == request.params
<1>1. request = sa_get_ta_uuid(a) /\ dispatched = ta_invoke_get_ta_uuid(c, p)
  BY DEF request, Client, dispatched, ta_invoke_command_handler
<1>2. /\ p[1] = None
      /\ p[2] = None
      /\ p[3] = None
      /\ c.direction = "INOUT" /\ c.struct = "sa_get_ta_uuid_s"
      /\ c.fields.uuid = a.uuid
  BY <1>1 DEF sa_get_ta_uuid, Request, Command, NoParams, @@, Same
<1>3. Ordinary
  BY <1>1 DEF sa_get_ta_uuid, Request, Command, @@, Ordinary, EarlyResults
<1>4. request.returns = [uuid |-> "uuid"]
  BY <1>1 DEF sa_get_ta_uuid, Request, @@
<1>5. DOMAIN a = {"uuid"}
  BY DEF GetTaUuid
<1>6. /\ DOMAIN dispatched.args = {"uuid"}
      /\ dispatched.args.uuid = c.fields.uuid
  BY <1>1 DEF ta_invoke_get_ta_uuid, Handler, @@, Same
<1>7. /\ dispatched.stores = [uuid |-> "uuid"]
      /\ dispatched.present
  BY <1>1 DEF ta_invoke_get_ta_uuid, Handler, @@
<1>8. Sent => Accepted
  <2>1. ASSUME Sent PROVE RefusedByTA \/ dispatched.valid
    BY <1>1, <1>2, <2>1, NoneParts DEF ta_invoke_get_ta_uuid, Handler, @@,
       Carries, NoOther
  <2>2. ASSUME Sent PROVE RefusedByTA \/ dispatched.present
    BY <1>7
  <2>3. ASSUME Sent PROVE \A i \in 1 .. 3 : WellFormed(p[i])
    BY <1>2, <2>3, NoneParts
  <2>4. QED
    BY <2>1, <2>2, <2>3 DEF Accepted
<1>9. Taken => Arrives
  <2>1. Passed = DOMAIN a
    BY <1>5 DEF Passed
  <2>2. ASSUME Taken, ~ManyOffsets, NEW n \in Passed
        PROVE  n \in DOMAIN dispatched.args /\ dispatched.args[n] = a[n]
    BY <1>2, <1>5, <1>6, <2>1, <2>2, NoneParts DEF Taken
  <2>3. QED
    BY <2>2 DEF Arrives, BufferCommands
<1>10. ResultsLand
  BY <1>4, <1>7 DEF ResultsLand, Landed, Result, Argument
<1>11. QED
  BY ZenonT(60), <1>3, <1>8, <1>9, <1>10 DEF CommandRight

(* sa_get_device_id: it keeps the command when it fails. *)
LEMMA GetDeviceIdRight ==
  ASSUME call.command = "SA_GET_DEVICE_ID", call.args \in GetDeviceId
  PROVE  CommandRight
<1> DEFINE a == call.args
           c == request.command
           p == request.params
<1>1. /\ request = sa_get_device_id(a)
      /\ dispatched = ta_invoke_get_device_id(c, p)
  BY DEF request, Client, dispatched, ta_invoke_command_handler
<1>2. /\ p[1] = None
      /\ p[2] = None
      /\ p[3] = None
      /\ c.direction = "INOUT" /\ c.struct = "sa_get_device_id_s"
      /\ c.fields.id = a.id
  BY <1>1 DEF sa_get_device_id, Request, Command, NoParams, @@, Same
<1>3. Ordinary
  BY <1>1 DEF sa_get_device_id, Request, Command, @@, Ordinary, EarlyResults
<1>4. request.returns = [id |-> "id"]
  BY <1>1 DEF sa_get_device_id, Request, @@
<1>5. DOMAIN a = {"id"}
  BY DEF GetDeviceId
<1>6. /\ DOMAIN dispatched.args = {"id"}
      /\ dispatched.args.id = c.fields.id
  BY <1>1 DEF ta_invoke_get_device_id, Handler, @@, Same
<1>7. /\ dispatched.stores = [id |-> "id"]
      /\ dispatched.present
  BY <1>1 DEF ta_invoke_get_device_id, Handler, @@
<1>8. Sent => Accepted
  <2>1. ASSUME Sent PROVE RefusedByTA \/ dispatched.valid
    BY <1>1, <1>2, <2>1, NoneParts DEF ta_invoke_get_device_id, Handler,
       @@, Carries, NoOther
  <2>2. ASSUME Sent PROVE RefusedByTA \/ dispatched.present
    BY <1>7
  <2>3. ASSUME Sent PROVE \A i \in 1 .. 3 : WellFormed(p[i])
    BY <1>2, <2>3, NoneParts
  <2>4. QED
    BY <2>1, <2>2, <2>3 DEF Accepted
<1>9. Taken => Arrives
  <2>1. Passed = DOMAIN a
    BY <1>5 DEF Passed
  <2>2. ASSUME Taken, ~ManyOffsets, NEW n \in Passed
        PROVE  n \in DOMAIN dispatched.args /\ dispatched.args[n] = a[n]
    BY <1>2, <1>5, <1>6, <2>1, <2>2, NoneParts DEF Taken
  <2>3. QED
    BY <2>2 DEF Arrives, BufferCommands
<1>10. ResultsLand
  BY <1>4, <1>7 DEF ResultsLand, Landed, Result, Argument
<1>11. QED
  BY ZenonT(60), <1>3, <1>8, <1>9, <1>10 DEF CommandRight

(* sa_get_name. *)
LEMMA GetNameRight ==
  ASSUME call.command = "SA_GET_NAME", call.args \in GetName
  PROVE  CommandRight
<1> DEFINE a == call.args
           c == request.command
           p == request.params
<1>1. request = sa_get_name(a) /\ dispatched = ta_invoke_get_name(c, p)
  BY DEF request, Client, dispatched, ta_invoke_command_handler
<1>2. /\ p[1] = OptionalOut(a.name, a.name_length)
      /\ p[2] = None
      /\ p[3] = None
      /\ c.direction = "INOUT" /\ c.struct = "sa_get_name_s"
      /\ c.fields.name_length = a.name_length
  BY <1>1 DEF sa_get_name, Request, Command, NoParams, @@, Same
<1>3. Ordinary
  BY <1>1 DEF sa_get_name, Request, Command, @@, Ordinary, EarlyResults
<1>4. request.returns = [name_length |-> "name_length"]
  BY <1>1 DEF sa_get_name, Request, @@
<1>5. DOMAIN a = {"name", "name_length"}
  BY ZenonT(60) DEF GetName
<1>6. /\ DOMAIN dispatched.args = {"name", "name_length"}
      /\ dispatched.args.name = p[1].ref
      /\ dispatched.args.name_length = c.fields.name_length
  BY ZenonT(60), <1>1 DEF ta_invoke_get_name, Handler, @@, Same
<1>7. /\ dispatched.stores = [name_length |-> "name_length"]
      /\ dispatched.present
  BY <1>1 DEF ta_invoke_get_name, Handler, @@
<1>8. Sent => Accepted
  <2>1. ASSUME Sent PROVE RefusedByTA \/ dispatched.valid
    BY <1>1, <1>2, <2>1, NoneParts, OptionalOutParts
       DEF ta_invoke_get_name, Handler, @@, Carries, NoOther
  <2>2. ASSUME Sent PROVE RefusedByTA \/ dispatched.present
    BY <1>7
  <2>3. ASSUME Sent PROVE \A i \in 1 .. 3 : WellFormed(p[i])
    BY <1>2, <2>3, NoneParts, OptionalOutParts
  <2>4. QED
    BY <2>1, <2>2, <2>3 DEF Accepted
<1>9. Taken => Arrives
  <2>1. Passed = DOMAIN a
    BY <1>5 DEF Passed
  <2>2. ASSUME Taken, ~ManyOffsets, NEW n \in Passed
        PROVE  n \in DOMAIN dispatched.args /\ dispatched.args[n] = a[n]
    BY <1>2, <1>5, <1>6, <2>1, <2>2, NoneParts, OptionalOutParts DEF Taken
  <2>3. QED
    BY <2>2 DEF Arrives, BufferCommands
<1>10. ResultsLand
  BY <1>4, <1>7 DEF ResultsLand, Landed, Result, Argument
<1>11. QED
  BY ZenonT(60), <1>3, <1>8, <1>9, <1>10 DEF CommandRight

(* sa_key_export. *)
LEMMA KeyExportRight ==
  ASSUME call.command = "SA_KEY_EXPORT", call.args \in KeyExport
  PROVE  CommandRight
<1> DEFINE a == call.args
           c == request.command
           p == request.params
<1>1. request = sa_key_export(a) /\ dispatched = ta_invoke_key_export(c, p)
  <2>1. request = sa_key_export(a)
    BY ZenonT(60) DEF request, Client, dispatched, ta_invoke_command_handler
  <2>2. dispatched = ta_invoke_key_export(c, p)
    BY ZenonT(60) DEF request, Client, dispatched, ta_invoke_command_handler
  <2>3. QED
    BY ZenonT(60), <2>1, <2>2
<1>2. /\ p[1] = OptionalOut(a.out, a.out_length)
      /\ p[2] = OptionalIn(a.mixin, a.mixin_length)
      /\ p[3] = None
      /\ c.direction = "INOUT" /\ c.struct = "sa_key_export_s"
      /\ c.fields.out_length = a.out_length
      /\ c.fields.key = a.key
  BY <1>1 DEF sa_key_export, Request, Command, NoParams, @@, Same
<1>3. Ordinary
  BY <1>1 DEF sa_key_export, Request, Command, @@, Ordinary, EarlyResults
<1>4. Sent => (a.mixin = NULL => a.mixin_length = Zero)
  BY <1>1 DEF sa_key_export, Request, @@, Sent
<1>5. request.returns = [out_length |-> "out_length"]
  BY <1>1 DEF sa_key_export, Request, @@
<1>6. DOMAIN a = {"out", "out_length", "mixin", "mixin_length", "key"}
  BY DEF KeyExport
<1>7. /\ DOMAIN dispatched.args = {"out", "mixin", "mixin_length",
                                   "out_length", "key"}
      /\ dispatched.args.out = p[1].ref
      /\ dispatched.args.mixin = p[2].ref
      /\ dispatched.args.mixin_length = p[2].size
      /\ dispatched.args.out_length = c.fields.out_length
      /\ dispatched.args.key = c.fields.key
  <2>1. DOMAIN dispatched.args = {"out", "mixin", "mixin_length",
                                  "out_length", "key"}
    BY ZenonT(60), <1>1 DEF ta_invoke_key_export, Handler, @@, Same
  <2>2. dispatched.args.out = p[1].ref
    BY ZenonT(60), <1>1 DEF ta_invoke_key_export, Handler, @@, Same
  <2>3. dispatched.args.mixin = p[2].ref
    BY ZenonT(60), <1>1 DEF ta_invoke_key_export, Handler, @@, Same
  <2>4. dispatched.args.mixin_length = p[2].size
    BY ZenonT(60), <1>1 DEF ta_invoke_key_export, Handler, @@, Same
  <2>5. dispatched.args.out_length = c.fields.out_length
    BY ZenonT(60), <1>1 DEF ta_invoke_key_export, Handler, @@, Same
  <2>6. dispatched.args.key = c.fields.key
    BY ZenonT(60), <1>1 DEF ta_invoke_key_export, Handler, @@, Same
  <2>7. QED
    BY ZenonT(60), <2>1, <2>2, <2>3, <2>4, <2>5, <2>6
<1>8. /\ dispatched.stores = [out_length |-> "out_length"]
      /\ dispatched.present
  <2>1. dispatched.stores = [out_length |-> "out_length"]
    BY ZenonT(60), <1>1 DEF ta_invoke_key_export, Handler, @@
  <2>2. dispatched.present
    BY ZenonT(60), <1>1 DEF ta_invoke_key_export, Handler, @@
  <2>3. QED
    BY ZenonT(60), <2>1, <2>2
<1>9. Sent => Accepted
  <2>1. ASSUME Sent PROVE RefusedByTA \/ dispatched.valid
    <3>1. dispatched.valid =
            (/\ Carries(c, "INOUT", "sa_key_export_s")
             /\ OutOrNull(p[1]) /\ InOrNull(p[2]) /\ IsNull(p[3])
             /\ SizeIs(p[1], c.fields.out_length))
      BY <1>1 DEF ta_invoke_key_export, Handler, @@
    <3>2. QED
      <4>1. OutOrNull(p[1]) /\ SizeIs(p[1], a.out_length)
        BY <1>2, OptionalOutParts
      <4>2. InOrNull(p[2])
        BY <1>2, OptionalInParts
      <4>3. IsNull(p[3])
        BY <1>2, NoneParts
      <4>4. QED
        BY ZenonT(60), <1>2, <3>1, <4>1, <4>2, <4>3 DEF Carries
  <2>2. ASSUME Sent PROVE RefusedByTA \/ dispatched.present
    BY <1>8
  <2>3. ASSUME Sent PROVE \A i \in 1 .. 3 : WellFormed(p[i])
    BY <1>2, <1>4, <2>3, NoneParts, OptionalInParts, OptionalOutParts
  <2>4. QED
    BY <2>1, <2>2, <2>3 DEF Accepted
<1>10. Taken => Arrives
  <2>1. Passed = DOMAIN a
    BY <1>6 DEF Passed
  <2>2. ASSUME Taken, ~ManyOffsets, NEW n \in Passed
        PROVE  n \in DOMAIN dispatched.args /\ dispatched.args[n] = a[n]
    BY <1>2, <1>4, <1>6, <1>7, <2>1, <2>2, NoneParts, OptionalInParts,
       OptionalOutParts DEF Taken
  <2>3. QED
    BY <2>2 DEF Arrives, BufferCommands
<1>11. ResultsLand
  BY <1>5, <1>8 DEF ResultsLand, Landed, Result, Argument
<1>12. QED
  BY ZenonT(60), <1>3, <1>9, <1>10, <1>11 DEF CommandRight

(* sa_key_get_public. *)
LEMMA KeyGetPublicRight ==
  ASSUME call.command = "SA_KEY_GET_PUBLIC", call.args \in KeyGetPublic
  PROVE  CommandRight
<1> DEFINE a == call.args
           c == request.command
           p == request.params
<1>1. /\ request = sa_key_get_public(a)
      /\ dispatched = ta_invoke_key_get_public(c, p)
  BY DEF request, Client, dispatched, ta_invoke_command_handler
<1>2. /\ p[1] = OptionalOut(a.out, a.out_length)
      /\ p[2] = None
      /\ p[3] = None
      /\ c.direction = "INOUT" /\ c.struct = "sa_key_get_public_s"
      /\ c.fields.out_length = a.out_length
      /\ c.fields.key = a.key
  BY <1>1 DEF sa_key_get_public, Request, Command, NoParams, @@, Same,
     Outputs
<1>3. Ordinary
  BY <1>1 DEF sa_key_get_public, Request, Command, @@, Ordinary,
     EarlyResults, Outputs
<1>4. request.returns = [out_length |-> "out_length"]
  BY <1>1 DEF sa_key_get_public, Request, @@, Outputs
<1>5. DOMAIN a = {"out", "out_length", "key"}
  BY ZenonT(60) DEF KeyGetPublic
<1>6. /\ DOMAIN dispatched.args = {"out", "out_length", "key"}
      /\ dispatched.args.out = p[1].ref
      /\ dispatched.args.out_length = c.fields.out_length
      /\ dispatched.args.key = c.fields.key
  <2>1. DOMAIN dispatched.args = {"out", "out_length", "key"}
    BY ZenonT(60), <1>1 DEF ta_invoke_key_get_public, Handler, @@, Same
  <2>2. dispatched.args.out = p[1].ref
    BY ZenonT(60), <1>1 DEF ta_invoke_key_get_public, Handler, @@, Same
  <2>3. dispatched.args.out_length = c.fields.out_length
    BY ZenonT(60), <1>1 DEF ta_invoke_key_get_public, Handler, @@, Same
  <2>4. dispatched.args.key = c.fields.key
    BY ZenonT(60), <1>1 DEF ta_invoke_key_get_public, Handler, @@, Same
  <2>5. QED
    BY ZenonT(60), <2>1, <2>2, <2>3, <2>4
<1>7. /\ dispatched.stores = [out_length |-> "out_length"]
      /\ dispatched.present
  BY <1>1 DEF ta_invoke_key_get_public, Handler, @@
<1>8. Sent => Accepted
  <2>1. ASSUME Sent PROVE RefusedByTA \/ dispatched.valid
    BY <1>1, <1>2, <2>1, NoneParts, OptionalOutParts
       DEF ta_invoke_key_get_public, Handler, @@, Carries, NoOther
  <2>2. ASSUME Sent PROVE RefusedByTA \/ dispatched.present
    BY <1>7
  <2>3. ASSUME Sent PROVE \A i \in 1 .. 3 : WellFormed(p[i])
    BY <1>2, <2>3, NoneParts, OptionalOutParts
  <2>4. QED
    BY ZenonT(60), <2>1, <2>2, <2>3 DEF Accepted
<1>9. Taken => Arrives
  <2>1. Passed = DOMAIN a
    BY <1>5 DEF Passed
  <2>2. ASSUME Taken, ~ManyOffsets, NEW n \in Passed
        PROVE  n \in DOMAIN dispatched.args /\ dispatched.args[n] = a[n]
    BY <1>2, <1>5, <1>6, <2>1, <2>2, NoneParts, OptionalOutParts DEF Taken
  <2>3. QED
    BY <2>2 DEF Arrives, BufferCommands
<1>10. ResultsLand
  BY <1>4, <1>7 DEF ResultsLand, Landed, Result, Argument
<1>11. QED
  BY ZenonT(60), <1>3, <1>8, <1>9, <1>10 DEF CommandRight

(* sa_key_digest. *)
LEMMA KeyDigestRight ==
  ASSUME call.command = "SA_KEY_DIGEST", call.args \in KeyDigest
  PROVE  CommandRight
<1> DEFINE a == call.args
           c == request.command
           p == request.params
<1>1. request = sa_key_digest(a) /\ dispatched = ta_invoke_key_digest(c, p)
  BY DEF request, Client, dispatched, ta_invoke_command_handler
<1>2. /\ p[1] = OptionalOut(a.out, a.out_length)
      /\ p[2] = None
      /\ p[3] = None
      /\ c.direction = "INOUT" /\ c.struct = "sa_key_digest_s"
      /\ c.fields.out_length = a.out_length
      /\ c.fields.key = a.key
      /\ c.fields.digest_algorithm = a.digest_algorithm
  BY <1>1 DEF sa_key_digest, Request, Command, NoParams, @@, Same, Outputs
<1>3. Ordinary
  BY <1>1 DEF sa_key_digest, Request, Command, @@, Ordinary, EarlyResults,
     Outputs
<1>4. request.returns = [out_length |-> "out_length"]
  BY <1>1 DEF sa_key_digest, Request, @@, Outputs
<1>5. DOMAIN a = {"out", "out_length", "key", "digest_algorithm"}
  BY DEF KeyDigest
<1>6. /\ DOMAIN dispatched.args = {"out", "out_length", "key",
                                   "digest_algorithm"}
      /\ dispatched.args.out = p[1].ref
      /\ dispatched.args.out_length = c.fields.out_length
      /\ dispatched.args.key = c.fields.key
      /\ dispatched.args.digest_algorithm = c.fields.digest_algorithm
  <2>1. DOMAIN dispatched.args = {"out", "out_length", "key",
                                  "digest_algorithm"}
    BY ZenonT(60), <1>1 DEF ta_invoke_key_digest, Handler, @@, Same
  <2>2. dispatched.args.out = p[1].ref
    BY ZenonT(60), <1>1 DEF ta_invoke_key_digest, Handler, @@, Same
  <2>3. dispatched.args.out_length = c.fields.out_length
    BY ZenonT(60), <1>1 DEF ta_invoke_key_digest, Handler, @@, Same
  <2>4. dispatched.args.key = c.fields.key
    BY ZenonT(60), <1>1 DEF ta_invoke_key_digest, Handler, @@, Same
  <2>5. dispatched.args.digest_algorithm = c.fields.digest_algorithm
    BY ZenonT(60), <1>1 DEF ta_invoke_key_digest, Handler, @@, Same
  <2>6. QED
    BY ZenonT(60), <2>1, <2>2, <2>3, <2>4, <2>5
<1>7. /\ dispatched.stores = [out_length |-> "out_length"]
      /\ dispatched.present
  BY <1>1 DEF ta_invoke_key_digest, Handler, @@
<1>8. Sent => Accepted
  <2>1. ASSUME Sent PROVE RefusedByTA \/ dispatched.valid
    BY <1>1, <1>2, <2>1, NoneParts, OptionalOutParts
       DEF ta_invoke_key_digest, Handler, @@, Carries, NoOther
  <2>2. ASSUME Sent PROVE RefusedByTA \/ dispatched.present
    BY <1>7
  <2>3. ASSUME Sent PROVE \A i \in 1 .. 3 : WellFormed(p[i])
    BY <1>2, <2>3, NoneParts, OptionalOutParts
  <2>4. QED
    BY <2>1, <2>2, <2>3 DEF Accepted
<1>9. Taken => Arrives
  <2>1. Passed = DOMAIN a
    BY <1>5 DEF Passed
  <2>2. ASSUME Taken, ~ManyOffsets, NEW n \in Passed
        PROVE  n \in DOMAIN dispatched.args /\ dispatched.args[n] = a[n]
    BY <1>2, <1>5, <1>6, <2>1, <2>2, NoneParts, OptionalOutParts DEF Taken
  <2>3. QED
    BY <2>2 DEF Arrives, BufferCommands
<1>10. ResultsLand
  BY <1>4, <1>7 DEF ResultsLand, Landed, Result, Argument
<1>11. QED
  BY ZenonT(60), <1>3, <1>8, <1>9, <1>10 DEF CommandRight

(* sa_crypto_mac_compute. *)
LEMMA MacComputeRight ==
  ASSUME call.command = "SA_CRYPTO_MAC_COMPUTE", call.args \in MacCompute
  PROVE  CommandRight
<1> DEFINE a == call.args
           c == request.command
           p == request.params
<1>1. /\ request = sa_crypto_mac_compute(a)
      /\ dispatched = ta_invoke_crypto_mac_compute(c, p)
  BY DEF request, Client, dispatched, ta_invoke_command_handler
<1>2. /\ p[1] = OptionalOut(a.out, a.out_length)
      /\ p[2] = None
      /\ p[3] = None
      /\ c.direction = "INOUT" /\ c.struct = "sa_crypto_mac_compute_s"
      /\ c.fields.out_length = a.out_length
      /\ c.fields.context = a.context
  BY <1>1 DEF sa_crypto_mac_compute, Request, Command, NoParams, @@, Same,
     Outputs
<1>3. Ordinary
  BY <1>1 DEF sa_crypto_mac_compute, Request, Command, @@, Ordinary,
     EarlyResults, Outputs
<1>4. request.returns = [out_length |-> "out_length"]
  BY <1>1 DEF sa_crypto_mac_compute, Request, @@, Outputs
<1>5. DOMAIN a = {"out", "out_length", "context"}
  BY ZenonT(60) DEF MacCompute
<1>6. /\ DOMAIN dispatched.args = {"out", "out_length", "context"}
      /\ dispatched.args.out = p[1].ref
      /\ dispatched.args.out_length = c.fields.out_length
      /\ dispatched.args.context = c.fields.context
  <2>1. DOMAIN dispatched.args = {"out", "out_length", "context"}
    BY ZenonT(60), <1>1 DEF ta_invoke_crypto_mac_compute, Handler, @@, Same
  <2>2. dispatched.args.out = p[1].ref
    BY ZenonT(60), <1>1 DEF ta_invoke_crypto_mac_compute, Handler, @@, Same
  <2>3. dispatched.args.out_length = c.fields.out_length
    BY ZenonT(60), <1>1 DEF ta_invoke_crypto_mac_compute, Handler, @@, Same
  <2>4. dispatched.args.context = c.fields.context
    BY ZenonT(60), <1>1 DEF ta_invoke_crypto_mac_compute, Handler, @@, Same
  <2>5. QED
    BY ZenonT(60), <2>1, <2>2, <2>3, <2>4
<1>7. /\ dispatched.stores = [out_length |-> "out_length"]
      /\ dispatched.present
  BY <1>1 DEF ta_invoke_crypto_mac_compute, Handler, @@
<1>8. Sent => Accepted
  <2>1. ASSUME Sent PROVE RefusedByTA \/ dispatched.valid
    BY <1>1, <1>2, <2>1, NoneParts, OptionalOutParts
       DEF ta_invoke_crypto_mac_compute, Handler, @@, Carries, NoOther
  <2>2. ASSUME Sent PROVE RefusedByTA \/ dispatched.present
    BY <1>7
  <2>3. ASSUME Sent PROVE \A i \in 1 .. 3 : WellFormed(p[i])
    BY <1>2, <2>3, NoneParts, OptionalOutParts
  <2>4. QED
    BY <2>1, <2>2, <2>3 DEF Accepted
<1>9. Taken => Arrives
  <2>1. Passed = DOMAIN a
    BY <1>5 DEF Passed
  <2>2. ASSUME Taken, ~ManyOffsets, NEW n \in Passed
        PROVE  n \in DOMAIN dispatched.args /\ dispatched.args[n] = a[n]
    BY <1>2, <1>5, <1>6, <2>1, <2>2, NoneParts, OptionalOutParts DEF Taken
  <2>3. QED
    BY <2>2 DEF Arrives, BufferCommands
<1>10. ResultsLand
  BY <1>4, <1>7 DEF ResultsLand, Landed, Result, Argument
<1>11. QED
  BY ZenonT(60), <1>3, <1>8, <1>9, <1>10 DEF CommandRight

(* sa_key_release. *)
LEMMA KeyReleaseRight ==
  ASSUME call.command = "SA_KEY_RELEASE", call.args \in KeyRelease
  PROVE  CommandRight
<1> DEFINE a == call.args
           c == request.command
           p == request.params
<1>1. request = sa_key_release(a) /\ dispatched = ta_invoke_key_release(c, p)
  BY DEF request, Client, dispatched, ta_invoke_command_handler
<1>2. /\ p[1] = None
      /\ p[2] = None
      /\ p[3] = None
      /\ c.direction = "IN" /\ c.struct = "sa_key_release_s"
      /\ c.fields.key = a.key
  BY <1>1 DEF sa_key_release, Request, Command, NoParams, @@, Same
<1>3. Ordinary
  BY <1>1 DEF sa_key_release, Request, Command, @@, Ordinary, EarlyResults
<1>4. request.returns = <<>>
  BY <1>1 DEF sa_key_release, Request, @@
<1>5. DOMAIN a = {"key"}
  BY DEF KeyRelease
<1>6. /\ DOMAIN dispatched.args = {"key"}
      /\ dispatched.args.key = c.fields.key
  BY <1>1 DEF ta_invoke_key_release, Handler, @@, Same
<1>7. /\ dispatched.stores = <<>>
      /\ dispatched.present
  BY <1>1 DEF ta_invoke_key_release, Handler, @@
<1>8. Sent => Accepted
  <2>1. ASSUME Sent PROVE RefusedByTA \/ dispatched.valid
    BY <1>1, <1>2, <2>1, NoneParts DEF ta_invoke_key_release, Handler, @@,
       Carries, NoOther
  <2>2. ASSUME Sent PROVE RefusedByTA \/ dispatched.present
    BY <1>7
  <2>3. ASSUME Sent PROVE \A i \in 1 .. 3 : WellFormed(p[i])
    BY <1>2, <2>3, NoneParts
  <2>4. QED
    BY <2>1, <2>2, <2>3 DEF Accepted
<1>9. Taken => Arrives
  <2>1. Passed = DOMAIN a
    BY <1>5 DEF Passed
  <2>2. ASSUME Taken, ~ManyOffsets, NEW n \in Passed
        PROVE  n \in DOMAIN dispatched.args /\ dispatched.args[n] = a[n]
    BY <1>2, <1>5, <1>6, <2>1, <2>2, NoneParts DEF Taken
  <2>3. QED
    BY <2>2 DEF Arrives, BufferCommands
<1>10. ResultsLand
  BY <1>4, <1>7 DEF ResultsLand, Landed, Result, Argument
<1>11. QED
  BY ZenonT(60), <1>3, <1>8, <1>9, <1>10 DEF CommandRight

(* sa_key_header: the header goes through the first parameter. *)
LEMMA KeyHeaderRight ==
  ASSUME call.command = "SA_KEY_HEADER", call.args \in KeyHeader,
     NullIsNoFunction
  PROVE  CommandRight
<1> DEFINE a == call.args
           c == request.command
           p == request.params
<1>1. request = sa_key_header(a) /\ dispatched = ta_invoke_key_header(c, p)
  BY DEF request, Client, dispatched, ta_invoke_command_handler
<1>2. /\ p[1] = StructParam("OUT", Struct("sa_header_s", [header |-> Unset]))
      /\ p[2] = None
      /\ p[3] = None
      /\ c.direction = "INOUT" /\ c.struct = "sa_key_header_s"
      /\ c.fields.key = a.key
  BY <1>1 DEF sa_key_header, Request, Command, NoParams, @@, Same
<1>3. Ordinary
  BY <1>1 DEF sa_key_header, Request, Command, @@, Ordinary, EarlyResults
<1>4. request.returns = [header |-> "header"]
  BY <1>1 DEF sa_key_header, Request, @@
<1>5. DOMAIN a = {"header", "key"}
  BY DEF KeyHeader
<1>6. /\ DOMAIN dispatched.args = {"key"}
      /\ dispatched.args.key = c.fields.key
  BY <1>1 DEF ta_invoke_key_header, Handler, @@, Same
<1>7. /\ dispatched.stores = [header |-> "header"]
      /\ dispatched.present
  BY <1>1 DEF ta_invoke_key_header, Handler, @@
<1>8. Sent => Accepted
  <2>1. ASSUME Sent PROVE RefusedByTA \/ dispatched.valid
    BY <1>1, <1>2, <2>1, NoneParts, StructParts, StructParamParts
       DEF ta_invoke_key_header, Handler, @@, Carries, NoOther, IsOut
  <2>2. ASSUME Sent PROVE RefusedByTA \/ dispatched.present
    BY <1>7
  <2>3. ASSUME Sent PROVE \A i \in 1 .. 3 : WellFormed(p[i])
    BY <1>2, <2>3, NoneParts, StructParts, StructParamParts
  <2>4. QED
    BY <2>1, <2>2, <2>3 DEF Accepted
<1>9. Taken => Arrives
  <2>1. Passed = {"key"}
    BY <1>5 DEF Passed
  <2>2. ASSUME Taken, ~ManyOffsets, NEW n \in Passed
        PROVE  n \in DOMAIN dispatched.args /\ dispatched.args[n] = a[n]
    BY <1>2, <1>5, <1>6, <2>1, <2>2, NoneParts, StructParts,
       StructParamParts DEF Taken
  <2>3. QED
    BY <2>2 DEF Arrives, BufferCommands
<1>10. ResultsLand
  BY <1>4, <1>7 DEF ResultsLand, Landed, Result, Argument
<1>11. QED
  BY ZenonT(60), <1>3, <1>8, <1>9, <1>10 DEF CommandRight

(* sa_crypto_random. *)
LEMMA CryptoRandomRight ==
  ASSUME call.command = "SA_CRYPTO_RANDOM", call.args \in CryptoRandom
  PROVE  CommandRight
<1> DEFINE a == call.args
           c == request.command
           p == request.params
<1>1. /\ request = sa_crypto_random(a)
      /\ dispatched = ta_invoke_crypto_random(c, p)
  BY DEF request, Client, dispatched, ta_invoke_command_handler
<1>2. /\ p[1] = Out(a.out, a.length)
      /\ p[2] = None
      /\ p[3] = None
      /\ c.direction = "IN" /\ c.struct = "sa_crypto_random_s"
  BY <1>1 DEF sa_crypto_random, Request, Command, NoParams, @@, Same
<1>3. Ordinary
  BY <1>1 DEF sa_crypto_random, Request, Command, @@, Ordinary, EarlyResults
<1>4. Sent => a.out # NULL
  BY <1>1 DEF sa_crypto_random, Request, @@, Sent
<1>5. request.returns = <<>>
  BY <1>1 DEF sa_crypto_random, Request, @@
<1>6. DOMAIN a = {"out", "length"}
  BY DEF CryptoRandom
<1>7. /\ DOMAIN dispatched.args = {"out", "length"}
      /\ dispatched.args.out = p[1].ref
      /\ dispatched.args.length = p[1].size
  BY <1>1 DEF ta_invoke_crypto_random, Handler, @@, Same
<1>8. /\ dispatched.stores = <<>>
      /\ Filled(p[1]) => dispatched.present
  BY <1>1 DEF ta_invoke_crypto_random, Handler, @@
<1>9. a.length = Zero => RefusedByTA
  BY <1>6 DEF RefusedByTA, Missing
<1>10. Sent => Accepted
  <2>1. ASSUME Sent PROVE RefusedByTA \/ dispatched.valid
    BY <1>1, <1>2, <1>4, <2>1, NoneParts, OutParts
       DEF ta_invoke_crypto_random, Handler, @@, Carries, NoOther
  <2>2. ASSUME Sent PROVE RefusedByTA \/ dispatched.present
    BY <1>8, <1>2, <1>4, <1>9, <2>2, NoneParts, OutParts DEF Filled
  <2>3. ASSUME Sent PROVE \A i \in 1 .. 3 : WellFormed(p[i])
    BY <1>2, <1>4, <2>3, NoneParts, OutParts
  <2>4. QED
    BY <2>1, <2>2, <2>3 DEF Accepted
<1>11. Taken => Arrives
  <2>1. Passed = DOMAIN a
    BY <1>6 DEF Passed
  <2>2. ASSUME Taken, ~ManyOffsets, NEW n \in Passed
        PROVE  n \in DOMAIN dispatched.args /\ dispatched.args[n] = a[n]
    BY <1>2, <1>4, <1>6, <1>7, <2>1, <2>2, NoneParts, OutParts DEF Taken
  <2>3. QED
    BY <2>2 DEF Arrives, BufferCommands
<1>12. ResultsLand
  BY <1>5, <1>8 DEF ResultsLand, Landed, Result, Argument
<1>13. QED
  BY ZenonT(60), <1>3, <1>10, <1>11, <1>12 DEF CommandRight

(* sa_crypto_cipher_update_iv. *)
LEMMA CipherUpdateIvRight ==
  ASSUME call.command = "SA_CRYPTO_CIPHER_UPDATE_IV",
     call.args \in CipherUpdateIv
  PROVE  CommandRight
<1> DEFINE a == call.args
           c == request.command
           p == request.params
<1>1. /\ request = sa_crypto_cipher_update_iv(a)
      /\ dispatched = ta_invoke_crypto_cipher_update_iv(c, p)
  BY DEF request, Client, dispatched, ta_invoke_command_handler
<1>2. /\ p[1] = In(a.iv, a.iv_length)
      /\ p[2] = None
      /\ p[3] = None
      /\ c.direction = "IN" /\ c.struct = "sa_crypto_cipher_update_iv_s"
      /\ c.fields.context = a.context
  BY <1>1 DEF sa_crypto_cipher_update_iv, Request, Command, NoParams, @@,
     Same
<1>3. Ordinary
  BY <1>1 DEF sa_crypto_cipher_update_iv, Request, Command, @@, Ordinary,
     EarlyResults
<1>4. Sent => a.iv # NULL
  BY <1>1 DEF sa_crypto_cipher_update_iv, Request, @@, Sent
<1>5. request.returns = <<>>
  BY <1>1 DEF sa_crypto_cipher_update_iv, Request, @@
<1>6. DOMAIN a = {"context", "iv", "iv_length"}
  BY DEF CipherUpdateIv
<1>7. /\ DOMAIN dispatched.args = {"iv", "iv_length", "context"}
      /\ dispatched.args.iv = p[1].ref
      /\ dispatched.args.iv_length = p[1].size
      /\ dispatched.args.context = c.fields.context
  BY ZenonT(60), <1>1 DEF ta_invoke_crypto_cipher_update_iv, Handler, @@, Same
<1>8. /\ dispatched.stores = <<>>
      /\ Filled(p[1]) => dispatched.present
  BY ZenonT(60), <1>1 DEF ta_invoke_crypto_cipher_update_iv, Handler, @@
<1>9. a.iv_length = Zero => RefusedByTA
  BY <1>6 DEF RefusedByTA, Missing
<1>10. Sent => Accepted
  <2>1. ASSUME Sent PROVE RefusedByTA \/ dispatched.valid
    BY <1>1, <1>2, <1>4, <2>1, NoneParts, InParts
       DEF ta_invoke_crypto_cipher_update_iv, Handler, @@, Carries, NoOther
  <2>2. ASSUME Sent PROVE RefusedByTA \/ dispatched.present
    BY <1>8, <1>2, <1>4, <1>9, <2>2, NoneParts, InParts DEF Filled
  <2>3. ASSUME Sent PROVE \A i \in 1 .. 3 : WellFormed(p[i])
    BY <1>2, <1>4, <2>3, NoneParts, InParts
  <2>4. QED
    BY <2>1, <2>2, <2>3 DEF Accepted
<1>11. Taken => Arrives
  <2>1. Passed = DOMAIN a
    BY <1>6 DEF Passed
  <2>2. ASSUME Taken, ~ManyOffsets, NEW n \in Passed
        PROVE  n \in DOMAIN dispatched.args /\ dispatched.args[n] = a[n]
    BY <1>2, <1>4, <1>6, <1>7, <2>1, <2>2, NoneParts, InParts DEF Taken
  <2>3. QED
    BY <2>2 DEF Arrives, BufferCommands
<1>12. ResultsLand
  BY <1>5, <1>8 DEF ResultsLand, Landed, Result, Argument
<1>13. QED
  BY ZenonT(60), <1>3, <1>10, <1>11, <1>12 DEF CommandRight

(* sa_crypto_cipher_release. *)
LEMMA CipherReleaseRight ==
  ASSUME call.command = "SA_CRYPTO_CIPHER_RELEASE", call.args \in CipherRelease
  PROVE  CommandRight
<1> DEFINE a == call.args
           c == request.command
           p == request.params
<1>1. /\ request = sa_crypto_cipher_release(a)
      /\ dispatched = ta_invoke_crypto_cipher_release(c, p)
  BY DEF request, Client, dispatched, ta_invoke_command_handler
<1>2. /\ p[1] = None
      /\ p[2] = None
      /\ p[3] = None
      /\ c.direction = "IN" /\ c.struct = "sa_crypto_cipher_release_s"
      /\ c.fields.cipher_context = a.context
  BY <1>1 DEF sa_crypto_cipher_release, Request, Command, NoParams, @@, Same
<1>3. Ordinary
  BY <1>1 DEF sa_crypto_cipher_release, Request, Command, @@, Ordinary,
     EarlyResults
<1>4. request.returns = <<>>
  BY <1>1 DEF sa_crypto_cipher_release, Request, @@
<1>5. DOMAIN a = {"context"}
  BY DEF CipherRelease
<1>6. /\ DOMAIN dispatched.args = {"context"}
      /\ dispatched.args.context = c.fields.cipher_context
  BY <1>1 DEF ta_invoke_crypto_cipher_release, Handler, @@, Same
<1>7. /\ dispatched.stores = <<>>
      /\ dispatched.present
  BY <1>1 DEF ta_invoke_crypto_cipher_release, Handler, @@
<1>8. Sent => Accepted
  <2>1. ASSUME Sent PROVE RefusedByTA \/ dispatched.valid
    BY <1>1, <1>2, <2>1, NoneParts DEF ta_invoke_crypto_cipher_release,
       Handler, @@, Carries, NoOther
  <2>2. ASSUME Sent PROVE RefusedByTA \/ dispatched.present
    BY <1>7
  <2>3. ASSUME Sent PROVE \A i \in 1 .. 3 : WellFormed(p[i])
    BY <1>2, <2>3, NoneParts
  <2>4. QED
    BY <2>1, <2>2, <2>3 DEF Accepted
<1>9. Taken => Arrives
  <2>1. Passed = DOMAIN a
    BY <1>5 DEF Passed
  <2>2. ASSUME Taken, ~ManyOffsets, NEW n \in Passed
        PROVE  n \in DOMAIN dispatched.args /\ dispatched.args[n] = a[n]
    BY <1>2, <1>5, <1>6, <2>1, <2>2, NoneParts DEF Taken
  <2>3. QED
    BY <2>2 DEF Arrives, BufferCommands
<1>10. ResultsLand
  BY <1>4, <1>7 DEF ResultsLand, Landed, Result, Argument
<1>11. QED
  BY ZenonT(60), <1>3, <1>8, <1>9, <1>10 DEF CommandRight

(* sa_crypto_mac_release. *)
LEMMA MacReleaseRight ==
  ASSUME call.command = "SA_CRYPTO_MAC_RELEASE", call.args \in MacRelease
  PROVE  CommandRight
<1> DEFINE a == call.args
           c == request.command
           p == request.params
<1>1. /\ request = sa_crypto_mac_release(a)
      /\ dispatched = ta_invoke_crypto_mac_release(c, p)
  BY DEF request, Client, dispatched, ta_invoke_command_handler
<1>2. /\ p[1] = None
      /\ p[2] = None
      /\ p[3] = None
      /\ c.direction = "IN" /\ c.struct = "sa_crypto_mac_release_s"
      /\ c.fields.context = a.context
  BY <1>1 DEF sa_crypto_mac_release, Request, Command, NoParams, @@, Same
<1>3. Ordinary
  BY <1>1 DEF sa_crypto_mac_release, Request, Command, @@, Ordinary,
     EarlyResults
<1>4. request.returns = <<>>
  BY <1>1 DEF sa_crypto_mac_release, Request, @@
<1>5. DOMAIN a = {"context"}
  BY DEF MacRelease
<1>6. /\ DOMAIN dispatched.args = {"context"}
      /\ dispatched.args.context = c.fields.context
  BY <1>1 DEF ta_invoke_crypto_mac_release, Handler, @@, Same
<1>7. /\ dispatched.stores = <<>>
      /\ dispatched.present
  BY <1>1 DEF ta_invoke_crypto_mac_release, Handler, @@
<1>8. Sent => Accepted
  <2>1. ASSUME Sent PROVE RefusedByTA \/ dispatched.valid
    BY <1>1, <1>2, <2>1, NoneParts DEF ta_invoke_crypto_mac_release,
       Handler, @@, Carries, NoOther
  <2>2. ASSUME Sent PROVE RefusedByTA \/ dispatched.present
    BY <1>7
  <2>3. ASSUME Sent PROVE \A i \in 1 .. 3 : WellFormed(p[i])
    BY <1>2, <2>3, NoneParts
  <2>4. QED
    BY <2>1, <2>2, <2>3 DEF Accepted
<1>9. Taken => Arrives
  <2>1. Passed = DOMAIN a
    BY <1>5 DEF Passed
  <2>2. ASSUME Taken, ~ManyOffsets, NEW n \in Passed
        PROVE  n \in DOMAIN dispatched.args /\ dispatched.args[n] = a[n]
    BY <1>2, <1>5, <1>6, <2>1, <2>2, NoneParts DEF Taken
  <2>3. QED
    BY <2>2 DEF Arrives, BufferCommands
<1>10. ResultsLand
  BY <1>4, <1>7 DEF ResultsLand, Landed, Result, Argument
<1>11. QED
  BY ZenonT(60), <1>3, <1>8, <1>9, <1>10 DEF CommandRight

(* sa_crypto_mac_process_key. *)
LEMMA MacProcessKeyRight ==
  ASSUME call.command = "SA_CRYPTO_MAC_PROCESS_KEY",
     call.args \in MacProcessKey
  PROVE  CommandRight
<1> DEFINE a == call.args
           c == request.command
           p == request.params
<1>1. /\ request = sa_crypto_mac_process_key(a)
      /\ dispatched = ta_invoke_crypto_mac_process_key(c, p)
  BY DEF request, Client, dispatched, ta_invoke_command_handler
<1>2. /\ p[1] = None
      /\ p[2] = None
      /\ p[3] = None
      /\ c.direction = "IN" /\ c.struct = "sa_crypto_mac_process_key_s"
      /\ c.fields.mac_context = a.context
      /\ c.fields.key = a.key
  BY <1>1 DEF sa_crypto_mac_process_key, Request, Command, NoParams, @@,
     Same
<1>3. Ordinary
  BY <1>1 DEF sa_crypto_mac_process_key, Request, Command, @@, Ordinary,
     EarlyResults
<1>4. request.returns = <<>>
  BY <1>1 DEF sa_crypto_mac_process_key, Request, @@
<1>5. DOMAIN a = {"context", "key"}
  BY DEF MacProcessKey
<1>6. /\ DOMAIN dispatched.args = {"context", "key"}
      /\ dispatched.args.context = c.fields.mac_context
      /\ dispatched.args.key = c.fields.key
  BY <1>1 DEF ta_invoke_crypto_mac_process_key, Handler, @@, Same
<1>7. /\ dispatched.stores = <<>>
      /\ dispatched.present
  BY <1>1 DEF ta_invoke_crypto_mac_process_key, Handler, @@
<1>8. Sent => Accepted
  <2>1. ASSUME Sent PROVE RefusedByTA \/ dispatched.valid
    BY <1>1, <1>2, <2>1, NoneParts DEF ta_invoke_crypto_mac_process_key,
       Handler, @@, Carries, NoOther
  <2>2. ASSUME Sent PROVE RefusedByTA \/ dispatched.present
    BY <1>7
  <2>3. ASSUME Sent PROVE \A i \in 1 .. 3 : WellFormed(p[i])
    BY <1>2, <2>3, NoneParts
  <2>4. QED
    BY <2>1, <2>2, <2>3 DEF Accepted
<1>9. Taken => Arrives
  <2>1. Passed = DOMAIN a
    BY <1>5 DEF Passed
  <2>2. ASSUME Taken, ~ManyOffsets, NEW n \in Passed
        PROVE  n \in DOMAIN dispatched.args /\ dispatched.args[n] = a[n]
    BY <1>2, <1>5, <1>6, <2>1, <2>2, NoneParts DEF Taken
  <2>3. QED
    BY <2>2 DEF Arrives, BufferCommands
<1>10. ResultsLand
  BY <1>4, <1>7 DEF ResultsLand, Landed, Result, Argument
<1>11. QED
  BY ZenonT(60), <1>3, <1>8, <1>9, <1>10 DEF CommandRight

(* sa_crypto_mac_process. *)
LEMMA MacProcessRight ==
  ASSUME call.command = "SA_CRYPTO_MAC_PROCESS", call.args \in MacProcess
  PROVE  CommandRight
<1> DEFINE a == call.args
           c == request.command
           p == request.params
<1>1. /\ request = sa_crypto_mac_process(a)
      /\ dispatched = ta_invoke_crypto_mac_process(c, p)
  BY DEF request, Client, dispatched, ta_invoke_command_handler
<1>2. /\ p[1] = OptionalIn(a.in, a.in_length)
      /\ p[2] = None
      /\ p[3] = None
      /\ c.direction = "IN" /\ c.struct = "sa_crypto_mac_process_s"
      /\ c.fields.mac_context = a.context
  BY <1>1 DEF sa_crypto_mac_process, Request, Command, NoParams, @@, Same
<1>3. Ordinary
  BY <1>1 DEF sa_crypto_mac_process, Request, Command, @@, Ordinary,
     EarlyResults
<1>4. Sent => (a.in = NULL => a.in_length = Zero)
  BY <1>1 DEF sa_crypto_mac_process, Request, @@, Sent
<1>5. request.returns = <<>>
  BY <1>1 DEF sa_crypto_mac_process, Request, @@
<1>6. DOMAIN a = {"context", "in", "in_length"}
  BY DEF MacProcess
<1>7. /\ DOMAIN dispatched.args = {"context", "in", "in_length"}
      /\ dispatched.args.context = c.fields.mac_context
      /\ dispatched.args.in = p[1].ref
      /\ dispatched.args.in_length = p[1].size
  BY ZenonT(60), <1>1 DEF ta_invoke_crypto_mac_process, Handler, @@, Same
<1>8. /\ dispatched.stores = <<>>
      /\ dispatched.present
  BY ZenonT(60), <1>1 DEF ta_invoke_crypto_mac_process, Handler, @@
<1>9. Sent => Accepted
  <2>1. ASSUME Sent PROVE RefusedByTA \/ dispatched.valid
    BY <1>1, <1>2, <1>4, <2>1, NoneParts, OptionalInParts
       DEF ta_invoke_crypto_mac_process, Handler, @@, Carries, NoOther
  <2>2. ASSUME Sent PROVE RefusedByTA \/ dispatched.present
    BY <1>8
  <2>3. ASSUME Sent PROVE \A i \in 1 .. 3 : WellFormed(p[i])
    BY <1>2, <1>4, <2>3, NoneParts, OptionalInParts
  <2>4. QED
    BY <2>1, <2>2, <2>3 DEF Accepted
<1>10. Taken => Arrives
  <2>1. Passed = DOMAIN a
    BY <1>6 DEF Passed
  <2>2. ASSUME Taken, ~ManyOffsets, NEW n \in Passed
        PROVE  n \in DOMAIN dispatched.args /\ dispatched.args[n] = a[n]
    BY <1>2, <1>4, <1>6, <1>7, <2>1, <2>2, NoneParts, OptionalInParts
       DEF Taken
  <2>3. QED
    BY <2>2 DEF Arrives, BufferCommands
<1>11. ResultsLand
  BY <1>5, <1>8 DEF ResultsLand, Landed, Result, Argument
<1>12. QED
  BY ZenonT(60), <1>3, <1>9, <1>10, <1>11 DEF CommandRight

(* sa_svp_supported. *)
LEMMA SvpSupportedRight ==
  ASSUME call.command = "SA_SVP_SUPPORTED", call.args \in SvpSupported
  PROVE  CommandRight
<1> DEFINE a == call.args
           c == request.command
           p == request.params
<1>1. /\ request = sa_svp_supported(svp)
      /\ dispatched = ta_invoke_svp_supported(c, p)
  BY DEF request, Client, dispatched, ta_invoke_command_handler
<1>2. /\ p[1] = None
      /\ p[2] = None
      /\ p[3] = None
      /\ c.direction = "IN" /\ c.struct = "sa_svp_supported_s"
  BY <1>1 DEF sa_svp_supported, Request, Command, NoParams, @@, Same
<1>3. Ordinary
  BY <1>1 DEF sa_svp_supported, Request, Command, @@, Ordinary, EarlyResults
<1>4. request.returns = <<>>
  BY <1>1 DEF sa_svp_supported, Request, @@
<1>5. DOMAIN a = {}
  BY DEF SvpSupported
<1>6. DOMAIN dispatched.args = {}
  BY <1>1 DEF ta_invoke_svp_supported, Handler, @@, Same
<1>7. /\ dispatched.stores = <<>>
      /\ dispatched.present
  BY <1>1 DEF ta_invoke_svp_supported, Handler, @@
<1>8. Sent => Accepted
  <2>1. ASSUME Sent PROVE RefusedByTA \/ dispatched.valid
    BY <1>1, <1>2, <2>1, NoneParts DEF ta_invoke_svp_supported, Handler,
       @@, Carries, NoOther
  <2>2. ASSUME Sent PROVE RefusedByTA \/ dispatched.present
    BY <1>7
  <2>3. ASSUME Sent PROVE \A i \in 1 .. 3 : WellFormed(p[i])
    BY <1>2, <2>3, NoneParts
  <2>4. QED
    BY <2>1, <2>2, <2>3 DEF Accepted
<1>9. Taken => Arrives
  <2>1. Passed = DOMAIN a
    BY <1>5 DEF Passed
  <2>2. ASSUME Taken, ~ManyOffsets, NEW n \in Passed
        PROVE  n \in DOMAIN dispatched.args /\ dispatched.args[n] = a[n]
    BY <1>2, <1>5, <1>6, <2>1, <2>2, NoneParts DEF Taken
  <2>3. QED
    BY <2>2 DEF Arrives, BufferCommands
<1>10. ResultsLand
  BY <1>4, <1>7 DEF ResultsLand, Landed, Result, Argument
<1>11. QED
  BY ZenonT(60), <1>3, <1>8, <1>9, <1>10 DEF CommandRight

(* sa_svp_buffer_create. *)
LEMMA SvpBufferCreateRight ==
  ASSUME call.command = "SA_SVP_BUFFER_CREATE", call.args \in SvpBufferCreate
  PROVE  CommandRight
<1> DEFINE a == call.args
           c == request.command
           p == request.params
<1>1. /\ request = sa_svp_buffer_create(a)
      /\ dispatched = ta_invoke_svp_buffer_create(c, p)
  BY DEF request, Client, dispatched, ta_invoke_command_handler
<1>2. /\ p[1] = None
      /\ p[2] = None
      /\ p[3] = None
      /\ c.direction = "INOUT" /\ c.struct = "sa_svp_buffer_create_s"
      /\ c.fields.svp_buffer = a.svp_buffer
      /\ c.fields.svp_memory = a.svp_memory
      /\ c.fields.size = a.size
  BY <1>1 DEF sa_svp_buffer_create, Request, Command, NoParams, @@, Same
<1>3. Ordinary
  BY <1>1 DEF sa_svp_buffer_create, Request, Command, @@, Ordinary,
     EarlyResults
<1>4. request.returns = [svp_buffer |-> "svp_buffer"]
  BY <1>1 DEF sa_svp_buffer_create, Request, @@
<1>5. DOMAIN a = {"svp_buffer", "svp_memory", "size"}
  BY DEF SvpBufferCreate
<1>6. /\ DOMAIN dispatched.args = {"svp_buffer", "svp_memory", "size"}
      /\ dispatched.args.svp_buffer = c.fields.svp_buffer
      /\ dispatched.args.svp_memory = c.fields.svp_memory
      /\ dispatched.args.size = c.fields.size
  BY <1>1 DEF ta_invoke_svp_buffer_create, Handler, @@, Same
<1>7. /\ dispatched.stores = [svp_buffer |-> "svp_buffer"]
      /\ dispatched.present
  BY <1>1 DEF ta_invoke_svp_buffer_create, Handler, @@
<1>8. Sent => Accepted
  <2>1. ASSUME Sent PROVE RefusedByTA \/ dispatched.valid
    BY <1>1, <1>2, <2>1, NoneParts DEF ta_invoke_svp_buffer_create,
       Handler, @@, Carries, NoOther
  <2>2. ASSUME Sent PROVE RefusedByTA \/ dispatched.present
    BY <1>7
  <2>3. ASSUME Sent PROVE \A i \in 1 .. 3 : WellFormed(p[i])
    BY <1>2, <2>3, NoneParts
  <2>4. QED
    BY <2>1, <2>2, <2>3 DEF Accepted
<1>9. Taken => Arrives
  <2>1. Passed = DOMAIN a
    BY <1>5 DEF Passed
  <2>2. ASSUME Taken, ~ManyOffsets, NEW n \in Passed
        PROVE  n \in DOMAIN dispatched.args /\ dispatched.args[n] = a[n]
    BY <1>2, <1>5, <1>6, <2>1, <2>2, NoneParts DEF Taken
  <2>3. QED
    BY <2>2 DEF Arrives, BufferCommands
<1>10. ResultsLand
  BY <1>4, <1>7 DEF ResultsLand, Landed, Result, Argument
<1>11. QED
  BY ZenonT(60), <1>3, <1>8, <1>9, <1>10 DEF CommandRight

(* sa_svp_buffer_release. *)
LEMMA SvpBufferReleaseRight ==
  ASSUME call.command = "SA_SVP_BUFFER_RELEASE", call.args \in SvpBufferRelease
  PROVE  CommandRight
<1> DEFINE a == call.args
           c == request.command
           p == request.params
<1>1. /\ request = sa_svp_buffer_release(a)
      /\ dispatched = ta_invoke_svp_buffer_release(c, p)
  BY DEF request, Client, dispatched, ta_invoke_command_handler
<1>2. /\ p[1] = None
      /\ p[2] = None
      /\ p[3] = None
      /\ c.direction = "INOUT" /\ c.struct = "sa_svp_buffer_release_s"
      /\ c.fields.svp_buffer = a.svp_buffer
  BY <1>1 DEF sa_svp_buffer_release, Request, Command, NoParams, @@, Same
<1>3. Ordinary
  BY <1>1 DEF sa_svp_buffer_release, Request, Command, @@, Ordinary,
     EarlyResults
<1>4. request.returns = [svp_memory |-> "svp_memory", size |-> "size"]
  BY <1>1 DEF sa_svp_buffer_release, Request, @@
<1>5. DOMAIN a = {"svp_memory", "size", "svp_buffer"}
  BY DEF SvpBufferRelease
<1>6. /\ DOMAIN dispatched.args = {"svp_buffer"}
      /\ dispatched.args.svp_buffer = c.fields.svp_buffer
  BY <1>1 DEF ta_invoke_svp_buffer_release, Handler, @@, Same
<1>7. /\ dispatched.stores = [svp_memory |-> "svp_memory", size |-> "size"]
      /\ dispatched.present
  BY <1>1 DEF ta_invoke_svp_buffer_release, Handler, @@
<1>8. Sent => Accepted
  <2>1. ASSUME Sent PROVE RefusedByTA \/ dispatched.valid
    BY <1>1, <1>2, <2>1, NoneParts DEF ta_invoke_svp_buffer_release,
       Handler, @@, Carries, NoOther
  <2>2. ASSUME Sent PROVE RefusedByTA \/ dispatched.present
    BY <1>7
  <2>3. ASSUME Sent PROVE \A i \in 1 .. 3 : WellFormed(p[i])
    BY <1>2, <2>3, NoneParts
  <2>4. QED
    BY <2>1, <2>2, <2>3 DEF Accepted
<1>9. Taken => Arrives
  <2>1. Passed = {"svp_buffer"}
    BY <1>5 DEF Passed
  <2>2. ASSUME Taken, ~ManyOffsets, NEW n \in Passed
        PROVE  n \in DOMAIN dispatched.args /\ dispatched.args[n] = a[n]
    BY <1>2, <1>5, <1>6, <2>1, <2>2, NoneParts DEF Taken
  <2>3. QED
    BY <2>2 DEF Arrives, BufferCommands
<1>10. ResultsLand
  BY <1>4, <1>7 DEF ResultsLand, Landed, Result, Argument
<1>11. QED
  BY ZenonT(60), <1>3, <1>8, <1>9, <1>10 DEF CommandRight

(* sa_svp_buffer_check. *)
LEMMA SvpBufferCheckRight ==
  ASSUME call.command = "SA_SVP_BUFFER_CHECK", call.args \in SvpBufferCheck
  PROVE  CommandRight
<1> DEFINE a == call.args
           c == request.command
           p == request.params
<1>1. /\ request = sa_svp_buffer_check(a)
      /\ dispatched = ta_invoke_svp_buffer_check(c, p)
  BY ZenonT(60) DEF request, Client, dispatched, ta_invoke_command_handler
<1>2. /\ p[1] = In(a.hash, a.hash_length)
      /\ p[2] = None
      /\ p[3] = None
      /\ c.direction = "IN" /\ c.struct = "sa_svp_buffer_check_s"
      /\ c.fields.svp_buffer = a.svp_buffer
      /\ c.fields.offset = a.offset
      /\ c.fields.length = a.length
      /\ c.fields.digest_algorithm = a.digest_algorithm
  BY <1>1 DEF sa_svp_buffer_check, Request, Command, NoParams, @@, Same
<1>3. Ordinary
  BY <1>1 DEF sa_svp_buffer_check, Request, Command, @@, Ordinary,
     EarlyResults
<1>4. Sent => a.hash # NULL
  BY ZenonT(60), <1>1 DEF sa_svp_buffer_check, Request, @@, Sent
<1>5. request.returns = <<>>
  BY <1>1 DEF sa_svp_buffer_check, Request, @@
<1>6. DOMAIN a = {"svp_buffer", "offset", "length", "digest_algorithm",
                  "hash", "hash_length"}
  BY DEF SvpBufferCheck
<1>7. /\ DOMAIN dispatched.args = {"svp_buffer", "offset", "length",
                                   "digest_algorithm", "hash", "hash_length"}
      /\ dispatched.args.svp_buffer = c.fields.svp_buffer
      /\ dispatched.args.offset = c.fields.offset
      /\ dispatched.args.length = c.fields.length
      /\ dispatched.args.digest_algorithm = c.fields.digest_algorithm
      /\ dispatched.args.hash = p[1].ref
      /\ dispatched.args.hash_length = p[1].size
  <2>1. DOMAIN dispatched.args = {"svp_buffer", "offset", "length",
                                  "digest_algorithm", "hash", "hash_length"}
    BY ZenonT(60), <1>1 DEF ta_invoke_svp_buffer_check, Handler, @@, Same
  <2>2. dispatched.args.svp_buffer = c.fields.svp_buffer
    BY ZenonT(60), <1>1 DEF ta_invoke_svp_buffer_check, Handler, @@, Same
  <2>3. dispatched.args.offset = c.fields.offset
    BY ZenonT(60), <1>1 DEF ta_invoke_svp_buffer_check, Handler, @@, Same
  <2>4. dispatched.args.length = c.fields.length
    BY ZenonT(60), <1>1 DEF ta_invoke_svp_buffer_check, Handler, @@, Same
  <2>5. dispatched.args.digest_algorithm = c.fields.digest_algorithm
    BY ZenonT(60), <1>1 DEF ta_invoke_svp_buffer_check, Handler, @@, Same
  <2>6. dispatched.args.hash = p[1].ref
    BY ZenonT(60), <1>1 DEF ta_invoke_svp_buffer_check, Handler, @@, Same
  <2>7. dispatched.args.hash_length = p[1].size
    BY ZenonT(60), <1>1 DEF ta_invoke_svp_buffer_check, Handler, @@, Same
  <2>8. QED
    BY ZenonT(60), <2>1, <2>2, <2>3, <2>4, <2>5, <2>6, <2>7
<1>8. /\ dispatched.stores = <<>>
      /\ Filled(p[1]) => dispatched.present
  BY <1>1 DEF ta_invoke_svp_buffer_check, Handler, @@
<1>9. a.hash_length = Zero => RefusedByTA
  BY <1>6 DEF RefusedByTA, Missing
<1>10. Sent => Accepted
  <2>1. ASSUME Sent PROVE RefusedByTA \/ dispatched.valid
    BY <1>1, <1>2, <1>4, <2>1, NoneParts, InParts
       DEF ta_invoke_svp_buffer_check, Handler, @@, Carries, NoOther
  <2>2. ASSUME Sent PROVE RefusedByTA \/ dispatched.present
    BY <1>8, <1>2, <1>4, <1>9, <2>2, NoneParts, InParts DEF Filled
  <2>3. ASSUME Sent PROVE \A i \in 1 .. 3 : WellFormed(p[i])
    BY <1>2, <1>4, <2>3, NoneParts, InParts
  <2>4. QED
    BY <2>1, <2>2, <2>3 DEF Accepted
<1>11. Taken => Arrives
  <2>1. Passed = DOMAIN a
    BY <1>6 DEF Passed
  <2>2. ASSUME Taken, ~ManyOffsets, NEW n \in Passed
        PROVE  n \in DOMAIN dispatched.args /\ dispatched.args[n] = a[n]
    BY <1>2, <1>4, <1>6, <1>7, <2>1, <2>2, NoneParts, InParts DEF Taken
  <2>3. QED
    BY <2>2 DEF Arrives, BufferCommands
<1>12. ResultsLand
  BY <1>5, <1>8 DEF ResultsLand, Landed, Result, Argument
<1>13. QED
  BY ZenonT(60), <1>3, <1>10, <1>11, <1>12 DEF CommandRight

-----------------------------------------------------------------------------
(* Commands whose request depends on an algorithm, a type or a format *)

(* sa_key_generate: the parameters depend on the type of the key. *)
LEMMA KeyGenerateRight ==
  ASSUME call.command = "SA_KEY_GENERATE", call.args \in KeyGenerate
  PROVE  CommandRight
<1> DEFINE a == call.args
           c == request.command
           p == request.params
<1>1. request = sa_key_generate(a) /\ dispatched = ta_invoke_key_generate(c, p)
  BY DEF request, Client, dispatched, ta_invoke_command_handler
<1>2. /\ c.direction = "INOUT" /\ c.struct = "sa_key_generate_s"
      /\ c.fields.key = a.key
      /\ c.fields.rights = a.rights
      /\ c.fields.key_type = a.key_type
      /\ a.key_type = "SYMMETRIC" => c.fields.key_length = a.key_length
      /\ a.key_type = "RSA" => c.fields.key_length = a.modulus_length
      /\ a.key_type = "EC" => c.fields.key_length = a.curve
  BY ZenonT(60), <1>1 DEF sa_key_generate, Request, Command, @@
<1>3. IF a.key_type = "DH"
      THEN p[1] = In(a.p, a.p_length) /\ p[2] = In(a.g, a.g_length) /\ p[3] = None
      ELSE p[1] = None /\ p[2] = None /\ p[3] = None
  BY ZenonT(60), <1>1 DEF sa_key_generate, Request, NoParams, @@
<1>4. Ordinary
  BY ZenonT(60), <1>1 DEF sa_key_generate, Request, Command, @@, Ordinary
<1>5. ASSUME Sent
      PROVE  /\ a.key_type \in {"SYMMETRIC", "RSA", "EC", "DH"}
             /\ a.key_type = "DH" => a.p # NULL /\ a.g # NULL
  BY ZenonT(60), <1>1, <1>5 DEF sa_key_generate, Request, @@, Sent
<1>6. request.returns = [key |-> "key"]
  BY <1>1 DEF sa_key_generate, Request, @@
<1>7. PICK g \in sa_generate_parameters :
        a.key_type = g.key_type /\ DOMAIN a = {"key", "rights"} \cup DOMAIN g
  <2>1. PICK f \in [key : Pointer("key"), rights : Pointer("rights")],
             g \in sa_generate_parameters : a = f @@ g
    BY DEF KeyGenerate, Both
  <2>2. "key_type" \in DOMAIN g
    BY GenerateNames
  <2>3. QED
    BY <2>1, <2>2 DEF @@
<1>8. /\ Gets("key", c.fields.key)
      /\ Gets("rights", c.fields.rights)
      /\ Gets("key_type", c.fields.key_type)
  BY ZenonT(60), <1>1 DEF ta_invoke_key_generate, Handler, @@, Same, Gets
<1>9. /\ c.fields.key_type = "SYMMETRIC" =>
           Gets("key_length", c.fields.key_length)
      /\ c.fields.key_type = "RSA" =>
           Gets("modulus_length", c.fields.key_length)
      /\ c.fields.key_type = "EC" => Gets("curve", c.fields.key_length)
  BY ZenonT(60), <1>1 DEF ta_invoke_key_generate, Handler, @@, Same, Gets
<1>10. c.fields.key_type = "DH" =>
         /\ Gets("p", p[1].ref) /\ Gets("p_length", p[1].size)
         /\ Gets("g", p[2].ref) /\ Gets("g_length", p[2].size)
  BY ZenonT(60), <1>1 DEF ta_invoke_key_generate, Handler, @@, Same, Gets
<1>11. /\ dispatched.stores = [key |-> "key"]
       /\ (c.fields.key_type = "DH" => p[1].ref # NULL /\ p[2].ref # NULL) =>
            dispatched.present
  BY ZenonT(60), <1>1 DEF ta_invoke_key_generate, Handler, @@
<1>12. Sent => Accepted
  <2>1. ASSUME Sent PROVE dispatched.valid
    <3>1. /\ InOrNull(p[1]) /\ InOrNull(p[2]) /\ IsNull(p[3])
          /\ Carries(c, "INOUT", "sa_key_generate_s")
      BY <1>2, <1>3, NoneParts, InParts DEF Carries
    <3>2. QED
      BY ZenonT(60), <1>1, <3>1 DEF ta_invoke_key_generate, Handler, @@
  <2>2. ASSUME Sent PROVE dispatched.present
    BY <1>2, <1>3, <1>5, <1>11, <2>2, InParts
  <2>3. ASSUME Sent PROVE \A i \in 1 .. 3 : WellFormed(p[i])
    BY <1>3, <1>5, <2>3, NoneParts, InParts
  <2>4. QED
    BY <2>1, <2>2, <2>3 DEF Accepted
<1>13. Taken => Arrives
  <2>1. Passed = DOMAIN a \ {"parameters"}
    BY <1>7, GenerateNames DEF Passed
  <2>2. ASSUME Taken, NEW n \in Passed PROVE Gets(n, a[n])
    <3>1. n \in {"key", "rights", "key_type"} => Gets(n, a[n])
      BY <1>2, <1>8
    <3>2. CASE a.key_type = "SYMMETRIC"
      <4>1. n \in {"key", "rights", "key_type"} \/ n = "key_length"
        BY ZenonT(60), <1>7, <2>1, <2>2, <3>2, GenerateNames
      <4>2. Gets("key_length", a.key_length)
        BY <1>2, <1>9, <3>2
      <4>3. QED
        BY <3>1, <4>1, <4>2
    <3>3. CASE a.key_type = "RSA"
      <4>1. n \in {"key", "rights", "key_type"} \/ n = "modulus_length"
        BY <1>7, <2>1, <2>2, <3>3, GenerateNames
      <4>2. Gets("modulus_length", a.modulus_length)
        BY <1>2, <1>9, <3>3
      <4>3. QED
        BY <3>1, <4>1, <4>2
    <3>4. CASE a.key_type = "EC"
      <4>1. n \in {"key", "rights", "key_type"} \/ n = "curve"
        BY ZenonT(60), <1>7, <2>1, <2>2, <3>4, GenerateNames
      <4>2. Gets("curve", a.curve)
        BY <1>2, <1>9, <3>4
      <4>3. QED
        BY <3>1, <4>1, <4>2
    <3>5. CASE a.key_type = "DH"
      <4>1. /\ p[1].ref = a.p /\ p[1].size = a.p_length
            /\ p[2].ref = a.g /\ p[2].size = a.g_length
        BY <1>3, <3>5, InParts
      <4>2. /\ Gets("p", a.p) /\ Gets("p_length", a.p_length)
            /\ Gets("g", a.g) /\ Gets("g_length", a.g_length)
        BY <1>2, <1>10, <3>5, <4>1
      <4>3. n \in {"key", "rights", "key_type", "p", "p_length", "g", "g_length"}
        BY <1>7, <2>1, <2>2, <3>5, GenerateNames
      <4>4. QED
        BY <3>1, <4>2, <4>3
    <3>6. QED
      BY <1>5, <2>2, <3>2, <3>3, <3>4, <3>5 DEF Taken
  <2>3. QED
    BY <2>2 DEF Arrives, BufferCommands, Gets
<1>14. ResultsLand
  BY <1>6, <1>11 DEF ResultsLand, Landed, Result, Argument
<1>15. QED
  BY ZenonT(60), <1>4, <1>12, <1>13, <1>14 DEF CommandRight

(* SoC keys have parameters of some length, or none. *)
LEMMA SocParameters ==
  ASSUME NEW x \in sa_import_parameters, x.key_format = "SOC",
         x.parameters = NULL, NullIsNoFunction
  PROVE  x.parameters_length = Zero
<1>1. x \notin Both([key_format : {"SYMMETRIC_BYTES", "RSA_PRIVATE_KEY_INFO"}],
                    Structure("parameters", sa_import_parameters_symmetric))
  <2> SUFFICES ASSUME NEW k \in [key_format : {"SYMMETRIC_BYTES",
                                               "RSA_PRIVATE_KEY_INFO"}],
                      NEW s, x = k @@ s
               PROVE  FALSE
    BY DEF Both
  <2>1. QED
    BY DEF @@
<1>2. x \notin Both([key_format : {"EC_PRIVATE_BYTES"}],
                    Structure("parameters",
                              sa_import_parameters_ec_private_bytes))
  <2> SUFFICES ASSUME NEW k \in [key_format : {"EC_PRIVATE_BYTES"}],
                      NEW s, x = k @@ s
               PROVE  FALSE
    BY DEF Both
  <2>1. QED
    BY DEF @@
<1>3. x \in [key_format : {"SOC"}, parameters : Given("parameters"),
             parameters_length : LengthInside]
      \/ x \in [key_format : {"SOC"}, parameters : {NULL},
                parameters_length : {Zero}]
  BY <1>1, <1>2 DEF sa_import_parameters
<1>4. CASE x \in [key_format : {"SOC"}, parameters : Given("parameters"),
                  parameters_length : LengthInside]
  BY <1>4 DEF Given, NullIsNoFunction
<1>5. QED
  BY <1>3, <1>4

(* sa_key_import: the second parameter depends on the format. *)
LEMMA KeyImportRight ==
  ASSUME call.command = "SA_KEY_IMPORT", call.args \in KeyImport,
         NullIsNoFunction
  PROVE  CommandRight
<1> DEFINE a == call.args
           c == request.command
           p == request.params
<1>1. request = sa_key_import(a) /\ dispatched = ta_invoke_key_import(c, p)
  BY ZenonT(60) DEF request, Client, dispatched, ta_invoke_command_handler
<1>2. /\ c.direction = "INOUT" /\ c.struct = "sa_key_import_s"
      /\ c.fields.key = a.key
      /\ c.fields.key_format = a.key_format
      /\ a.key_format = "EC_PRIVATE_BYTES" => c.fields.curve = a.curve
  BY ZenonT(60), <1>1 DEF sa_key_import, Request, Command, @@
<1>3. /\ p[1] = OptionalIn(a.in, a.in_length)
      /\ p[3] = None
      /\ a.key_format \in RightsFormats =>
           p[2] = In(a.rights, sizeof("sa_rights"))
      /\ a.key_format = "TYPEJ" =>
           p[2] = In(a.parameters, sizeof("sa_import_parameters_typej"))
      /\ a.key_format = "SOC" =>
           p[2] = OptionalIn(a.parameters, a.parameters_length)
      /\ a.key_format = "EXPORTED" => p[2] = None
  <2>1. p[1] = OptionalIn(a.in, a.in_length)
    BY ZenonT(60), <1>1 DEF sa_key_import, Request, RightsFormats, @@
  <2>2. p[3] = None
    BY ZenonT(60), <1>1 DEF sa_key_import, Request, RightsFormats, @@
  <2>3. a.key_format \in RightsFormats =>
          p[2] = In(a.rights, sizeof("sa_rights"))
    BY ZenonT(60), <1>1 DEF sa_key_import, Request, RightsFormats, @@
  <2>4. a.key_format = "TYPEJ" =>
          p[2] = In(a.parameters, sizeof("sa_import_parameters_typej"))
    BY ZenonT(60), <1>1 DEF sa_key_import, Request, RightsFormats, @@
  <2>5. a.key_format = "SOC" =>
          p[2] = OptionalIn(a.parameters, a.parameters_length)
    BY ZenonT(60), <1>1 DEF sa_key_import, Request, RightsFormats, @@
  <2>6. a.key_format = "EXPORTED" => p[2] = None
    BY ZenonT(60), <1>1 DEF sa_key_import, Request, RightsFormats, @@
  <2>7. QED
    BY ZenonT(60), <2>1, <2>2, <2>3, <2>4, <2>5, <2>6
<1>4. Ordinary
  <2>1. ~request.keeps
    BY ZenonT(60), <1>1 DEF sa_key_import, Request, @@
  <2>2. ~request.always
    BY ZenonT(60), <1>1 DEF sa_key_import, Request, @@
  <2>3. QED
    BY ZenonT(60), <1>2, <2>1, <2>2 DEF Ordinary
<1>5. ASSUME Sent
      PROVE  /\ a.key_format \in RightsFormats \cup {"EXPORTED", "TYPEJ", "SOC"}
             /\ a.in = NULL => a.in_length = Zero
             /\ a.key_format \in RightsFormats => a.rights # NULL
             /\ a.key_format = "TYPEJ" => a.parameters # NULL
  BY <1>1, <1>5 DEF sa_key_import, Request, @@, Sent
<1>6. request.returns = [key |-> "key"]
  BY ZenonT(60), <1>1 DEF sa_key_import, Request, @@
<1>7. PICK g \in sa_import_parameters :
        /\ a.key_format = g.key_format
        /\ DOMAIN a = {"key", "in", "in_length"} \cup DOMAIN g
        /\ \A n \in DOMAIN g \ {"key", "in", "in_length"} : a[n] = g[n]
  <2>1. PICK f \in [key : Pointer("key"), in : Pointer("in"),
                    in_length : Length("in_length")],
             g \in sa_import_parameters : a = f @@ g
    BY DEF KeyImport, Both
  <2>2. "key_format" \in DOMAIN g
    BY ImportNames
  <2>3. QED
    BY <2>1, <2>2 DEF @@
<1>8. /\ Gets("in", p[1].ref) /\ Gets("in_length", p[1].size)
      /\ Gets("key", c.fields.key) /\ Gets("key_format", c.fields.key_format)
  BY ZenonT(60), <1>1 DEF ta_invoke_key_import, Handler, @@, Same, Gets
<1>9. /\ c.fields.key_format \in RightsFormats => Gets("rights", p[2].ref)
      /\ c.fields.key_format = "EC_PRIVATE_BYTES" =>
           Gets("curve", c.fields.curve)
      /\ c.fields.key_format = "TYPEJ" => Gets("parameters", p[2].ref)
  <2>1. c.fields.key_format = "EC_PRIVATE_BYTES" =>
          Gets("curve", c.fields.curve)
    <3>1. c.fields.key_format = "EC_PRIVATE_BYTES" =>
            "curve" \in DOMAIN dispatched.args
      BY ZenonT(60), <1>1 DEF ta_invoke_key_import, Handler, @@, Same
    <3>2. c.fields.key_format = "EC_PRIVATE_BYTES" =>
            dispatched.args["curve"] = c.fields.curve
      BY ZenonT(60), <1>1 DEF ta_invoke_key_import, Handler, @@, Same
    <3>3. QED
      BY <3>1, <3>2 DEF Gets
  <2>5. c.fields.key_format = "EC_PRIVATE_BYTES" => Gets("rights", p[2].ref)
    BY ZenonT(60), <1>1 DEF ta_invoke_key_import, Handler, @@, Same, Gets
  <2>2. c.fields.key_format \in {"SYMMETRIC_BYTES", "RSA_PRIVATE_KEY_INFO"} =>
          Gets("rights", p[2].ref)
    BY ZenonT(60), <1>1 DEF ta_invoke_key_import, Handler, @@, Same, Gets
  <2>3. c.fields.key_format = "TYPEJ" => Gets("parameters", p[2].ref)
    BY ZenonT(60), <1>1 DEF ta_invoke_key_import, Handler, @@, Same, Gets
  <2>4. QED
    BY <2>1, <2>2, <2>3, <2>5 DEF RightsFormats
<1>19. c.fields.key_format = "SOC" =>
         Gets("parameters", p[2].ref) /\ Gets("parameters_length", p[2].size)
  BY ZenonT(60), <1>1 DEF ta_invoke_key_import, Handler, @@, Same, Gets
<1>10. /\ dispatched.stores = [key |-> "key"]
       /\ dispatched.present =
            (/\ Filled(p[1])
             /\ c.fields.key_format \in RightsFormats \cup {"TYPEJ"} =>
                  IsIn(p[2]) /\ p[2].ref # NULL
             /\ c.fields.key_format = "EXPORTED" => IsNull(p[2])
             /\ c.fields.key_format = "SOC" /\ IsIn(p[2]) => Filled(p[2]))
  BY ZenonT(60), <1>1 DEF ta_invoke_key_import, Handler, @@, RightsFormats
<1>11. dispatched.valid =
         (/\ Carries(c, "INOUT", "sa_key_import_s")
          /\ IsIn(p[1]) /\ InOrNull(p[2]) /\ IsNull(p[3])
          /\ c.fields.key_format \in RightsFormats =>
               p[2].size = sizeof("sa_rights")
          /\ c.fields.key_format = "TYPEJ" =>
               p[2].size = sizeof("sa_import_parameters_typej")
          /\ c.fields.key_format = "SOC" /\ IsIn(p[2]) => Fits(p[2]))
  BY ZenonT(60), <1>1 DEF ta_invoke_key_import, Handler, @@, RightsFormats
<1>12. ASSUME Sent
       PROVE  /\ p[1].ref = a.in /\ p[1].size = a.in_length
              /\ WellFormed(p[1])
              /\ a.in # NULL => IsIn(p[1])
  BY <1>3, <1>5, <1>12, OptionalInParts
<1>13. ASSUME Sent
       PROVE  /\ WellFormed(p[2]) /\ InOrNull(p[2])
              /\ a.key_format \in RightsFormats =>
                   p[2].ref = a.rights /\ p[2].size = sizeof("sa_rights")
              /\ a.key_format = "TYPEJ" =>
                   /\ p[2].ref = a.parameters
                   /\ p[2].size = sizeof("sa_import_parameters_typej")
              /\ a.key_format \in RightsFormats \cup {"TYPEJ"} => IsIn(p[2])
              /\ a.key_format = "SOC" =>
                   /\ p[2].ref = a.parameters
                   /\ a.parameters # NULL => p[2].size = a.parameters_length
  BY <1>3, <1>5, <1>13, OptionalInParts, InParts, NoneParts DEF RightsFormats
<1>14. ASSUME Sent, a.key_format = "SOC"
       PROVE  p[2].size = a.parameters_length
  <2>1. a.parameters = NULL => a.parameters_length = Zero
    BY <1>7, <1>14, ImportNames, SocParameters
  <2>2. QED
    BY <1>3, <1>14, <2>1, OptionalInParts
<1>15. Sent => Accepted
  <2>1. /\ a.in = NULL => RefusedByTA
        /\ a.in_length = Zero => RefusedByTA
        /\ /\ a.key_format = "SOC" /\ a.parameters # NULL
           /\ a.parameters_length \in {Zero, Oversized}
           => RefusedByTA
    BY <1>7, ImportNames DEF RefusedByTA, Missing
  <2>6. ASSUME Sent, a.key_format = "SOC", IsIn(p[2])
        PROVE  a.parameters # NULL /\ (RefusedByTA \/ Fits(p[2]))
    BY <1>13, <1>14, <2>1, <2>6 DEF Fits, IsIn, WellFormed
  <2>2. ASSUME Sent PROVE RefusedByTA \/ dispatched.valid
    BY <1>2, <1>3, <1>11, <1>12, <1>13, <2>1, <2>2, <2>6, NoneParts DEF Carries
  <2>3. ASSUME Sent PROVE RefusedByTA \/ dispatched.present
    <3>1. RefusedByTA \/ Filled(p[1])
      BY <1>12, <2>1, <2>3 DEF Filled
    <3>2. a.key_format \in RightsFormats \cup {"TYPEJ"} =>
            IsIn(p[2]) /\ p[2].ref # NULL
      BY <1>5, <1>13, <2>3
    <3>3. a.key_format = "EXPORTED" => IsNull(p[2])
      BY <1>3, NoneParts
    <3>4. a.key_format = "SOC" /\ IsIn(p[2]) => RefusedByTA \/ Filled(p[2])
      <4>1. a.key_format = "SOC" /\ IsIn(p[2]) => p[2].ref # NULL
        BY <1>13, <2>3 DEF IsIn, WellFormed
      <4>2. QED
        BY <1>14, <2>1, <2>3, <2>6, <4>1 DEF Filled
    <3>5. QED
      BY <1>2, <1>10, <3>1, <3>2, <3>3, <3>4
  <2>4. ASSUME Sent PROVE \A i \in 1 .. 3 : WellFormed(p[i])
    BY <1>3, <1>12, <1>13, <2>4, NoneParts
  <2>5. QED
    BY <2>2, <2>3, <2>4 DEF Accepted
<1>16. Taken => Arrives
  <2>1. Passed = DOMAIN a \ (IF a.key_format \in RightsFormats
                             THEN {"parameters"} ELSE {})
    BY DEF Passed
  <2>2. ASSUME Taken, NEW n \in Passed PROVE Gets(n, a[n])
    <3>1. n \in {"key", "key_format", "in", "in_length"} => Gets(n, a[n])
      BY <1>2, <1>8, <1>12, <2>2 DEF Taken
    <3>2. CASE a.key_format \in RightsFormats
      <4>1. n \in {"key", "key_format", "in", "in_length", "rights"}
            \/ (n = "curve" /\ a.key_format = "EC_PRIVATE_BYTES")
        <5>1. a.key_format \in {"SYMMETRIC_BYTES", "RSA_PRIVATE_KEY_INFO"} =>
                DOMAIN g = {"key_format", "parameters", "rights"}
          BY <1>7, ImportNames
        <5>2. a.key_format = "EC_PRIVATE_BYTES" =>
                DOMAIN g = {"key_format", "parameters", "rights", "curve"}
          BY <1>7, ImportNames
        <5>3. n # "parameters" /\ n \in DOMAIN a
          BY <2>1, <2>2, <3>2
        <5>4. CASE a.key_format = "EC_PRIVATE_BYTES"
          BY <1>7, <5>2, <5>3, <5>4
        <5>5. CASE a.key_format \in {"SYMMETRIC_BYTES", "RSA_PRIVATE_KEY_INFO"}
          <6>1. DOMAIN a = {"key", "in", "in_length", "key_format",
                            "parameters", "rights"}
            BY <1>7, <5>1, <5>5
          <6>2. n \in {"key", "in", "in_length", "key_format", "parameters",
                       "rights"}
            BY <5>3, <6>1
          <6>3. n \in {"key", "in", "in_length", "key_format", "rights"}
            BY ZenonT(60), <5>3, <6>2
          <6>4. QED
            BY <6>3
        <5>6. QED
          BY <3>2, <5>4, <5>5 DEF RightsFormats
      <4>2. QED
        BY <1>2, <1>9, <1>13, <2>2, <3>1, <3>2, <4>1 DEF Taken
    <3>3. CASE a.key_format = "TYPEJ"
      <4>1. n \in {"key", "key_format", "in", "in_length", "parameters"}
        BY <1>7, <2>1, <2>2, <3>3, ImportNames DEF RightsFormats
      <4>2. QED
        BY <1>2, <1>9, <1>13, <2>2, <3>1, <3>3, <4>1 DEF Taken
    <3>4. CASE a.key_format = "SOC"
      <4>1. n \in {"key", "key_format", "in", "in_length", "parameters",
                   "parameters_length"}
        BY <1>7, <2>1, <2>2, <3>4, ImportNames DEF RightsFormats
      <4>2. QED
        BY <1>2, <1>13, <1>14, <1>19, <2>2, <3>1, <3>4, <4>1 DEF Taken
    <3>5. CASE a.key_format = "EXPORTED"
      <4>1. n \in {"key", "key_format", "in", "in_length"}
        BY <1>7, <2>1, <2>2, <3>5, ImportNames DEF RightsFormats
      <4>2. QED
        BY <3>1, <4>1
    <3>6. QED
      BY <1>5, <2>2, <3>2, <3>3, <3>4, <3>5 DEF Taken
  <2>3. QED
    BY <2>2 DEF Arrives, BufferCommands, Gets
<1>17. ResultsLand
  BY <1>6, <1>10 DEF ResultsLand, Landed, Result, Argument
<1>18. QED
  BY ZenonT(60), <1>4, <1>15, <1>16, <1>17 DEF CommandRight

(* sa_crypto_mac_init: only a HMAC has parameters. *)
LEMMA MacInitRight ==
  ASSUME call.command = "SA_CRYPTO_MAC_INIT", call.args \in MacInit
  PROVE  CommandRight
<1> DEFINE a == call.args
           c == request.command
           p == request.params
<1>1. /\ request = sa_crypto_mac_init(a)
      /\ dispatched = ta_invoke_crypto_mac_init(c, p)
  BY ZenonT(60) DEF request, Client, dispatched, ta_invoke_command_handler
<1>2. /\ c.direction = "INOUT" /\ c.struct = "sa_crypto_mac_init_s"
      /\ c.fields.context = a.context
      /\ c.fields.mac_algorithm = a.mac_algorithm
      /\ c.fields.key = a.key
  BY ZenonT(60), <1>1 DEF sa_crypto_mac_init, Request, Command, @@, Same
<1>3. a.mac_algorithm = "HMAC" => c.fields.digest_algorithm = a.digest_algorithm
  BY ZenonT(60), <1>1 DEF sa_crypto_mac_init, Request, Command, @@, Same
<1>4. p[1] = None /\ p[2] = None /\ p[3] = None
  <2>1. p[1] = None
    BY ZenonT(60), <1>1 DEF sa_crypto_mac_init, Request, NoParams, @@
  <2>2. p[2] = None
    BY ZenonT(60), <1>1 DEF sa_crypto_mac_init, Request, NoParams, @@
  <2>3. p[3] = None
    BY ZenonT(60), <1>1 DEF sa_crypto_mac_init, Request, NoParams, @@
  <2>4. QED
    BY ZenonT(60), <2>1, <2>2, <2>3
<1>5. Ordinary
  BY <1>1 DEF sa_crypto_mac_init, Request, Command, @@, Ordinary
<1>6. request.returns = [context |-> "context"]
  BY <1>1 DEF sa_crypto_mac_init, Request, @@
<1>7. PICK g \in sa_mac_parameters :
        /\ a.mac_algorithm = g.mac_algorithm
        /\ DOMAIN a = {"context", "key"} \cup DOMAIN g
  <2>1. PICK f \in [context : Pointer("context"), key : Given("key")],
             g \in sa_mac_parameters : a = f @@ g
    BY DEF MacInit, Both
  <2>2. "mac_algorithm" \in DOMAIN g
    BY MacNames
  <2>3. QED
    BY <2>1, <2>2 DEF @@
<1>8. /\ Gets("context", c.fields.context)
      /\ Gets("key", c.fields.key)
      /\ Gets("mac_algorithm", c.fields.mac_algorithm)
  <2>1. Gets("context", c.fields.context)
    BY ZenonT(60), <1>1 DEF ta_invoke_crypto_mac_init, Handler, @@, Same, Gets
  <2>2. Gets("key", c.fields.key)
    BY ZenonT(60), <1>1 DEF ta_invoke_crypto_mac_init, Handler, @@, Same, Gets
  <2>3. Gets("mac_algorithm", c.fields.mac_algorithm)
    BY ZenonT(60), <1>1 DEF ta_invoke_crypto_mac_init, Handler, @@, Same, Gets
  <2>4. QED
    BY ZenonT(60), <2>1, <2>2, <2>3
<1>9. c.fields.mac_algorithm = "HMAC" =>
        Gets("digest_algorithm", c.fields.digest_algorithm)
  BY <1>1 DEF ta_invoke_crypto_mac_init, Handler, @@, Same, Gets
<1>10. dispatched.stores = [context |-> "context"] /\ dispatched.present
  BY <1>1 DEF ta_invoke_crypto_mac_init, Handler, @@
<1>11. Sent => Accepted
  <2>1. dispatched.valid
    BY <1>1, <1>2, <1>4, NoneParts
       DEF ta_invoke_crypto_mac_init, Handler, @@, Carries, NoOther
  <2>2. \A i \in 1 .. 3 : WellFormed(p[i])
    BY <1>4, NoneParts
  <2>3. QED
    BY <1>10, <2>1, <2>2 DEF Accepted
<1>12. Arrives
  <2>1. Passed = DOMAIN a \ {"parameters"}
    BY <1>7, MacNames DEF Passed
  <2>2. ASSUME NEW n \in Passed PROVE Gets(n, a[n])
    <3>1. \/ n \in {"context", "key", "mac_algorithm"}
          \/ a.mac_algorithm = "HMAC" /\ n = "digest_algorithm"
      BY <1>7, <2>1, <2>2, MacNames
    <3>2. QED
      BY <1>2, <1>3, <1>8, <1>9, <3>1
  <2>3. QED
    BY <2>2 DEF Arrives, BufferCommands, Gets
<1>13. ResultsLand
  BY <1>6, <1>10 DEF ResultsLand, Landed, Result, Argument
<1>14. QED
  BY ZenonT(60), <1>5, <1>11, <1>12, <1>13 DEF CommandRight

(* sa_key_exchange: that of Netflix has a structure, which returns two more *)
(* keys.                                                                    *)
LEMMA KeyExchangeRight ==
  ASSUME call.command = "SA_KEY_EXCHANGE", call.args \in KeyExchange,
         NullIsNoFunction
  PROVE  CommandRight
<1> DEFINE a == call.args
           c == request.command
           p == request.params
           netflix == a.key_exchange_algorithm = "NETFLIX_AUTHENTICATED_DH"
           names == {"in_kw", "out_ke", "rights_ke", "out_kh", "rights_kh"}
           struct == "sa_key_exchange_parameters_netflix_authenticated_dh_s"
           s == Struct(struct, Same(a, names))
<1>1. /\ request = sa_key_exchange(a)
      /\ dispatched = ta_invoke_key_exchange(c, p)
  <2>1. request = sa_key_exchange(a)
    BY ZenonT(60) DEF request, Client, dispatched, ta_invoke_command_handler
  <2>2. dispatched = ta_invoke_key_exchange(c, p)
    BY ZenonT(60) DEF request, Client, dispatched, ta_invoke_command_handler
  <2>3. QED
    BY ZenonT(60), <2>1, <2>2
<1>2. /\ c.direction = "INOUT" /\ c.struct = "sa_key_exchange_s"
      /\ c.fields.key = a.key
      /\ c.fields.rights = a.rights
      /\ c.fields.key_exchange_algorithm = a.key_exchange_algorithm
      /\ c.fields.private_key = a.private_key
  BY <1>1 DEF sa_key_exchange, Request, Command, @@, Same
<1>3. /\ p[1] = In(a.other_public, a.other_public_length)
      /\ p[2] = IF netflix THEN StructParam("INOUT", s) ELSE None
      /\ p[3] = None
  <2>1. p[1] = In(a.other_public, a.other_public_length)
    BY ZenonT(60), <1>1 DEF sa_key_exchange, Request, @@
  <2>2. p[2] = IF netflix THEN StructParam("INOUT", s) ELSE None
    BY ZenonT(60), <1>1 DEF sa_key_exchange, Request, @@
  <2>3. p[3] = None
    BY ZenonT(60), <1>1 DEF sa_key_exchange, Request, @@
  <2>4. QED
    BY ZenonT(60), <2>1, <2>2, <2>3
<1>4. Ordinary
  <2>1. ~request.keeps
    BY ZenonT(60), <1>1 DEF sa_key_exchange, Request, @@
  <2>2. ~request.always
    BY ZenonT(60), <1>1 DEF sa_key_exchange, Request, @@
  <2>3. QED
    BY ZenonT(60), <1>2, <2>1, <2>2 DEF Ordinary
<1>5. Sent => a.other_public # NULL
  BY <1>1 DEF sa_key_exchange, Request, @@, Sent
<1>6. request.returns =
        [key |-> "key"] @@
          (IF netflix THEN [out_ke |-> "out_ke", out_kh |-> "out_kh"] ELSE <<>>)
  BY ZenonT(60), <1>1 DEF sa_key_exchange, Request, @@
<1>7. PICK g \in sa_key_exchange_parameters :
        /\ a.key_exchange_algorithm = g.key_exchange_algorithm
        /\ DOMAIN a = {"key", "rights", "private_key", "other_public",
                       "other_public_length"} \cup DOMAIN g
  <2>1. PICK f \in [key : Pointer("key"), rights : Pointer("rights"),
                    private_key : Given("private_key"),
                    other_public : Pointer("other_public"),
                    other_public_length : Length("other_public_length")],
             g \in sa_key_exchange_parameters : a = f @@ g
    BY DEF KeyExchange, Both
  <2>2. "key_exchange_algorithm" \in DOMAIN g
    BY ExchangeNames
  <2>3. QED
    BY <2>1, <2>2 DEF @@
<1>8. /\ Gets("other_public", p[1].ref)
      /\ Gets("other_public_length", p[1].size)
      /\ Gets("key", c.fields.key)
      /\ Gets("rights", c.fields.rights)
      /\ Gets("key_exchange_algorithm", c.fields.key_exchange_algorithm)
      /\ Gets("private_key", c.fields.private_key)
  BY ZenonT(60), <1>1 DEF ta_invoke_key_exchange, Handler, @@, Same, Gets
<1>9. ASSUME netflix, NEW n \in names
      PROVE  Gets(n, Read(p[2], n))
  <2>1. c.fields.key_exchange_algorithm = "NETFLIX_AUTHENTICATED_DH"
    BY <1>2, <1>9
  <2>2. QED
    BY ZenonT(60), <1>1, <1>9, <2>1
       DEF ta_invoke_key_exchange, Handler, @@, Same, Gets
<1>10. /\ dispatched.stores =
            [key |-> "key"] @@
              (IF c.fields.key_exchange_algorithm = "NETFLIX_AUTHENTICATED_DH"
               THEN [out_ke |-> "out_ke", out_kh |-> "out_kh"] ELSE <<>>)
       /\ dispatched.present =
            (/\ Filled(p[1])
             /\ c.fields.key_exchange_algorithm = "NETFLIX_AUTHENTICATED_DH" =>
                  p[2].ref # NULL)
       /\ dispatched.valid =
            (/\ Carries(c, "INOUT", "sa_key_exchange_s")
             /\ IsIn(p[1]) /\ (IsInOut(p[2]) \/ IsNull(p[2])) /\ IsNull(p[3])
             /\ c.fields.key_exchange_algorithm = "NETFLIX_AUTHENTICATED_DH" =>
                  p[2].size = sizeof(struct))
  BY ZenonT(60), <1>1 DEF ta_invoke_key_exchange, Handler, @@
<1>11. /\ p[1].ref = a.other_public /\ p[1].size = a.other_public_length
       /\ IsIn(p[1])
       /\ Sent => WellFormed(p[1])
  BY <1>3, <1>5, InParts
<1>12. /\ s # NULL /\ s.struct = struct /\ s.fields = Same(a, names)
       /\ netflix => /\ p[2].ref # NULL /\ p[2].size = sizeof(struct)
                     /\ p[2].type = "INOUT"
                     /\ \A n \in names : Read(p[2], n) = a[n]
       /\ WellFormed(p[2])
  <2>1. s # NULL /\ s.struct = struct /\ s.fields = Same(a, names)
    BY StructParts
  <2>2. ASSUME netflix
        PROVE  /\ p[2].ref = s /\ p[2].size = sizeof(struct)
               /\ p[2].type = "INOUT" /\ WellFormed(p[2])
               /\ \A n : Read(p[2], n) = s.fields[n]
    <3>1. p[2] = StructParam("INOUT", s)
      BY <1>3, <2>2
    <3>2. QED
      BY <2>1, <3>1, StructParamParts
  <2>3. \A n \in names : s.fields[n] = a[n]
    BY <2>1 DEF Same
  <2>4. QED
    BY <1>3, <2>1, <2>2, <2>3, NoneParts
<1>13. Sent => Accepted
  <2>1. a.other_public_length = Zero => RefusedByTA
    BY <1>7 DEF RefusedByTA, Missing
  <2>2. dispatched.valid
    BY ZenonT(60), <1>2, <1>3, <1>10, <1>11, <1>12, NoneParts DEF Carries, IsInOut
  <2>3. Sent => RefusedByTA \/ dispatched.present
    BY <1>2, <1>5, <1>10, <1>11, <1>12, <2>1 DEF Filled
  <2>4. Sent => \A i \in 1 .. 3 : WellFormed(p[i])
    BY <1>3, <1>11, <1>12, NoneParts
  <2>5. QED
    BY <2>2, <2>3, <2>4 DEF Accepted
<1>14. Arrives
  <2>1. Passed = DOMAIN a \ {"parameters"}
    BY <1>7, ExchangeNames DEF Passed
  <2>2. ASSUME NEW n \in Passed PROVE Gets(n, a[n])
    <3>1. \/ n \in {"key", "rights", "key_exchange_algorithm", "private_key",
                    "other_public", "other_public_length"}
          \/ netflix /\ n \in names
      BY <1>7, <2>1, <2>2, ExchangeNames
    <3>2. netflix /\ n \in names => Gets(n, a[n])
      BY <1>9, <1>12
    <3>3. QED
      BY <1>2, <1>8, <1>11, <3>1, <3>2
  <2>3. QED
    BY <2>2 DEF Arrives, BufferCommands, Gets
<1>15. ResultsLand
  <2>1. request.returns = dispatched.stores
    BY <1>2, <1>6, <1>10
  <2>2. /\ \A n \in DOMAIN request.returns : request.returns[n] = n
        /\ DOMAIN request.returns \subseteq {"key", "out_ke", "out_kh"}
    BY <1>6 DEF @@
  <2>3. QED
    BY <2>1, <2>2 DEF ResultsLand, Landed, Result, Argument
<1>16. QED
  BY ZenonT(60), <1>4, <1>13, <1>14, <1>15 DEF CommandRight

(* sa_crypto_sign: the fields depend on the algorithm. *)
LEMMA CryptoSignRight ==
  ASSUME call.command = "SA_CRYPTO_SIGN", call.args \in CryptoSign
  PROVE  CommandRight
<1> DEFINE a == call.args
           c == request.command
           p == request.params
           alg == a.signature_algorithm
<1>1. request = sa_crypto_sign(a) /\ dispatched = ta_invoke_crypto_sign(c, p)
  <2>1. request = sa_crypto_sign(a)
    BY ZenonT(60) DEF request, Client, dispatched, ta_invoke_command_handler
  <2>2. dispatched = ta_invoke_crypto_sign(c, p)
    BY ZenonT(60) DEF request, Client, dispatched, ta_invoke_command_handler
  <2>3. QED
    BY ZenonT(60), <2>1, <2>2
<1>2. /\ c.direction = "INOUT" /\ c.struct = "sa_crypto_sign_s"
      /\ c.fields.out_length = a.out_length
      /\ c.fields.signature_algorithm = alg
      /\ c.fields.key = a.key
  BY <1>1 DEF sa_crypto_sign, Request, Command, @@, Same
<1>3. /\ alg = "RSA_PSS" =>
           \A n \in {"salt_length", "digest_algorithm",
                     "mgf1_digest_algorithm", "precomputed_digest"} :
             c.fields[n] = a[n]
      /\ alg \in {"RSA_PKCS1V15", "ECDSA"} =>
           \A n \in {"digest_algorithm", "precomputed_digest"} :
             c.fields[n] = a[n]
  <2>1. c.fields = Same(a, {"out_length", "signature_algorithm", "key"}) @@
                     SignFields(a)
    BY ZenonT(60), <1>1 DEF sa_crypto_sign, Request, Command, @@
  <2>2. alg = "RSA_PSS" =>
          SignFields(a) = Same(a, {"salt_length", "digest_algorithm",
                                   "mgf1_digest_algorithm",
                                   "precomputed_digest"})
    BY DEF SignFields
  <2>3. alg \in {"RSA_PKCS1V15", "ECDSA"} =>
          SignFields(a) = Same(a, {"digest_algorithm", "precomputed_digest"}) @@
                            [salt_length |-> Unset, mgf1_digest_algorithm |-> Zero]
    BY ZenonT(60) DEF SignFields
  <2>4. QED
    BY <2>1, <2>2, <2>3 DEF @@, Same
<1>4. /\ p[1] = OptionalOut(a.out, a.out_length)
      /\ p[2] = OptionalIn(a.in, a.in_length) /\ p[3] = None
  BY ZenonT(60), <1>1 DEF sa_crypto_sign, Request, @@
<1>5. Ordinary
  BY ZenonT(60), <1>1 DEF sa_crypto_sign, Request, Command, @@, Ordinary
<1>6. Sent => (a.in = NULL => a.in_length = Zero)
  BY <1>1 DEF sa_crypto_sign, Request, @@, Sent
<1>7. request.returns = [out_length |-> "out_length"]
  BY <1>1 DEF sa_crypto_sign, Request, @@
<1>8. PICK g \in sa_sign_parameters :
        /\ alg = g.signature_algorithm
        /\ DOMAIN a = {"out", "out_length", "key", "in", "in_length"} \cup
                        DOMAIN g
  <2>1. PICK f \in [out : Pointer("out"), out_length : InOutLength("out_length"),
                    key : Given("key"), in : Pointer("in"),
                    in_length : Length("in_length")],
             g \in sa_sign_parameters : a = f @@ g
    BY DEF CryptoSign, Both
  <2>2. "signature_algorithm" \in DOMAIN g
    BY SignNames
  <2>3. QED
    BY <2>1, <2>2 DEF @@
<1>9. /\ Gets("out", p[1].ref)
      /\ Gets("in", p[2].ref)
      /\ Gets("in_length", p[2].size)
      /\ Gets("out_length", c.fields.out_length)
      /\ Gets("signature_algorithm", c.fields.signature_algorithm)
      /\ Gets("key", c.fields.key)
  BY ZenonT(60), <1>1 DEF ta_invoke_crypto_sign, Handler, @@, Same, Gets
<1>10. /\ alg = "RSA_PSS" =>
            \A n \in {"salt_length", "digest_algorithm",
                      "mgf1_digest_algorithm", "precomputed_digest"} :
              Gets(n, c.fields[n])
       /\ alg \in {"RSA_PKCS1V15", "ECDSA"} =>
            \A n \in {"digest_algorithm", "precomputed_digest"} :
              Gets(n, c.fields[n])
  <2>1. ASSUME alg = "RSA_PSS",
               NEW n \in {"salt_length", "digest_algorithm",
                          "mgf1_digest_algorithm", "precomputed_digest"}
        PROVE  Gets(n, c.fields[n])
    BY ZenonT(60), <1>1, <1>2, <2>1
       DEF ta_invoke_crypto_sign, Handler, @@, Same, Gets
  <2>2. ASSUME alg \in {"RSA_PKCS1V15", "ECDSA"},
               NEW n \in {"digest_algorithm", "precomputed_digest"}
        PROVE  Gets(n, c.fields[n])
    BY ZenonT(60), <1>1, <1>2, <2>2
       DEF ta_invoke_crypto_sign, Handler, @@, Same, Gets
  <2>3. QED
    BY <2>1, <2>2
<1>11. /\ dispatched.stores = [out_length |-> "out_length"]
       /\ dispatched.present
       /\ dispatched.valid =
            (/\ Carries(c, "INOUT", "sa_crypto_sign_s")
             /\ OutOrNull(p[1]) /\ InOrNull(p[2]) /\ IsNull(p[3])
             /\ SizeIs(p[1], c.fields.out_length))
  BY ZenonT(60), <1>1 DEF ta_invoke_crypto_sign, Handler, @@
<1>12. /\ p[1].ref = a.out /\ SizeIs(p[1], a.out_length)
       /\ WellFormed(p[1]) /\ OutOrNull(p[1])
       /\ p[2].ref = a.in /\ WellFormed(p[2]) /\ InOrNull(p[2])
       /\ Sent => p[2].size = a.in_length
  BY <1>4, <1>6, OptionalInParts, OptionalOutParts
<1>13. Accepted
  <2>1. dispatched.valid
    BY <1>2, <1>4, <1>11, <1>12, NoneParts DEF Carries
  <2>2. \A i \in 1 .. 3 : WellFormed(p[i])
    BY <1>4, <1>12, NoneParts
  <2>3. QED
    BY <1>11, <2>1, <2>2 DEF Accepted
<1>14. Taken => Arrives
  <2>1. Passed = DOMAIN a \ {"parameters"}
    BY <1>8, SignNames DEF Passed
  <2>2. ASSUME Taken, NEW n \in Passed PROVE Gets(n, a[n])
    <3>1. \/ n \in {"out", "out_length", "key", "in", "in_length",
                    "signature_algorithm"}
          \/ /\ alg = "RSA_PSS"
             /\ n \in {"salt_length", "digest_algorithm",
                       "mgf1_digest_algorithm", "precomputed_digest"}
          \/ /\ alg \in {"RSA_PKCS1V15", "ECDSA"}
             /\ n \in {"digest_algorithm", "precomputed_digest"}
      BY <1>8, <2>1, <2>2, SignNames
    <3>2. n \in {"out", "out_length", "key", "in", "in_length",
                 "signature_algorithm"} => Gets(n, a[n])
      BY <1>2, <1>9, <1>12, <2>2 DEF Taken
    <3>3. QED
      BY <1>3, <1>10, <3>1, <3>2
  <2>3. QED
    BY <2>2 DEF Arrives, BufferCommands, Gets
<1>15. ResultsLand
  BY <1>7, <1>11 DEF ResultsLand, Landed, Result, Argument
<1>16. QED
  BY ZenonT(60), <1>5, <1>13, <1>14, <1>15 DEF CommandRight

(* sa_key_provision_ta: only complete objects are sent. *)
LEMMA KeyProvisionRight ==
  ASSUME call.command = "SA_KEY_PROVISION_TA", call.args \in KeyProvision,
         NullIsNoFunction
  PROVE  CommandRight
<1> DEFINE a == call.args
           c == request.command
           p == request.params
<1>1. /\ request = sa_key_provision_ta(a)
      /\ dispatched = ta_invoke_key_provision(c, p)
  BY DEF request, Client, dispatched, ta_invoke_command_handler
<1>2. /\ c.direction = "INOUT" /\ c.struct = "sa_key_provision_ta_s"
      /\ c.fields.key_format = "PROVISION_TA"
  BY <1>1 DEF sa_key_provision_ta, Request, Command, @@
<1>3. /\ p[1] = OptionalIn(a.in, a.in_length)
      /\ p[2] = OptionalIn(a.parameters, a.parameters_length)
      /\ p[3] = In(<<"ta_key_type">>, sizeof("sa_key_type_ta"))
  BY <1>1 DEF sa_key_provision_ta, Request, @@
<1>4. Ordinary
  BY <1>1 DEF sa_key_provision_ta, Request, Command, @@, Ordinary
<1>5. Sent => a.in # NULL /\ a.parameters # NULL /\ a.in_length # Zero
  <2>1. Sent => sa_key_provision_preprocessing(a)
    BY <1>1 DEF sa_key_provision_ta, Request, @@, Sent
  <2>2. QED
    BY <2>1 DEF sa_key_provision_preprocessing
<1>6. request.returns = <<>>
  BY <1>1 DEF sa_key_provision_ta, Request, @@
<1>7. "parameters_length" \in DOMAIN a
  <2>1. PICK f \in Structure("parameters", ProvisioningParameters),
             g \in Provisioning : a = f @@ g
    BY DEF KeyProvision, Both
  <2>2. PICK h \in ProvisioningParameters :
          DOMAIN f = {"parameters"} \cup DOMAIN h
    BY StructureNames
  <2>3. DOMAIN h = {"parameters_length"}
    BY DEF ProvisioningParameters
  <2>4. QED
    BY <2>1, <2>2, <2>3 DEF @@
<1>8. /\ Gets("in", p[1].ref) /\ Gets("in_length", p[1].size)
      /\ Gets("parameters", p[2].ref) /\ Gets("parameters_length", p[2].size)
  <2>1. Gets("in", p[1].ref)
    BY ZenonT(60), <1>1 DEF ta_invoke_key_provision, Handler, @@, Gets
  <2>2. Gets("in_length", p[1].size)
    BY ZenonT(60), <1>1 DEF ta_invoke_key_provision, Handler, @@, Gets
  <2>3. Gets("parameters", p[2].ref)
    BY ZenonT(60), <1>1 DEF ta_invoke_key_provision, Handler, @@, Gets
  <2>4. Gets("parameters_length", p[2].size)
    BY ZenonT(60), <1>1 DEF ta_invoke_key_provision, Handler, @@, Gets
  <2>5. QED
    BY ZenonT(60), <2>1, <2>2, <2>3, <2>4
<1>9. /\ dispatched.stores = <<>>
      /\ dispatched.present =
           (/\ Filled(p[1])
            /\ IsIn(p[2]) => Filled(p[2])
            /\ IsIn(p[3]) => Filled(p[3]))
      /\ dispatched.valid =
           (/\ Carries(c, "INOUT", "sa_key_provision_ta_s")
            /\ IsIn(p[1]) /\ InOrNull(p[2]) /\ InOrNull(p[3])
            /\ c.fields.key_format = "PROVISION_TA"
            /\ IsIn(p[2]) => Fits(p[2]))
  BY <1>1 DEF ta_invoke_key_provision, Handler, @@
<1>10. ASSUME Sent
       PROVE  /\ p[1].ref = a.in /\ p[1].size = a.in_length
              /\ IsIn(p[1]) /\ WellFormed(p[1])
              /\ p[2].ref = a.parameters /\ p[2].size = a.parameters_length
              /\ IsIn(p[2]) /\ WellFormed(p[2])
  BY <1>3, <1>5, <1>10, OptionalInParts
<1>11. IsIn(p[3]) /\ WellFormed(p[3]) /\ Filled(p[3])
  <2>1. <<"ta_key_type">> # NULL
    BY DEF NullIsNoFunction
  <2>2. sizeof("sa_key_type_ta") # Zero
    BY DEF sizeof, Zero
  <2>3. QED
    BY <1>3, <2>1, <2>2, InParts DEF Filled
<1>12. Sent => Accepted
  <2>1. a.parameters # NULL /\ a.parameters_length \in {Zero, Oversized} => RefusedByTA
    BY <1>7 DEF RefusedByTA
  <2>2. ASSUME Sent PROVE RefusedByTA \/ dispatched.valid
    BY <1>2, <1>5, <1>9, <1>10, <1>11, <2>1, <2>2 DEF Carries, InOrNull, Fits
  <2>3. ASSUME Sent PROVE RefusedByTA \/ dispatched.present
    BY <1>5, <1>9, <1>10, <1>11, <2>1, <2>3 DEF Filled
  <2>4. Sent => \A i \in 1 .. 3 : WellFormed(p[i])
    BY <1>10, <1>11
  <2>5. QED
    BY <2>2, <2>3, <2>4 DEF Accepted
<1>13. Taken => Arrives
  BY <1>8, <1>10 DEF Taken, Arrives, Gets, Passed, BufferCommands
<1>14. ResultsLand
  BY <1>6 DEF ResultsLand
<1>15. QED
  BY ZenonT(60), <1>4, <1>12, <1>13, <1>14 DEF CommandRight

(* sa_crypto_cipher_init: the parameters depend on the algorithm. *)
LEMMA CipherInitRight ==
  ASSUME call.command = "SA_CRYPTO_CIPHER_INIT", call.args \in CipherInit,
         NullIsNoFunction
  PROVE  CommandRight
<1> DEFINE a == call.args
           c == request.command
           p == request.params
           alg == a.cipher_algorithm
           digests == {"digest_algorithm", "mgf1_digest_algorithm"}
           s == Struct("sa_cipher_parameters_rsa_oaep_s", Same(a, digests))
<1>1. /\ request = sa_crypto_cipher_init(a)
      /\ dispatched = ta_invoke_crypto_cipher_init(c, p)
  BY DEF request, Client, dispatched, ta_invoke_command_handler
<1>2. /\ c.direction = "INOUT" /\ c.struct = "sa_crypto_cipher_init_s"
      /\ c.fields.context = a.context
      /\ c.fields.cipher_algorithm = alg
      /\ c.fields.cipher_mode = a.cipher_mode
      /\ c.fields.key = a.key
  BY ZenonT(60), <1>1 DEF sa_crypto_cipher_init, Request, Command, @@, Same
<1>3. /\ alg \in {"AES_CBC", "AES_CBC_PKCS7"} =>
           p = <<In(a.iv, a.iv_length), None, None>>
      /\ alg = "AES_CTR" => p = <<In(a.ctr, a.ctr_length), None, None>>
      /\ alg = "AES_GCM" =>
           p = <<In(a.iv, a.iv_length), OptionalIn(a.aad, a.aad_length), None>>
      /\ alg = "CHACHA20" =>
           p = <<In(a.nonce, a.nonce_length),
                 In(a.counter, a.counter_length), None>>
      /\ alg = "CHACHA20_POLY1305" =>
           p = <<In(a.nonce, a.nonce_length),
                 OptionalIn(a.aad, a.aad_length), None>>
      /\ alg = "RSA_OAEP" =>
           p = <<StructParam("IN", s), OptionalIn(a.label, a.label_length),
                 None>>
      /\ alg \in {"AES_ECB", "EC_ELGAMAL", "UNKNOWN"} => p = NoParams
  <2>1. alg \in {"AES_CBC", "AES_CBC_PKCS7"} =>
          p = <<In(a.iv, a.iv_length), None, None>>
    BY ZenonT(60), <1>1 DEF sa_crypto_cipher_init, Request, @@
  <2>2. alg = "AES_CTR" => p = <<In(a.ctr, a.ctr_length), None, None>>
    BY ZenonT(60), <1>1 DEF sa_crypto_cipher_init, Request, @@
  <2>3. alg = "AES_GCM" =>
          p = <<In(a.iv, a.iv_length), OptionalIn(a.aad, a.aad_length), None>>
    BY ZenonT(60), <1>1 DEF sa_crypto_cipher_init, Request, @@
  <2>4. alg = "CHACHA20" =>
          p = <<In(a.nonce, a.nonce_length),
                In(a.counter, a.counter_length), None>>
    BY ZenonT(60), <1>1 DEF sa_crypto_cipher_init, Request, @@
  <2>5. alg = "CHACHA20_POLY1305" =>
          p = <<In(a.nonce, a.nonce_length),
                OptionalIn(a.aad, a.aad_length), None>>
    BY ZenonT(60), <1>1 DEF sa_crypto_cipher_init, Request, @@
  <2>6. alg = "RSA_OAEP" =>
          p = <<StructParam("IN", s), OptionalIn(a.label, a.label_length),
                None>>
    BY ZenonT(60), <1>1 DEF sa_crypto_cipher_init, Request, @@
  <2>7. alg \in {"AES_ECB", "EC_ELGAMAL", "UNKNOWN"} => p = NoParams
    BY ZenonT(60), <1>1 DEF sa_crypto_cipher_init, Request, @@
  <2>8. QED
    BY ZenonT(60), <2>1, <2>2, <2>3, <2>4, <2>5, <2>6, <2>7
<1>4. Ordinary
  <2>1. ~request.keeps
    BY ZenonT(60), <1>1 DEF sa_crypto_cipher_init, Request, @@
  <2>2. ~request.always
    BY ZenonT(60), <1>1 DEF sa_crypto_cipher_init, Request, @@
  <2>3. QED
    BY ZenonT(60), <1>2, <2>1, <2>2 DEF Ordinary
<1>5. Sent => alg \in CipherInits /\ ~CipherParametersMissing(a)
  BY ZenonT(60), <1>1 DEF sa_crypto_cipher_init, Request, @@, Sent
<1>6. request.returns = [context |-> "context"]
  BY <1>1 DEF sa_crypto_cipher_init, Request, @@
<1>7. PICK g \in sa_cipher_parameters :
        /\ alg = g.cipher_algorithm
        /\ DOMAIN a = {"context", "key", "cipher_mode"} \cup DOMAIN g
  <2>1. PICK f \in [context : Pointer("context"), key : Given("key"),
                    cipher_mode : Given("cipher_mode")],
             g \in sa_cipher_parameters : a = f @@ g
    BY DEF CipherInit, Both
  <2>2. "cipher_algorithm" \in DOMAIN g
    BY CipherNames
  <2>3. QED
    BY <2>1, <2>2 DEF @@
<1>8. /\ Gets("context", c.fields.context)
      /\ Gets("cipher_algorithm", c.fields.cipher_algorithm)
      /\ Gets("cipher_mode", c.fields.cipher_mode)
      /\ Gets("key", c.fields.key)
  BY ZenonT(60), <1>1 DEF ta_invoke_crypto_cipher_init, Handler, @@, Same, Gets
<1>9. /\ alg \in {"AES_CBC", "AES_CBC_PKCS7", "AES_GCM"} =>
           Gets("iv", p[1].ref) /\ Gets("iv_length", p[1].size)
      /\ alg = "AES_CTR" =>
           Gets("ctr", p[1].ref) /\ Gets("ctr_length", p[1].size)
      /\ alg \in {"CHACHA20", "CHACHA20_POLY1305"} =>
           Gets("nonce", p[1].ref) /\ Gets("nonce_length", p[1].size)
      /\ alg = "CHACHA20" =>
           Gets("counter", p[2].ref) /\ Gets("counter_length", p[2].size)
      /\ alg \in {"AES_GCM", "CHACHA20_POLY1305"} =>
           Gets("aad", p[2].ref) /\ Gets("aad_length", p[2].size)
      /\ alg = "RSA_OAEP" =>
           Gets("label", p[2].ref) /\ Gets("label_length", p[2].size)
  <2>1. alg \in {"AES_CBC", "AES_CBC_PKCS7"} =>
          Gets("iv", p[1].ref) /\ Gets("iv_length", p[1].size)
    BY ZenonT(60), <1>1, <1>2
       DEF ta_invoke_crypto_cipher_init, Handler, @@, Same, Gets
  <2>2. alg = "AES_CTR" =>
          Gets("ctr", p[1].ref) /\ Gets("ctr_length", p[1].size)
    BY ZenonT(60), <1>1, <1>2
       DEF ta_invoke_crypto_cipher_init, Handler, @@, Same, Gets
  <2>3. alg = "AES_GCM" =>
          /\ Gets("iv", p[1].ref) /\ Gets("iv_length", p[1].size)
          /\ Gets("aad", p[2].ref) /\ Gets("aad_length", p[2].size)
    BY ZenonT(60), <1>1, <1>2
       DEF ta_invoke_crypto_cipher_init, Handler, @@, Same, Gets
  <2>4. alg = "CHACHA20" =>
          /\ Gets("nonce", p[1].ref) /\ Gets("nonce_length", p[1].size)
          /\ Gets("counter", p[2].ref) /\ Gets("counter_length", p[2].size)
    BY ZenonT(60), <1>1, <1>2
       DEF ta_invoke_crypto_cipher_init, Handler, @@, Same, Gets
  <2>5. alg = "CHACHA20_POLY1305" =>
          /\ Gets("nonce", p[1].ref) /\ Gets("nonce_length", p[1].size)
          /\ Gets("aad", p[2].ref) /\ Gets("aad_length", p[2].size)
    BY ZenonT(60), <1>1, <1>2
       DEF ta_invoke_crypto_cipher_init, Handler, @@, Same, Gets
  <2>6. alg = "RSA_OAEP" =>
          Gets("label", p[2].ref) /\ Gets("label_length", p[2].size)
    BY ZenonT(60), <1>1, <1>2
       DEF ta_invoke_crypto_cipher_init, Handler, @@, Same, Gets
  <2>7. QED
    BY <2>1, <2>2, <2>3, <2>4, <2>5, <2>6
<1>10. ASSUME alg = "RSA_OAEP", NEW n \in digests PROVE Gets(n, Read(p[1], n))
  BY ZenonT(60), <1>1, <1>2, <1>10
     DEF ta_invoke_crypto_cipher_init, Handler, @@, Same, Gets
<1>11. /\ dispatched.stores = [context |-> "context"]
       /\ dispatched.present =
            (/\ c.fields.cipher_algorithm \in
                  {"AES_CBC", "AES_CBC_PKCS7", "AES_CTR", "AES_GCM",
                   "CHACHA20", "CHACHA20_POLY1305", "RSA_OAEP"} =>
                  p[1].ref # NULL
             /\ c.fields.cipher_algorithm = "CHACHA20" => p[2].ref # NULL)
       /\ dispatched.valid =
            (/\ Carries(c, "INOUT", "sa_crypto_cipher_init_s")
             /\ \A i \in 1 .. 3 : InOrNull(p[i])
             /\ c.fields.cipher_algorithm = "RSA_OAEP" =>
                  p[1].size = sizeof("sa_cipher_parameters_rsa_oaep_s"))
  BY ZenonT(60), <1>1 DEF ta_invoke_crypto_cipher_init, Handler, @@
<1>12. /\ s # NULL /\ s.struct = "sa_cipher_parameters_rsa_oaep_s"
       /\ s.fields = Same(a, digests)
  BY StructParts
<1>13. alg = "RSA_OAEP" =>
         /\ p[1].ref # NULL /\ WellFormed(p[1]) /\ InOrNull(p[1])
         /\ p[1].size = sizeof("sa_cipher_parameters_rsa_oaep_s")
         /\ \A n \in digests : Read(p[1], n) = a[n]
  <2>1. ASSUME alg = "RSA_OAEP"
        PROVE  /\ p[1].ref = s /\ p[1].type = "IN" /\ WellFormed(p[1])
               /\ p[1].size = sizeof(s.struct)
               /\ \A n : Read(p[1], n) = s.fields[n]
    <3>1. p[1] = StructParam("IN", s)
      BY <1>3, <2>1
    <3>2. QED
      BY <1>12, <3>1, StructParamParts
  <2>2. \A n \in digests : s.fields[n] = a[n]
    BY <1>12 DEF Same
  <2>3. QED
    BY <1>12, <2>1, <2>2 DEF InOrNull, IsIn
<1>14. ASSUME Sent
       PROVE  /\ alg \in {"AES_CBC", "AES_CBC_PKCS7", "AES_GCM"} =>
                   /\ p[1].ref = a.iv /\ p[1].size = a.iv_length
                   /\ p[1].ref # NULL /\ WellFormed(p[1]) /\ InOrNull(p[1])
              /\ alg = "AES_CTR" =>
                   /\ p[1].ref = a.ctr /\ p[1].size = a.ctr_length
                   /\ p[1].ref # NULL /\ WellFormed(p[1]) /\ InOrNull(p[1])
              /\ alg \in {"CHACHA20", "CHACHA20_POLY1305"} =>
                   /\ p[1].ref = a.nonce /\ p[1].size = a.nonce_length
                   /\ p[1].ref # NULL /\ WellFormed(p[1]) /\ InOrNull(p[1])
              /\ alg \in {"AES_ECB", "EC_ELGAMAL"} =>
                   WellFormed(p[1]) /\ InOrNull(p[1])
  <2>1. CASE alg \in {"AES_CBC", "AES_CBC_PKCS7"}
    <3>1. a.iv # NULL /\ p[1] = In(a.iv, a.iv_length)
      BY <1>3, <1>5, <1>14, <2>1 DEF CipherParametersMissing
    <3>2. QED
      BY <2>1, <3>1, InParts
  <2>2. CASE alg = "AES_GCM"
    <3>1. a.iv # NULL /\ p[1] = In(a.iv, a.iv_length)
      BY <1>3, <1>5, <1>14, <2>2 DEF CipherParametersMissing
    <3>2. QED
      BY <2>2, <3>1, InParts
  <2>3. CASE alg = "AES_CTR"
    <3>1. a.ctr # NULL /\ p[1] = In(a.ctr, a.ctr_length)
      BY <1>3, <1>5, <1>14, <2>3 DEF CipherParametersMissing
    <3>2. QED
      BY <2>3, <3>1, InParts
  <2>4. CASE alg = "CHACHA20"
    <3>1. a.nonce # NULL /\ p[1] = In(a.nonce, a.nonce_length)
      BY <1>3, <1>5, <1>14, <2>4 DEF CipherParametersMissing
    <3>2. QED
      BY <2>4, <3>1, InParts
  <2>5. CASE alg = "CHACHA20_POLY1305"
    <3>1. a.nonce # NULL /\ p[1] = In(a.nonce, a.nonce_length)
      BY <1>3, <1>5, <1>14, <2>5 DEF CipherParametersMissing
    <3>2. QED
      BY <2>5, <3>1, InParts
  <2>6. CASE alg \in {"AES_ECB", "EC_ELGAMAL"}
    BY <1>3, <2>6, NoneParts DEF NoParams
  <2>7. QED
    BY <2>1, <2>2, <2>3, <2>4, <2>5, <2>6
<1>15. ASSUME Sent
       PROVE  /\ WellFormed(p[2]) /\ InOrNull(p[2])
              /\ WellFormed(p[3]) /\ InOrNull(p[3])
              /\ alg = "CHACHA20" =>
                   /\ p[2].ref = a.counter /\ p[2].size = a.counter_length
                   /\ p[2].ref # NULL
              /\ alg \in {"AES_GCM", "CHACHA20_POLY1305"} =>
                   p[2].ref = a.aad /\ p[2].size = a.aad_length
              /\ alg = "RSA_OAEP" =>
                   p[2].ref = a.label /\ p[2].size = a.label_length
  <2>1. CASE alg \in {"AES_CBC", "AES_CBC_PKCS7", "AES_CTR"}
    BY <1>3, <2>1, NoneParts
  <2>2. CASE alg = "AES_GCM"
    <3>1. /\ p[2] = OptionalIn(a.aad, a.aad_length) /\ p[3] = None
          /\ a.aad = NULL => a.aad_length = Zero
      BY <1>3, <1>5, <1>15, <2>2 DEF CipherParametersMissing
    <3>2. QED
      BY <2>2, <3>1, OptionalInParts, NoneParts
  <2>3. CASE alg = "CHACHA20_POLY1305"
    <3>1. /\ p[2] = OptionalIn(a.aad, a.aad_length) /\ p[3] = None
          /\ a.aad = NULL => a.aad_length = Zero
      BY <1>3, <1>5, <1>15, <2>3 DEF CipherParametersMissing
    <3>2. QED
      BY <2>3, <3>1, OptionalInParts, NoneParts
  <2>4. CASE alg = "CHACHA20"
    <3>1. /\ p[2] = In(a.counter, a.counter_length) /\ p[3] = None
          /\ a.counter # NULL
      BY <1>3, <1>5, <1>15, <2>4 DEF CipherParametersMissing
    <3>2. QED
      BY <2>4, <3>1, InParts, NoneParts
  <2>5. CASE alg = "RSA_OAEP"
    <3>1. /\ p[2] = OptionalIn(a.label, a.label_length) /\ p[3] = None
          /\ a.label = NULL => a.label_length = Zero
      BY <1>3, <1>5, <1>15, <2>5 DEF CipherParametersMissing
    <3>2. QED
      BY <2>5, <3>1, OptionalInParts, NoneParts
  <2>6. CASE alg \in {"AES_ECB", "EC_ELGAMAL"}
    BY <1>3, <2>6, NoneParts DEF NoParams
  <2>7. QED
    BY <1>5, <1>7, <1>15, <2>1, <2>2, <2>3, <2>4, <2>5, <2>6, CipherNames
       DEF CipherInits
<1>16. ASSUME Sent
       PROVE  alg \in {"AES_CBC", "AES_CBC_PKCS7", "AES_GCM", "AES_CTR",
                       "CHACHA20", "CHACHA20_POLY1305", "RSA_OAEP", "AES_ECB",
                       "EC_ELGAMAL"}
  BY <1>5, <1>7, <1>16, CipherNames DEF CipherInits
<1>17. Sent => Accepted
  <2>1. ASSUME Sent
        PROVE  \A i \in 1 .. 3 : WellFormed(p[i]) /\ InOrNull(p[i])
    BY <1>13, <1>14, <1>15, <1>16, <2>1
  <2>2. ASSUME Sent PROVE dispatched.valid
    BY <1>2, <1>11, <1>13, <2>1, <2>2 DEF Carries
  <2>3. ASSUME Sent PROVE dispatched.present
    BY ZenonT(60), <1>2, <1>11, <1>13, <1>14, <1>15, <2>3
  <2>4. QED
    BY <2>1, <2>2, <2>3 DEF Accepted
<1>18. Taken => Arrives
  <2>1. Passed = DOMAIN a \ {"parameters"}
    BY <1>7, CipherNames DEF Passed
  <2>2. ASSUME Taken, NEW n \in Passed PROVE Gets(n, a[n])
    <3>1. n \in {"context", "cipher_algorithm", "cipher_mode", "key"} =>
            Gets(n, a[n])
      BY <1>2, <1>8
    <3>2. CASE alg \in {"AES_CBC", "AES_CBC_PKCS7"}
      <4>1. n \in {"context", "cipher_algorithm", "cipher_mode", "key", "iv",
                   "iv_length"}
        BY <1>7, <2>1, <2>2, <3>2, CipherNames
      <4>2. QED
        BY <1>9, <1>14, <2>2, <3>1, <3>2, <4>1 DEF Taken
    <3>3. CASE alg = "AES_CTR"
      <4>1. n \in {"context", "cipher_algorithm", "cipher_mode", "key", "ctr",
                   "ctr_length"}
        BY ZenonT(60), <1>7, <2>1, <2>2, <3>3, CipherNames
      <4>2. QED
        BY <1>9, <1>14, <2>2, <3>1, <3>3, <4>1 DEF Taken
    <3>4. CASE alg = "AES_GCM"
      <4>1. n \in {"context", "cipher_algorithm", "cipher_mode", "key", "iv",
                   "iv_length", "aad", "aad_length"}
        BY ZenonT(60), <1>7, <2>1, <2>2, <3>4, CipherNames
      <4>2. QED
        BY <1>9, <1>14, <1>15, <2>2, <3>1, <3>4, <4>1 DEF Taken
    <3>5. CASE alg = "CHACHA20"
      <4>1. n \in {"context", "cipher_algorithm", "cipher_mode", "key",
                   "counter", "counter_length", "nonce", "nonce_length"}
        BY <1>7, <2>1, <2>2, <3>5, CipherNames
      <4>2. QED
        BY <1>9, <1>14, <1>15, <2>2, <3>1, <3>5, <4>1 DEF Taken
    <3>6. CASE alg = "CHACHA20_POLY1305"
      <4>1. n \in {"context", "cipher_algorithm", "cipher_mode", "key",
                   "nonce", "nonce_length", "aad", "aad_length"}
        BY ZenonT(60), <1>7, <2>1, <2>2, <3>6, CipherNames
      <4>2. QED
        BY <1>9, <1>14, <1>15, <2>2, <3>1, <3>6, <4>1 DEF Taken
    <3>7. CASE alg = "RSA_OAEP"
      <4>1. n \in {"context", "cipher_algorithm", "cipher_mode", "key",
                   "label", "label_length"} \cup digests
        BY <1>7, <2>1, <2>2, <3>7, CipherNames
      <4>2. n \in digests => Gets(n, a[n])
        BY <1>10, <1>13, <3>7
      <4>3. QED
        BY <1>9, <1>15, <2>2, <3>1, <3>7, <4>1, <4>2 DEF Taken
    <3>8. CASE alg \in {"AES_ECB", "EC_ELGAMAL"}
      <4>1. n \in {"context", "cipher_algorithm", "cipher_mode", "key"}
        BY <1>7, <2>1, <2>2, <3>8, CipherNames
      <4>2. QED
        BY <3>1, <4>1
    <3>9. QED
      BY <1>16, <2>2, <3>2, <3>3, <3>4, <3>5, <3>6, <3>7, <3>8 DEF Taken
  <2>3. QED
    BY <2>2 DEF Arrives, BufferCommands, Gets
<1>19. ResultsLand
  BY <1>6, <1>11 DEF ResultsLand, Landed, Result, Argument
<1>20. QED
  BY ZenonT(60), <1>4, <1>17, <1>18, <1>19 DEF CommandRight

(* The other side reads the fields that were taken from the arguments. *)
LEMMA StructReads ==
  ASSUME NullIsNoFunction, NEW args, NEW name, NEW names, NEW p,
         p = StructParam("IN", Struct(name, Same(args, names)))
  PROVE  /\ p.ref # NULL /\ p.size = sizeof(name)
         /\ WellFormed(p) /\ IsIn(p) /\ InOrNull(p)
         /\ \A n \in names : Read(p, n) = args[n]
<1> DEFINE s == Struct(name, Same(args, names))
<1>1. s # NULL /\ s.struct = name /\ s.fields = Same(args, names)
  BY StructParts
<1>2. /\ p.type = "IN" /\ p.ref = s /\ p.size = sizeof(s.struct)
      /\ WellFormed(p)
      /\ \A n : Read(p, n) = s.fields[n]
  BY <1>1, StructParamParts
<1>3. \A n \in names : s.fields[n] = args[n]
  BY <1>1 DEF Same
<1>4. QED
  BY <1>1, <1>2, <1>3 DEF IsIn, InOrNull

(* sa_key_derive: a structure for each algorithm, with the information and   *)
(* the salt after it.                                                        *)
LEMMA KeyDeriveRight ==
  ASSUME call.command = "SA_KEY_DERIVE", call.args \in KeyDerive,
         NullIsNoFunction
  PROVE  CommandRight
<1> DEFINE a == call.args
           c == request.command
           p == request.params
           alg == a.kdf_algorithm
           ladder == {"c1", "c2", "c3", "c4"}
           lengths == {"c1_length", "c2_length", "c3_length", "c4_length"}
           hashed == {"key_length", "digest_algorithm", "parent"}
           counted == {"key_length", "parent", "counter"}
           netflix == {"kenc", "khmac"}
<1>1. request = sa_key_derive(a) /\ dispatched = ta_invoke_key_derive(c, p)
  BY ZenonT(60) DEF request, Client, dispatched, ta_invoke_command_handler
<1>2. /\ c.direction = "INOUT" /\ c.struct = "sa_key_derive_s"
      /\ c.fields.key = a.key
      /\ c.fields.rights = a.rights
      /\ c.fields.kdf_algorithm = alg
  BY ZenonT(60), <1>1 DEF sa_key_derive, Request, Command, @@, Same
<1>3. alg \in KdfAlgorithms =>
        p = <<StructParam("IN", KdfStruct(a)),
              CASE alg \in {"HKDF", "CONCAT", "ANSI_X963"} ->
                     OptionalIn(a.info, a.info_length)
                [] alg = "CMAC" -> OptionalIn(a.other_data, a.other_data_length)
                [] OTHER -> None,
              IF alg = "HKDF" THEN OptionalIn(a.salt, a.salt_length) ELSE None>>
  BY ZenonT(60), <1>1 DEF sa_key_derive, Request, @@
<1>4. Ordinary
  <2>1. ~request.keeps
    BY ZenonT(60), <1>1 DEF sa_key_derive, Request, @@
  <2>2. ~request.always
    BY ZenonT(60), <1>1 DEF sa_key_derive, Request, @@
  <2>3. QED
    BY ZenonT(60), <1>2, <2>1, <2>2 DEF Ordinary
<1>5. Sent => alg \in KdfAlgorithms /\ ~KdfParametersMissing(a)
  BY <1>1 DEF sa_key_derive, Request, @@, Sent
<1>6. request.returns = [key |-> "key"]
  BY <1>1 DEF sa_key_derive, Request, @@
<1>7. PICK g \in sa_kdf_parameters :
        alg = g.kdf_algorithm /\ DOMAIN a = {"key", "rights"} \cup DOMAIN g
  <2>1. PICK f \in [key : Pointer("key"), rights : Pointer("rights")],
             g \in sa_kdf_parameters : a = f @@ g
    BY DEF KeyDerive, Both
  <2>2. "kdf_algorithm" \in DOMAIN g
    BY KdfNames
  <2>3. QED
    BY <2>1, <2>2 DEF @@
<1>8. /\ Gets("key", c.fields.key)
      /\ Gets("rights", c.fields.rights)
      /\ Gets("kdf_algorithm", c.fields.kdf_algorithm)
  <2>1. Gets("key", c.fields.key)
    BY ZenonT(60), <1>1 DEF ta_invoke_key_derive, Handler, @@, Same, Gets
  <2>2. Gets("rights", c.fields.rights)
    BY ZenonT(60), <1>1 DEF ta_invoke_key_derive, Handler, @@, Same, Gets
  <2>3. Gets("kdf_algorithm", c.fields.kdf_algorithm)
    BY ZenonT(60), <1>1 DEF ta_invoke_key_derive, Handler, @@, Same, Gets
  <2>4. QED
    BY ZenonT(60), <2>1, <2>2, <2>3
<1>9. /\ dispatched.stores = [key |-> "key"]
      /\ dispatched.present = (p[1].ref # NULL)
      /\ dispatched.valid =
           (/\ Carries(c, "INOUT", "sa_key_derive_s")
            /\ \A i \in 1 .. 3 : InOrNull(p[i])
            /\ KdfStructOf(c.fields.kdf_algorithm) # "none"
            /\ p[1].size = sizeof(KdfStructOf(c.fields.kdf_algorithm)))
  <2>1. dispatched.stores = [key |-> "key"]
    BY ZenonT(60), <1>1 DEF ta_invoke_key_derive, Handler, @@
  <2>2. dispatched.present = (p[1].ref # NULL)
    BY ZenonT(60), <1>1 DEF ta_invoke_key_derive, Handler, @@
  <2>3. dispatched.valid =
          (/\ Carries(c, "INOUT", "sa_key_derive_s")
           /\ \A i \in 1 .. 3 : InOrNull(p[i])
           /\ KdfStructOf(c.fields.kdf_algorithm) # "none"
           /\ p[1].size = sizeof(KdfStructOf(c.fields.kdf_algorithm)))
    BY ZenonT(60), <1>1 DEF ta_invoke_key_derive, Handler, @@
  <2>4. QED
    BY ZenonT(60), <2>1, <2>2, <2>3
<1>10. \A n \in DOMAIN KdfParameters(alg, p) \ {"key", "rights", "kdf_algorithm"} :
         Gets(n, KdfParameters(alg, p)[n])
  <2>1. dispatched.args = Same(c.fields, {"key", "rights", "kdf_algorithm"}) @@
                            KdfParameters(alg, p)
    BY ZenonT(60), <1>1, <1>2 DEF ta_invoke_key_derive, Handler, @@
  <2>2. QED
    BY <2>1 DEF @@, Same, Gets
<1>11. ASSUME alg \in RootKeyLadders
       PROVE  /\ \A n \in ladder : Gets(n, Read(p[1], n))
              /\ \A n \in lengths : Gets(n, AES_BLOCK_SIZE)
  <2>1. KdfParameters(alg, p) =
          [n \in ladder |-> Read(p[1], n)] @@ [n \in lengths |-> AES_BLOCK_SIZE]
    BY <1>11 DEF KdfParameters, RootKeyLadders
  <2>2. /\ \A n \in ladder : /\ n \in DOMAIN KdfParameters(alg, p)
                             /\ KdfParameters(alg, p)[n] = Read(p[1], n)
        /\ \A n \in lengths : /\ n \in DOMAIN KdfParameters(alg, p)
                              /\ KdfParameters(alg, p)[n] = AES_BLOCK_SIZE
    BY <2>1 DEF @@
  <2>3. QED
    BY <1>10, <2>2
<1>12. ASSUME alg = "HKDF"
       PROVE  /\ \A n \in hashed : Gets(n, Read(p[1], n))
              /\ Gets("salt", p[3].ref) /\ Gets("salt_length", p[3].size)
              /\ Gets("info", p[2].ref) /\ Gets("info_length", p[2].size)
  <2>1. KdfParameters(alg, p) =
          [n \in hashed |-> Read(p[1], n)] @@
            [salt |-> p[3].ref, salt_length |-> p[3].size,
             info |-> p[2].ref, info_length |-> p[2].size]
    BY <1>12 DEF KdfParameters
  <2>2. \A n \in hashed : /\ n \in DOMAIN KdfParameters(alg, p)
                          /\ KdfParameters(alg, p)[n] = Read(p[1], n)
    BY <2>1 DEF @@
  <2>3. /\ {"salt", "salt_length", "info", "info_length"} \subseteq
             DOMAIN KdfParameters(alg, p)
        /\ KdfParameters(alg, p)["salt"] = p[3].ref
        /\ KdfParameters(alg, p)["salt_length"] = p[3].size
        /\ KdfParameters(alg, p)["info"] = p[2].ref
        /\ KdfParameters(alg, p)["info_length"] = p[2].size
    BY <2>1 DEF @@
  <2>4. QED
    BY <1>10, <2>2, <2>3
<1>13. ASSUME alg \in {"CONCAT", "ANSI_X963"}
       PROVE  /\ \A n \in hashed : Gets(n, Read(p[1], n))
              /\ Gets("info", p[2].ref) /\ Gets("info_length", p[2].size)
  <2>1. KdfParameters(alg, p) =
          [n \in hashed |-> Read(p[1], n)] @@
            [info |-> p[2].ref, info_length |-> p[2].size]
    BY <1>13 DEF KdfParameters
  <2>2. \A n \in hashed : /\ n \in DOMAIN KdfParameters(alg, p)
                          /\ KdfParameters(alg, p)[n] = Read(p[1], n)
    BY <2>1 DEF @@
  <2>3. /\ {"info", "info_length"} \subseteq DOMAIN KdfParameters(alg, p)
        /\ KdfParameters(alg, p)["info"] = p[2].ref
        /\ KdfParameters(alg, p)["info_length"] = p[2].size
    BY <2>1 DEF @@
  <2>4. QED
    BY <1>10, <2>2, <2>3
<1>14. ASSUME alg = "CMAC"
       PROVE  /\ \A n \in counted : Gets(n, Read(p[1], n))
              /\ Gets("other_data", p[2].ref)
              /\ Gets("other_data_length", p[2].size)
  <2>1. KdfParameters(alg, p) =
          [n \in counted |-> Read(p[1], n)] @@
            [other_data |-> p[2].ref, other_data_length |-> p[2].size]
    BY <1>14 DEF KdfParameters
  <2>2. \A n \in counted : /\ n \in DOMAIN KdfParameters(alg, p)
                           /\ KdfParameters(alg, p)[n] = Read(p[1], n)
    BY <2>1 DEF @@
  <2>3. /\ {"other_data", "other_data_length"} \subseteq
             DOMAIN KdfParameters(alg, p)
        /\ KdfParameters(alg, p)["other_data"] = p[2].ref
        /\ KdfParameters(alg, p)["other_data_length"] = p[2].size
    BY <2>1 DEF @@
  <2>4. QED
    BY <1>10, <2>2, <2>3
<1>15. ASSUME alg = "NETFLIX" PROVE \A n \in netflix : Gets(n, Read(p[1], n))
  <2>1. KdfParameters(alg, p) = [n \in netflix |-> Read(p[1], n)]
    BY <1>15 DEF KdfParameters
  <2>2. QED
    BY <1>10, <2>1
<1>16. ASSUME alg \in RootKeyLadders
       PROVE  /\ p[1].ref # NULL /\ WellFormed(p[1]) /\ InOrNull(p[1])
              /\ p[1].size = sizeof(KdfStructOf(alg))
              /\ KdfStructOf(alg) # "none"
              /\ \A n \in ladder : Read(p[1], n) = a[n]
  <2>1. p[1] = StructParam("IN", Struct("sa_kdf_parameters_root_key_ladder_s",
                                        Same(a, ladder)))
    <3>1. alg \in KdfAlgorithms
      BY <1>16 DEF KdfAlgorithms
    <3>2. KdfStruct(a) = Struct("sa_kdf_parameters_root_key_ladder_s",
                                Same(a, ladder))
      BY <1>16 DEF KdfStruct, RootKeyLadders
    <3>3. QED
      BY <1>3, <3>1, <3>2
  <2>2. KdfStructOf(alg) = "sa_kdf_parameters_root_key_ladder_s"
    BY <1>16 DEF KdfStructOf, RootKeyLadders
  <2>3. QED
    BY <2>1, <2>2, StructReads
<1>17. ASSUME alg \in {"HKDF", "CONCAT", "ANSI_X963"}
       PROVE  /\ p[1].ref # NULL /\ WellFormed(p[1]) /\ InOrNull(p[1])
              /\ p[1].size = sizeof(KdfStructOf(alg))
              /\ KdfStructOf(alg) # "none"
              /\ \A n \in hashed : Read(p[1], n) = a[n]
  <2>1. PICK name : /\ p[1] = StructParam("IN", Struct(name, Same(a, hashed)))
                    /\ KdfStructOf(alg) = name /\ name # "none"
    <3>1. p[1] = StructParam("IN", KdfStruct(a))
      BY <1>3, <1>17 DEF KdfAlgorithms
    <3>2. CASE alg = "HKDF"
      BY <3>1, <3>2 DEF KdfStruct, KdfStructOf, RootKeyLadders
    <3>3. CASE alg = "CONCAT"
      BY <3>1, <3>3 DEF KdfStruct, KdfStructOf, RootKeyLadders
    <3>4. CASE alg = "ANSI_X963"
      BY <3>1, <3>4 DEF KdfStruct, KdfStructOf, RootKeyLadders
    <3>5. QED
      BY <1>17, <3>2, <3>3, <3>4
  <2>2. QED
    BY <2>1, StructReads
<1>18. ASSUME alg = "CMAC"
       PROVE  /\ p[1].ref # NULL /\ WellFormed(p[1]) /\ InOrNull(p[1])
              /\ p[1].size = sizeof(KdfStructOf(alg))
              /\ KdfStructOf(alg) # "none"
              /\ \A n \in counted : Read(p[1], n) = a[n]
  <2>1. p[1] = StructParam("IN", Struct("sa_kdf_parameters_cmac_s",
                                        Same(a, counted)))
    BY <1>3, <1>18 DEF KdfStruct, KdfAlgorithms, RootKeyLadders
  <2>2. KdfStructOf(alg) = "sa_kdf_parameters_cmac_s"
    BY <1>18 DEF KdfStructOf
  <2>3. QED
    BY <2>1, <2>2, StructReads
<1>19. ASSUME alg = "NETFLIX"
       PROVE  /\ p[1].ref # NULL /\ WellFormed(p[1]) /\ InOrNull(p[1])
              /\ p[1].size = sizeof(KdfStructOf(alg))
              /\ KdfStructOf(alg) # "none"
              /\ \A n \in netflix : Read(p[1], n) = a[n]
  <2>1. p[1] = StructParam("IN", Struct("sa_kdf_parameters_netflix",
                                        Same(a, netflix)))
    BY <1>3, <1>19 DEF KdfStruct, KdfAlgorithms, RootKeyLadders
  <2>2. KdfStructOf(alg) = "sa_kdf_parameters_netflix"
    BY <1>19 DEF KdfStructOf
  <2>3. QED
    BY <2>1, <2>2, StructReads
<1>20. ASSUME Sent
       PROVE  /\ WellFormed(p[2]) /\ InOrNull(p[2])
              /\ alg \in {"HKDF", "CONCAT", "ANSI_X963"} =>
                   p[2].ref = a.info /\ p[2].size = a.info_length
              /\ alg = "CMAC" =>
                   p[2].ref = a.other_data /\ p[2].size = a.other_data_length
  <2>1. CASE alg \in {"HKDF", "CONCAT", "ANSI_X963"}
    <3>1. a.info = NULL => a.info_length = Zero
      BY <1>5, <1>20, <2>1 DEF KdfParametersMissing, RootKeyLadders
    <3>2. p[2] = OptionalIn(a.info, a.info_length)
      BY <1>3, <1>5, <1>20, <2>1
    <3>3. QED
      BY <2>1, <3>1, <3>2, OptionalInParts
  <2>2. CASE alg = "CMAC"
    <3>1. a.other_data = NULL => a.other_data_length = Zero
      BY <1>5, <1>20, <2>2 DEF KdfParametersMissing, RootKeyLadders
    <3>2. p[2] = OptionalIn(a.other_data, a.other_data_length)
      BY <1>3, <1>5, <1>20, <2>2
    <3>3. QED
      BY <2>2, <3>1, <3>2, OptionalInParts
  <2>3. CASE alg \notin {"HKDF", "CONCAT", "ANSI_X963", "CMAC"}
    BY <1>3, <1>5, <1>20, <2>3, NoneParts
  <2>4. QED
    BY <2>1, <2>2, <2>3
<1>21. ASSUME Sent
       PROVE  /\ WellFormed(p[3]) /\ InOrNull(p[3])
              /\ alg = "HKDF" => p[3].ref = a.salt /\ p[3].size = a.salt_length
  <2>1. CASE alg = "HKDF"
    <3>1. a.salt = NULL => a.salt_length = Zero
      BY <1>5, <1>21, <2>1 DEF KdfParametersMissing, RootKeyLadders
    <3>2. p[3] = OptionalIn(a.salt, a.salt_length)
      BY <1>3, <1>5, <1>21, <2>1
    <3>3. QED
      BY <3>1, <3>2, OptionalInParts
  <2>2. CASE alg # "HKDF"
    BY <1>3, <1>5, <1>21, <2>2, NoneParts
  <2>3. QED
    BY <2>1, <2>2
<1>22. ASSUME Sent, alg \in RootKeyLadders
       PROVE  \A n \in lengths : a[n] = AES_BLOCK_SIZE
  <2>1. {a.c1_length, a.c2_length, a.c3_length, a.c4_length} = {AES_BLOCK_SIZE}
    BY <1>5, <1>22 DEF KdfParametersMissing, RootKeyLadders
  <2>2. /\ a.c1_length = AES_BLOCK_SIZE /\ a.c2_length = AES_BLOCK_SIZE
        /\ a.c3_length = AES_BLOCK_SIZE /\ a.c4_length = AES_BLOCK_SIZE
    BY <2>1
  <2>3. QED
    BY <2>2
<1>23. Sent => Accepted
  <2>1. ASSUME Sent
        PROVE  /\ p[1].ref # NULL /\ WellFormed(p[1]) /\ InOrNull(p[1])
               /\ p[1].size = sizeof(KdfStructOf(alg))
               /\ KdfStructOf(alg) # "none"
    BY <1>5, <1>16, <1>17, <1>18, <1>19, <2>1 DEF KdfAlgorithms
  <2>2. ASSUME Sent PROVE dispatched.valid /\ dispatched.present
    <3>1. \A i \in 1 .. 3 : InOrNull(p[i])
      BY <1>20, <1>21, <2>1, <2>2
    <3>2. Carries(c, "INOUT", "sa_key_derive_s")
      BY <1>2 DEF Carries
    <3>3. c.fields.kdf_algorithm = alg
      BY <1>2
    <3>4. dispatched.valid
      BY <1>9, <2>1, <2>2, <3>1, <3>2, <3>3
    <3>5. QED
      BY <1>9, <2>1, <2>2, <3>4
  <2>3. ASSUME Sent PROVE \A i \in 1 .. 3 : WellFormed(p[i])
    BY <1>20, <1>21, <2>1, <2>3
  <2>4. QED
    BY <2>2, <2>3 DEF Accepted
<1>24. Taken => Arrives
  <2>1. Passed = DOMAIN a \ {"parameters"}
    BY <1>7, KdfNames DEF Passed
  <2>2. ASSUME Taken, NEW n \in Passed PROVE Gets(n, a[n])
    <3>1. n \in {"key", "rights", "kdf_algorithm"} => Gets(n, a[n])
      BY <1>2, <1>8
    <3>2. Sent
      BY <2>2 DEF Taken
    <3>3. CASE alg \in RootKeyLadders
      <4>1. n \in {"key", "rights", "kdf_algorithm"} \cup ladder \cup lengths
        BY <1>7, <2>1, <2>2, <3>3, KdfNames DEF RootKeyLadders
      <4>2. QED
        BY <1>11, <1>16, <1>22, <3>1, <3>2, <3>3, <4>1
    <3>4. CASE alg = "HKDF"
      <4>1. n \in {"key", "rights", "kdf_algorithm", "info", "info_length",
                   "salt", "salt_length"} \cup hashed
        BY <1>7, <2>1, <2>2, <3>4, KdfNames
      <4>2. QED
        BY <1>12, <1>17, <1>20, <1>21, <3>1, <3>2, <3>4, <4>1
    <3>5. CASE alg \in {"CONCAT", "ANSI_X963"}
      <4>1. n \in {"key", "rights", "kdf_algorithm", "info", "info_length"}
                    \cup hashed
        BY <1>7, <2>1, <2>2, <3>5, KdfNames
      <4>2. QED
        BY <1>13, <1>17, <1>20, <3>1, <3>2, <3>5, <4>1
    <3>6. CASE alg = "CMAC"
      <4>1. n \in {"key", "rights", "kdf_algorithm", "other_data",
                   "other_data_length"} \cup counted
        BY ZenonT(60), <1>7, <2>1, <2>2, <3>6, KdfNames
      <4>2. QED
        BY <1>14, <1>18, <1>20, <3>1, <3>2, <3>6, <4>1
    <3>7. CASE alg = "NETFLIX"
      <4>1. n \in {"key", "rights", "kdf_algorithm"} \cup netflix
        BY <1>7, <2>1, <2>2, <3>7, KdfNames
      <4>2. QED
        BY <1>15, <1>19, <3>1, <3>7, <4>1
    <3>8. QED
      BY <1>5, <3>2, <3>3, <3>4, <3>5, <3>6, <3>7 DEF KdfAlgorithms
  <2>3. QED
    BY <2>2 DEF Arrives, BufferCommands, Gets
<1>25. ResultsLand
  BY <1>6, <1>9 DEF ResultsLand, Landed, Result, Argument
<1>26. QED
  BY ZenonT(60), <1>4, <1>23, <1>24, <1>25 DEF CommandRight

(* sa_key_unwrap: a structure for each algorithm, with the additional data or *)
(* the label after it, and a curve for EC keys.                               *)
LEMMA KeyUnwrapRight ==
  ASSUME call.command = "SA_KEY_UNWRAP", call.args \in KeyUnwrap,
         NullIsNoFunction
  PROVE  CommandRight
<1> DEFINE a == call.args
           c == request.command
           p == request.params
           alg == a.cipher_algorithm
           fixed == {"in", "in_length", "key", "rights", "key_type",
                     "cipher_algorithm", "wrapping_key"}
           parameters == UnwrapParameters(alg, p)
           gcm == {"iv", "iv_length", "tag", "tag_length"}
           chacha == {"counter", "counter_length", "nonce", "nonce_length"}
           poly == {"nonce", "nonce_length", "tag", "tag_length"}
           elgamal == {"key_length", "offset"}
           oaep == {"digest_algorithm", "mgf1_digest_algorithm"}
<1>1. request = sa_key_unwrap(a) /\ dispatched = ta_invoke_key_unwrap(c, p)
  BY DEF request, Client, dispatched, ta_invoke_command_handler
<1>2. /\ c.direction = "INOUT" /\ c.struct = "sa_key_unwrap_s"
      /\ c.fields.key = a.key
      /\ c.fields.rights = a.rights
      /\ c.fields.key_type = a.key_type
      /\ c.fields.cipher_algorithm = alg
      /\ c.fields.wrapping_key = a.wrapping_key
      /\ a.key_type = "EC" => c.fields.curve = a.curve
  BY ZenonT(60), <1>1 DEF sa_key_unwrap, Request, Command, @@, Same
<1>3. /\ p[1] = OptionalIn(a.in, a.in_length)
      /\ p[2] = IF alg \in ParameterUnwraps
                THEN StructParam("IN", UnwrapStruct(a)) ELSE None
      /\ p[3] = CASE alg \in {"AES_GCM", "CHACHA20_POLY1305"} ->
                       OptionalIn(a.aad, a.aad_length)
                  [] alg = "RSA_OAEP" -> OptionalIn(a.label, a.label_length)
                  [] OTHER -> None
  BY ZenonT(60), <1>1 DEF sa_key_unwrap, Request, @@
<1>4. Ordinary
  <2>1. ~request.keeps
    BY ZenonT(60), <1>1 DEF sa_key_unwrap, Request, @@
  <2>2. ~request.always
    BY ZenonT(60), <1>1 DEF sa_key_unwrap, Request, @@
  <2>3. QED
    BY ZenonT(60), <1>2, <2>1, <2>2 DEF Ordinary
<1>5. Sent => /\ a.in = NULL => a.in_length = Zero
              /\ alg \in PlainUnwraps \cup ParameterUnwraps
              /\ alg \in ParameterUnwraps => ~UnwrapParametersMissing(a)
  <2>1. request.refused =
          (NULL \in {a.key, a.rights} \/ (a.in = NULL /\ a.in_length # Zero))
    BY ZenonT(60), <1>1 DEF sa_key_unwrap, @@
  <2>2. request.rejected =
          (\/ a.key_type = "EC" /\ a.type_parameters = NULL
           \/ alg \notin PlainUnwraps \cup ParameterUnwraps
           \/ alg \in ParameterUnwraps /\ UnwrapParametersMissing(a))
    BY ZenonT(60), <1>1 DEF sa_key_unwrap, @@
  <2>3. QED
    BY ZenonT(60), <2>1, <2>2 DEF Sent
<1>6. request.returns = [key |-> "key"]
  BY <1>1 DEF sa_key_unwrap, Request, @@
<1>7. PICK t \in sa_type_parameters, u \in sa_unwrap_parameters :
        /\ a.key_type = t.key_type /\ alg = u.cipher_algorithm
        /\ DOMAIN a = {"key", "rights", "wrapping_key", "in", "in_length"}
                        \cup DOMAIN t \cup DOMAIN u
  <2>1. PICK f \in [key : Pointer("key"), rights : Pointer("rights"),
                    wrapping_key : Given("wrapping_key"),
                    in : Pointer("in"), in_length : Length("in_length")],
             g \in Both(sa_type_parameters, sa_unwrap_parameters) : a = f @@ g
    BY DEF KeyUnwrap, Both
  <2>2. PICK t \in sa_type_parameters, u \in sa_unwrap_parameters : g = t @@ u
    BY DEF Both
  <2>3. /\ "key_type" \in DOMAIN t /\ "cipher_algorithm" \in DOMAIN u
        /\ "cipher_algorithm" \notin DOMAIN t
    BY UnwrapTypeNames, UnwrapNames
  <2>4. /\ g.key_type = t.key_type /\ g.cipher_algorithm = u.cipher_algorithm
        /\ DOMAIN g = DOMAIN t \cup DOMAIN u
    <3>1. g.key_type = t.key_type /\ g.cipher_algorithm = u.cipher_algorithm
      BY ZenonT(60), <2>2, <2>3 DEF @@
    <3>2. DOMAIN g = DOMAIN t \cup DOMAIN u
      BY ZenonT(60), <2>2, <2>3 DEF @@
    <3>3. QED
      BY ZenonT(60), <3>1, <3>2
  <2>5. /\ a.key_type = g.key_type /\ a.cipher_algorithm = g.cipher_algorithm
        /\ DOMAIN a = {"key", "rights", "wrapping_key", "in", "in_length"}
                        \cup DOMAIN g
    BY <2>1, <2>3, <2>4 DEF @@
  <2>6. QED
    BY <2>4, <2>5
<1>8. /\ Gets("in", p[1].ref) /\ Gets("in_length", p[1].size)
      /\ Gets("key", c.fields.key)
      /\ Gets("rights", c.fields.rights)
      /\ Gets("key_type", c.fields.key_type)
      /\ Gets("cipher_algorithm", c.fields.cipher_algorithm)
      /\ Gets("wrapping_key", c.fields.wrapping_key)
  BY ZenonT(60), <1>1 DEF ta_invoke_key_unwrap, Handler, @@, Same, Gets
<1>9. a.key_type = "EC" => Gets("curve", c.fields.curve)
  BY ZenonT(60), <1>1, <1>2 DEF ta_invoke_key_unwrap, Handler, @@, Same, Gets
<1>10. \A n \in DOMAIN parameters \ (fixed \cup {"curve"}) :
         Gets(n, parameters[n])
  <2>1. PICK f, g : /\ dispatched.args = f @@ g @@ parameters
                    /\ DOMAIN f = fixed /\ DOMAIN g \subseteq {"curve"}
    <3>1. dispatched.args =
            ([in |-> p[1].ref, in_length |-> p[1].size]
              @@ Same(c.fields, {"key", "rights", "key_type",
                                 "cipher_algorithm", "wrapping_key"}))
              @@ (IF c.fields.key_type = "EC" THEN [curve |-> c.fields.curve]
                  ELSE <<>>)
              @@ parameters
      BY ZenonT(60), <1>1, <1>2 DEF ta_invoke_key_unwrap, Handler, @@
    <3>2. DOMAIN ([in |-> p[1].ref, in_length |-> p[1].size]
                   @@ Same(c.fields, {"key", "rights", "key_type",
                                      "cipher_algorithm", "wrapping_key"}))
            = fixed
      BY DEF @@, Same
    <3>3. QED
      BY <3>1, <3>2
  <2>2. QED
    BY <2>1 DEF @@, Gets
<1>11. /\ dispatched.stores = [key |-> "key"]
       /\ dispatched.present =
            (/\ UnwrapStructOf(c.fields.cipher_algorithm) # "none" =>
                  p[2].ref # NULL
             /\ c.fields.cipher_algorithm \in {"AES_GCM", "CHACHA20_POLY1305"} =>
                  p[3].ref # NULL)
       /\ dispatched.valid =
            (/\ Carries(c, "INOUT", "sa_key_unwrap_s")
             /\ \A i \in 1 .. 3 : InOrNull(p[i])
             /\ UnwrapStructOf(c.fields.cipher_algorithm) # "none" =>
                  p[2].size = sizeof(UnwrapStructOf(c.fields.cipher_algorithm)))
  BY ZenonT(60), <1>1 DEF ta_invoke_key_unwrap, Handler, @@
<1>12. ASSUME alg \in {"AES_CBC", "AES_CBC_PKCS7"}
       PROVE  /\ Gets("iv", Read(p[2], "iv"))
              /\ Gets("iv_length", AES_BLOCK_SIZE)
  <2>1. parameters =
          [iv |-> Read(p[2], "iv"), iv_length |-> AES_BLOCK_SIZE]
    BY <1>12 DEF UnwrapParameters
  <2>2. /\ {"iv", "iv_length"} \subseteq DOMAIN parameters
        /\ parameters["iv"] = Read(p[2], "iv")
        /\ parameters["iv_length"] = AES_BLOCK_SIZE
    BY <2>1 DEF @@
  <2>3. QED
    BY <1>10, <2>2
<1>13. ASSUME alg = "AES_CTR"
       PROVE  /\ Gets("ctr", Read(p[2], "iv"))
              /\ Gets("ctr_length", AES_BLOCK_SIZE)
  <2>1. parameters =
          [ctr |-> Read(p[2], "iv"), ctr_length |-> AES_BLOCK_SIZE]
    BY <1>13 DEF UnwrapParameters
  <2>2. /\ {"ctr", "ctr_length"} \subseteq DOMAIN parameters
        /\ parameters["ctr"] = Read(p[2], "iv")
        /\ parameters["ctr_length"] = AES_BLOCK_SIZE
    BY <2>1 DEF @@
  <2>3. QED
    BY <1>10, <2>2
<1>14. ASSUME alg = "AES_GCM"
       PROVE  /\ \A n \in gcm : Gets(n, Read(p[2], n))
              /\ Gets("aad", p[3].ref)
              /\ Gets("aad_length", p[3].size)
  <2>1. parameters =
          [n \in gcm |-> Read(p[2], n)] @@
            [aad |-> p[3].ref, aad_length |-> p[3].size]
    BY <1>14 DEF UnwrapParameters
  <2>2. \A n \in gcm : /\ n \in DOMAIN parameters
                       /\ parameters[n] = Read(p[2], n)
    BY <2>1 DEF @@
  <2>3. /\ {"aad", "aad_length"} \subseteq DOMAIN parameters
        /\ parameters["aad"] = p[3].ref
        /\ parameters["aad_length"] = p[3].size
    BY <2>1 DEF @@
  <2>4. QED
    BY <1>10, <2>2, <2>3
<1>15. ASSUME alg = "CHACHA20"
       PROVE  \A n \in chacha : Gets(n, Read(p[2], n))
  <2>1. parameters =
          [n \in chacha |-> Read(p[2], n)]
    BY <1>15 DEF UnwrapParameters
  <2>2. \A n \in chacha : /\ n \in DOMAIN parameters
                          /\ parameters[n] = Read(p[2], n)
    BY <2>1 DEF @@
  <2>3. QED
    BY <1>10, <2>2
<1>16. ASSUME alg = "CHACHA20_POLY1305"
       PROVE  /\ \A n \in poly : Gets(n, Read(p[2], n))
              /\ Gets("aad", p[3].ref)
              /\ Gets("aad_length", p[3].size)
  <2>1. parameters =
          [n \in poly |-> Read(p[2], n)] @@
            [aad |-> p[3].ref, aad_length |-> p[3].size]
    BY <1>16 DEF UnwrapParameters
  <2>2. \A n \in poly : /\ n \in DOMAIN parameters
                        /\ parameters[n] = Read(p[2], n)
    BY <2>1 DEF @@
  <2>3. /\ {"aad", "aad_length"} \subseteq DOMAIN parameters
        /\ parameters["aad"] = p[3].ref
        /\ parameters["aad_length"] = p[3].size
    BY <2>1 DEF @@
  <2>4. QED
    BY <1>10, <2>2, <2>3
<1>17. ASSUME alg = "EC_ELGAMAL"
       PROVE  \A n \in elgamal : Gets(n, Read(p[2], n))
  <2>1. parameters =
          [n \in elgamal |-> Read(p[2], n)]
    BY <1>17 DEF UnwrapParameters
  <2>2. \A n \in elgamal : /\ n \in DOMAIN parameters
                           /\ parameters[n] = Read(p[2], n)
    BY <2>1 DEF @@
  <2>3. QED
    BY <1>10, <2>2
<1>18. ASSUME alg = "RSA_OAEP"
       PROVE  /\ \A n \in oaep : Gets(n, Read(p[2], n))
              /\ Gets("label", p[3].ref)
              /\ Gets("label_length", p[3].size)
  <2>1. parameters =
          [n \in oaep |-> Read(p[2], n)] @@
            [label |-> p[3].ref, label_length |-> p[3].size]
    BY <1>18 DEF UnwrapParameters
  <2>2. \A n \in oaep : /\ n \in DOMAIN parameters
                        /\ parameters[n] = Read(p[2], n)
    BY <2>1 DEF @@
  <2>3. /\ {"label", "label_length"} \subseteq DOMAIN parameters
        /\ parameters["label"] = p[3].ref
        /\ parameters["label_length"] = p[3].size
    BY <2>1 DEF @@
  <2>4. QED
    BY <1>10, <2>2, <2>3
<1>19. ASSUME alg \in {"AES_CBC", "AES_CBC_PKCS7"}
       PROVE  /\ p[2].ref # NULL /\ WellFormed(p[2]) /\ InOrNull(p[2])
              /\ p[2].size = sizeof(UnwrapStructOf(alg))
              /\ Read(p[2], "iv") = a.iv
  <2>1. UnwrapStruct(a) =
          Struct("sa_unwrap_parameters_aes_iv_s",
                 [iv |-> a.iv])
    BY <1>19 DEF UnwrapStruct
  <2>2. p[2] = StructParam("IN", UnwrapStruct(a))
    BY <1>3, <1>19 DEF ParameterUnwraps
  <2>3. UnwrapStructOf(alg) = "sa_unwrap_parameters_aes_iv_s"
    BY <1>19 DEF UnwrapStructOf
  <2>4. [iv |-> a.iv] = Same([iv |-> a.iv], {"iv"})
    BY DEF Same
  <2>5. p[2] = StructParam("IN",
                Struct("sa_unwrap_parameters_aes_iv_s",
                       Same([iv |-> a.iv], {"iv"})))
    BY <2>1, <2>2, <2>4
  <2>6. QED
    BY <2>3, <2>5, StructReads
<1>20. ASSUME alg = "AES_CTR"
       PROVE  /\ p[2].ref # NULL /\ WellFormed(p[2]) /\ InOrNull(p[2])
              /\ p[2].size = sizeof(UnwrapStructOf(alg))
              /\ Read(p[2], "iv") = a.ctr
  <2>1. UnwrapStruct(a) =
          Struct("sa_unwrap_parameters_aes_iv_s",
                 [iv |-> a.ctr])
    BY <1>20 DEF UnwrapStruct
  <2>2. p[2] = StructParam("IN", UnwrapStruct(a))
    BY <1>3, <1>20 DEF ParameterUnwraps
  <2>3. UnwrapStructOf(alg) = "sa_unwrap_parameters_aes_iv_s"
    BY <1>20 DEF UnwrapStructOf
  <2>4. [iv |-> a.ctr] = Same([iv |-> a.ctr], {"iv"})
    BY DEF Same
  <2>5. p[2] = StructParam("IN",
                Struct("sa_unwrap_parameters_aes_iv_s",
                       Same([iv |-> a.ctr], {"iv"})))
    BY <2>1, <2>2, <2>4
  <2>6. QED
    BY <2>3, <2>5, StructReads
<1>21. ASSUME alg = "AES_GCM"
       PROVE  /\ p[2].ref # NULL /\ WellFormed(p[2]) /\ InOrNull(p[2])
              /\ p[2].size = sizeof(UnwrapStructOf(alg))
              /\ \A n \in gcm : Read(p[2], n) = a[n]
  <2>1. UnwrapStruct(a) =
          Struct("sa_unwrap_parameters_aes_gcm_s",
                 Same(a, gcm))
    BY <1>21 DEF UnwrapStruct
  <2>2. p[2] = StructParam("IN", UnwrapStruct(a))
    BY <1>3, <1>21 DEF ParameterUnwraps
  <2>3. UnwrapStructOf(alg) = "sa_unwrap_parameters_aes_gcm_s"
    BY <1>21 DEF UnwrapStructOf
  <2>4. QED
    BY <2>1, <2>2, <2>3, StructReads
<1>22. ASSUME alg = "CHACHA20"
       PROVE  /\ p[2].ref # NULL /\ WellFormed(p[2]) /\ InOrNull(p[2])
              /\ p[2].size = sizeof(UnwrapStructOf(alg))
              /\ \A n \in chacha : Read(p[2], n) = a[n]
  <2>1. UnwrapStruct(a) =
          Struct("sa_unwrap_parameters_chacha20_s",
                 Same(a, chacha))
    BY <1>22 DEF UnwrapStruct
  <2>2. p[2] = StructParam("IN", UnwrapStruct(a))
    BY <1>3, <1>22 DEF ParameterUnwraps
  <2>3. UnwrapStructOf(alg) = "sa_unwrap_parameters_chacha20_s"
    BY <1>22 DEF UnwrapStructOf
  <2>4. QED
    BY <2>1, <2>2, <2>3, StructReads
<1>23. ASSUME alg = "CHACHA20_POLY1305"
       PROVE  /\ p[2].ref # NULL /\ WellFormed(p[2]) /\ InOrNull(p[2])
              /\ p[2].size = sizeof(UnwrapStructOf(alg))
              /\ \A n \in poly : Read(p[2], n) = a[n]
  <2>1. UnwrapStruct(a) =
          Struct("sa_unwrap_parameters_chacha20_poly1305_s",
                 Same(a, poly))
    BY <1>23 DEF UnwrapStruct
  <2>2. p[2] = StructParam("IN", UnwrapStruct(a))
    BY <1>3, <1>23 DEF ParameterUnwraps
  <2>3. UnwrapStructOf(alg) = "sa_unwrap_parameters_chacha20_poly1305_s"
    BY <1>23 DEF UnwrapStructOf
  <2>4. QED
    BY <2>1, <2>2, <2>3, StructReads
<1>24. ASSUME alg = "EC_ELGAMAL"
       PROVE  /\ p[2].ref # NULL /\ WellFormed(p[2]) /\ InOrNull(p[2])
              /\ p[2].size = sizeof(UnwrapStructOf(alg))
              /\ \A n \in elgamal : Read(p[2], n) = a[n]
  <2>1. UnwrapStruct(a) =
          Struct("sa_unwrap_parameters_ec_elgamal_s",
                 Same(a, elgamal))
    BY <1>24 DEF UnwrapStruct
  <2>2. p[2] = StructParam("IN", UnwrapStruct(a))
    BY <1>3, <1>24 DEF ParameterUnwraps
  <2>3. UnwrapStructOf(alg) = "sa_unwrap_parameters_ec_elgamal_s"
    BY <1>24 DEF UnwrapStructOf
  <2>4. QED
    BY <2>1, <2>2, <2>3, StructReads
<1>25. ASSUME alg = "RSA_OAEP"
       PROVE  /\ p[2].ref # NULL /\ WellFormed(p[2]) /\ InOrNull(p[2])
              /\ p[2].size = sizeof(UnwrapStructOf(alg))
              /\ \A n \in oaep : Read(p[2], n) = a[n]
  <2>1. UnwrapStruct(a) =
          Struct("sa_unwrap_parameters_rsa_oaep_s",
                 Same(a, oaep))
    BY <1>25 DEF UnwrapStruct
  <2>2. p[2] = StructParam("IN", UnwrapStruct(a))
    BY <1>3, <1>25 DEF ParameterUnwraps
  <2>3. UnwrapStructOf(alg) = "sa_unwrap_parameters_rsa_oaep_s"
    BY <1>25 DEF UnwrapStructOf
  <2>4. QED
    BY <2>1, <2>2, <2>3, StructReads
<1>26. ASSUME alg \in PlainUnwraps
       PROVE  /\ WellFormed(p[2]) /\ InOrNull(p[2])
              /\ UnwrapStructOf(alg) = "none"
  <2>1. p[2] = None
    BY <1>3, <1>26 DEF PlainUnwraps, ParameterUnwraps
  <2>2. UnwrapStructOf(alg) = "none"
    BY <1>26 DEF PlainUnwraps, UnwrapStructOf
  <2>3. QED
    BY <2>1, <2>2, NoneParts
<1>27. ASSUME Sent
       PROVE  /\ p[1].ref = a.in /\ p[1].size = a.in_length
              /\ WellFormed(p[1]) /\ InOrNull(p[1])
  BY <1>3, <1>5, <1>27, OptionalInParts
<1>28. ASSUME Sent
       PROVE  /\ WellFormed(p[3]) /\ InOrNull(p[3])
              /\ alg \in {"AES_GCM", "CHACHA20_POLY1305"} =>
                   p[3].ref = a.aad /\ p[3].size = a.aad_length
              /\ alg = "RSA_OAEP" =>
                   p[3].ref = a.label /\ p[3].size = a.label_length
  <2>1. CASE alg = "AES_GCM"
    <3>1. a.aad = NULL => a.aad_length = Zero
      BY <1>5, <1>28, <2>1 DEF UnwrapParametersMissing, ParameterUnwraps
    <3>2. p[3] = OptionalIn(a.aad, a.aad_length)
      BY <1>3, <2>1
    <3>3. QED
      BY <2>1, <3>1, <3>2, OptionalInParts
  <2>2. CASE alg = "CHACHA20_POLY1305"
    <3>1. a.aad = NULL => a.aad_length = Zero
      BY <1>5, <1>28, <2>2 DEF UnwrapParametersMissing, ParameterUnwraps
    <3>2. p[3] = OptionalIn(a.aad, a.aad_length)
      BY <1>3, <2>2
    <3>3. QED
      BY <2>2, <3>1, <3>2, OptionalInParts
  <2>3. CASE alg = "RSA_OAEP"
    <3>1. a.label = NULL => a.label_length = Zero
      BY <1>5, <1>28, <2>3 DEF UnwrapParametersMissing, ParameterUnwraps
    <3>2. p[3] = OptionalIn(a.label, a.label_length)
      BY <1>3, <2>3
    <3>3. QED
      BY <2>3, <3>1, <3>2, OptionalInParts
  <2>4. CASE alg \notin {"AES_GCM", "CHACHA20_POLY1305", "RSA_OAEP"}
    BY <1>3, <2>4, NoneParts
  <2>5. QED
    BY <2>1, <2>2, <2>3, <2>4
<1>29. ASSUME Sent
       PROVE  /\ alg \in {"AES_CBC", "AES_CBC_PKCS7"} =>
                   a.iv_length = AES_BLOCK_SIZE
              /\ alg = "AES_CTR" => a.ctr_length = AES_BLOCK_SIZE
  BY <1>5, <1>29 DEF UnwrapParametersMissing, ParameterUnwraps
<1>30. Sent => Accepted
  <2>1. ASSUME Sent
        PROVE  /\ WellFormed(p[2]) /\ InOrNull(p[2])
               /\ UnwrapStructOf(alg) # "none" =>
                    /\ p[2].ref # NULL
                    /\ p[2].size = sizeof(UnwrapStructOf(alg))
    BY <1>5, <1>19, <1>20, <1>21, <1>22, <1>23, <1>24, <1>25, <1>26, <2>1
       DEF ParameterUnwraps
  <2>2. ASSUME Sent PROVE dispatched.valid
    <3>1. \A i \in 1 .. 3 : InOrNull(p[i])
      BY <1>27, <1>28, <2>1, <2>2
    <3>2. Carries(c, "INOUT", "sa_key_unwrap_s")
      BY <1>2 DEF Carries
    <3>3. c.fields.cipher_algorithm = alg
      BY <1>2
    <3>4. QED
      BY <1>11, <2>1, <2>2, <3>1, <3>2, <3>3
  <2>3. ASSUME Sent, alg \in {"AES_GCM", "CHACHA20_POLY1305"}, a.aad = NULL
        PROVE  RefusedByTA
    <3>1. "aad" \in DOMAIN a
      BY <1>7, <2>3, UnwrapNames
    <3>2. QED
      BY <2>3, <3>1 DEF RefusedByTA, Missing
  <2>4. ASSUME Sent PROVE RefusedByTA \/ dispatched.present
    <3>1. c.fields.cipher_algorithm = alg
      BY <1>2
    <3>2. QED
      BY <1>11, <1>28, <2>1, <2>3, <2>4, <3>1
  <2>5. ASSUME Sent PROVE \A i \in 1 .. 3 : WellFormed(p[i])
    BY <1>27, <1>28, <2>1, <2>5
  <2>6. QED
    BY <2>2, <2>4, <2>5 DEF Accepted
<1>31. Taken => Arrives
  <2>1. Passed = DOMAIN a \ {"type_parameters", "algorithm_parameters"}
    BY <1>7, UnwrapTypeNames, UnwrapNames DEF Passed
  <2>2. ASSUME Taken, NEW n \in Passed PROVE Gets(n, a[n])
    <3>1. Sent
      BY <2>2 DEF Taken
    <3>2. n \in fixed => Gets(n, a[n])
      BY <1>2, <1>8, <1>27, <3>1
    <3>3. n \in DOMAIN t => n \in fixed \/ (n = "curve" /\ a.key_type = "EC")
      BY <1>7, <2>1, <2>2, UnwrapTypeNames
    <3>4. n = "curve" /\ a.key_type = "EC" => Gets(n, a[n])
      BY <1>2, <1>9
    <3>5. n \in fixed \cup DOMAIN t \cup DOMAIN u
      BY <1>7, <2>1, <2>2
    <3>6. n \notin {"type_parameters", "algorithm_parameters"}
      BY <2>1, <2>2
    <3>7. CASE alg \in {"AES_CBC", "AES_CBC_PKCS7"}
      <4>1. n \in DOMAIN u => n \in fixed \cup {"iv", "iv_length"}
        BY <1>7, <3>6, <3>7, UnwrapNames
      <4>2. n \in {"iv", "iv_length"} => Gets(n, a[n])
        BY <1>12, <1>19, <1>29, <3>1, <3>7
      <4>3. QED
        BY <3>2, <3>3, <3>4, <3>5, <4>1, <4>2
    <3>8. CASE alg = "AES_CTR"
      <4>1. n \in DOMAIN u => n \in fixed \cup {"ctr", "ctr_length"}
        BY ZenonT(60), <1>7, <3>6, <3>8, UnwrapNames
      <4>2. n \in {"ctr", "ctr_length"} => Gets(n, a[n])
        BY <1>13, <1>20, <1>29, <3>1, <3>8
      <4>3. QED
        BY <3>2, <3>3, <3>4, <3>5, <4>1, <4>2
    <3>9. CASE alg = "AES_GCM"
      <4>1. n \in DOMAIN u => n \in fixed \cup gcm \cup {"aad", "aad_length"}
        BY ZenonT(60), <1>7, <3>6, <3>9, UnwrapNames
      <4>2. n \in gcm \cup {"aad", "aad_length"} => Gets(n, a[n])
        BY <1>14, <1>21, <1>28, <3>1, <3>9
      <4>3. QED
        BY <3>2, <3>3, <3>4, <3>5, <4>1, <4>2
    <3>10. CASE alg = "CHACHA20"
      <4>1. n \in DOMAIN u => n \in fixed \cup chacha
        BY ZenonT(60), <1>7, <3>6, <3>10, UnwrapNames
      <4>2. n \in chacha => Gets(n, a[n])
        BY <1>15, <1>22, <3>1, <3>10
      <4>3. QED
        BY <3>2, <3>3, <3>4, <3>5, <4>1, <4>2
    <3>11. CASE alg = "CHACHA20_POLY1305"
      <4>1. n \in DOMAIN u => n \in fixed \cup poly \cup {"aad", "aad_length"}
        BY ZenonT(60), <1>7, <3>6, <3>11, UnwrapNames
      <4>2. n \in poly \cup {"aad", "aad_length"} => Gets(n, a[n])
        BY <1>16, <1>23, <1>28, <3>1, <3>11
      <4>3. QED
        BY <3>2, <3>3, <3>4, <3>5, <4>1, <4>2
    <3>12. CASE alg = "EC_ELGAMAL"
      <4>1. n \in DOMAIN u => n \in fixed \cup elgamal
        BY ZenonT(60), <1>7, <3>6, <3>12, UnwrapNames
      <4>2. n \in elgamal => Gets(n, a[n])
        BY <1>17, <1>24, <3>1, <3>12
      <4>3. QED
        BY <3>2, <3>3, <3>4, <3>5, <4>1, <4>2
    <3>13. CASE alg = "RSA_OAEP"
      <4>1. n \in DOMAIN u => n \in fixed \cup oaep \cup {"label", "label_length"}
        BY ZenonT(60), <1>7, <3>6, <3>13, UnwrapNames
      <4>2. n \in oaep \cup {"label", "label_length"} => Gets(n, a[n])
        BY <1>18, <1>25, <1>28, <3>1, <3>13
      <4>3. QED
        BY <3>2, <3>3, <3>4, <3>5, <4>1, <4>2
    <3>14. CASE alg \in PlainUnwraps
      <4>1. n \in DOMAIN u => n \in fixed
        BY ZenonT(60), <1>7, <3>6, <3>14, UnwrapNames DEF PlainUnwraps
      <4>2. QED
        BY <3>2, <3>3, <3>4, <3>5, <4>1
    <3>15. QED
      BY <1>5, <3>1, <3>7, <3>8, <3>9, <3>10, <3>11, <3>12, <3>13, <3>14
         DEF ParameterUnwraps
  <2>3. QED
    BY <2>2 DEF Arrives, BufferCommands, Gets
<1>32. ResultsLand
  BY <1>6, <1>11 DEF ResultsLand, Landed, Result, Argument
<1>33. QED
  BY ZenonT(60), <1>4, <1>30, <1>31, <1>32 DEF CommandRight

-----------------------------------------------------------------------------
(* Commands with offsets and buffers *)

(* An array of offsets arrives with as many as it has. *)
LEMMA CountTimes ==
  ASSUME NEW n \in {Zero, <<"one">>, <<"many">>}, NEW struct
  PROVE  /\ Count(Times(n, struct)) = n
         /\ n # Zero => Times(n, struct) # Zero
<1>1. CASE n = Zero
  BY <1>1 DEF Count, Times
<1>2. CASE n # Zero
  <2> DEFINE t == <<struct>>
             S == {"one", "many", struct}
  <2>1. /\ n \in Seq(S) /\ t \in Seq(S) /\ Len(n) = 1 /\ Len(t) = 1
        /\ Times(n, struct) = n \o t
    <3>1. n = <<"one">> \/ n = <<"many">>
      BY <1>2
    <3>2. n \in Seq(S) /\ Len(n) = 1
      <4>1. <<"one">> \in Seq(S) /\ Len(<<"one">>) = 1
        OBVIOUS
      <4>2. <<"many">> \in Seq(S) /\ Len(<<"many">>) = 1
        OBVIOUS
      <4>3. QED
        BY <3>1, <4>1, <4>2
    <3>3. t \in Seq(S) /\ Len(t) = 1
      OBVIOUS
    <3>4. Times(n, struct) = n \o t
      BY <1>2 DEF Times, sizeof
    <3>5. QED
      BY <3>2, <3>3, <3>4
  <2>2. Len(n \o t) = 2 /\ n \o t # Zero
    BY <2>1, ConcatProperties DEF Zero
  <2>3. SubSeq(n \o t, 1, 1) = SubSeq(n, 1, 1)
    BY <2>1, SubSeqOfConcat1
  <2>4. SubSeq(n, 1, 1) = n
    BY <2>1, SubSeqFull
  <2>5. QED
    BY <1>2, <2>1, <2>2, <2>3, <2>4 DEF Count
<1>3. QED
  BY <1>1, <1>2

(* sa_svp_buffer_copy: the offsets are passed as a structure. *)
LEMMA SvpBufferCopyRight ==
  ASSUME call.command = "SA_SVP_BUFFER_COPY", call.args \in SvpBufferCopy,
         NullIsNoFunction
  PROVE  CommandRight
<1> DEFINE a == call.args
           c == request.command
           p == request.params
           s == Struct("sa_svp_offset_s", Same(a, {"offsets"}))
           size == Times(a.offsets_length, "sa_svp_offset_s")
<1>1. /\ request = sa_svp_buffer_copy(a)
      /\ dispatched = ta_invoke_svp_buffer_copy(c, p)
  BY DEF request, Client, dispatched, ta_invoke_command_handler
<1>2. /\ c.direction = "INOUT" /\ c.struct = "sa_svp_buffer_copy_s"
      /\ c.fields.out = a.out /\ c.fields.in = a.in
  BY <1>1 DEF sa_svp_buffer_copy, Request, Command, @@, Same
<1>3. p[1] = In(s, size) /\ p[2] = None /\ p[3] = None
  BY <1>1 DEF sa_svp_buffer_copy, Request, @@
<1>4. Ordinary
  BY <1>1 DEF sa_svp_buffer_copy, Request, Command, @@, Ordinary
<1>5. request.returns = <<>>
  BY <1>1 DEF sa_svp_buffer_copy, Request, @@
<1>6. /\ DOMAIN a = {"out", "in", "offsets", "offsets_length"}
      /\ a.offsets_length \in {Zero, <<"one">>, <<"many">>}
  <2>1. DOMAIN a = {"out", "in", "offsets", "offsets_length"}
    BY ZenonT(60) DEF SvpBufferCopy
  <2>2. a.offsets_length \in {Zero, <<"one">>, <<"many">>}
    BY ZenonT(60) DEF SvpBufferCopy
  <2>3. QED
    BY ZenonT(60), <2>1, <2>2
<1>7. /\ Gets("out", c.fields.out) /\ Gets("in", c.fields.in)
      /\ Gets("offsets", Read(p[1], "offsets"))
      /\ Gets("offsets_length", Count(p[1].size))
  BY <1>1 DEF ta_invoke_svp_buffer_copy, Handler, @@, Gets
<1>8. /\ dispatched.present = Filled(p[1])
      /\ dispatched.valid =
           (/\ Carries(c, "INOUT", "sa_svp_buffer_copy_s")
            /\ IsIn(p[1]) /\ IsNull(p[2]) /\ IsNull(p[3]))
  BY <1>1 DEF ta_invoke_svp_buffer_copy, Handler, @@
<1>9. s # NULL /\ s.fields = Same(a, {"offsets"})
  BY StructParts
<1>10. /\ p[1].ref = s /\ p[1].size = size /\ IsIn(p[1]) /\ WellFormed(p[1])
  BY <1>3, <1>9, InParts
<1>11. Read(p[1], "offsets") = a.offsets
  BY <1>9, <1>10 DEF Read, Same
<1>12. Count(size) = a.offsets_length /\ (a.offsets_length # Zero => size # Zero)
  BY <1>6, CountTimes
<1>13. Accepted
  <2>1. a.offsets_length = Zero => RefusedByTA
    BY <1>6 DEF RefusedByTA, Missing
  <2>2. dispatched.valid
    BY <1>2, <1>3, <1>8, <1>10, NoneParts DEF Carries
  <2>3. RefusedByTA \/ dispatched.present
    BY <1>8, <1>9, <1>10, <1>12, <2>1 DEF Filled
  <2>4. \A i \in 1 .. 3 : WellFormed(p[i])
    BY <1>3, <1>10, NoneParts
  <2>5. QED
    BY <2>2, <2>3, <2>4 DEF Accepted
<1>14. Arrives
  <2>1. Passed = {"out", "in", "offsets", "offsets_length"}
    BY <1>6 DEF Passed
  <2>2. ASSUME NEW n \in Passed PROVE Gets(n, a[n])
    BY <1>2, <1>7, <1>10, <1>11, <1>12, <2>1, <2>2
  <2>3. QED
    BY <2>2 DEF Arrives, BufferCommands, Gets
<1>15. ResultsLand
  BY <1>5 DEF ResultsLand
<1>16. QED
  BY ZenonT(60), <1>4, <1>13, <1>14, <1>15 DEF CommandRight

(* sa_svp_buffer_write: of more than one offset only the first is passed. *)
LEMMA SvpBufferWriteRight ==
  ASSUME call.command = "SA_SVP_BUFFER_WRITE", call.args \in SvpBufferWrite,
         NullIsNoFunction
  PROVE  CommandRight
<1> DEFINE a == call.args
           c == request.command
           p == request.params
           s == Struct("sa_svp_offset_s",
                       [offsets |-> IF a.offsets_length = <<"many">>
                                    THEN <<"first">> ELSE a.offsets])
           size == Times(a.offsets_length, "sa_svp_offset_s")
<1>1. /\ request = sa_svp_buffer_write(a)
      /\ dispatched = ta_invoke_svp_buffer_write(c, p)
  BY ZenonT(60) DEF request, Client, dispatched, ta_invoke_command_handler
<1>2. /\ c.direction = "INOUT" /\ c.struct = "sa_svp_buffer_write_s"
      /\ c.fields.out = a.out
  BY ZenonT(60), <1>1 DEF sa_svp_buffer_write, Request, Command, @@, Same
<1>3. p[1] = In(a.in, a.in_length) /\ p[2] = In(s, size) /\ p[3] = None
  BY ZenonT(60), <1>1 DEF sa_svp_buffer_write, Request, @@
<1>4. Ordinary
  <2>1. ~request.keeps
    BY ZenonT(60), <1>1 DEF sa_svp_buffer_write, Request, @@
  <2>2. ~request.always
    BY ZenonT(60), <1>1 DEF sa_svp_buffer_write, Request, @@
  <2>3. QED
    BY ZenonT(60), <1>2, <2>1, <2>2 DEF Ordinary
<1>5. Sent => a.in # NULL /\ a.in_length # Zero
  BY ZenonT(60), <1>1 DEF sa_svp_buffer_write, Request, @@, Sent
<1>6. request.returns = <<>>
  BY <1>1 DEF sa_svp_buffer_write, Request, @@
<1>7. /\ DOMAIN a = {"out", "in", "in_length", "offsets", "offsets_length"}
      /\ a.offsets_length \in {Zero, <<"one">>, <<"many">>}
  <2>1. DOMAIN a = {"out", "in", "in_length", "offsets", "offsets_length"}
    BY ZenonT(60) DEF SvpBufferWrite
  <2>2. a.offsets_length \in {Zero, <<"one">>, <<"many">>}
    BY ZenonT(60) DEF SvpBufferWrite
  <2>3. QED
    BY ZenonT(60), <2>1, <2>2
<1>8. /\ Gets("out", c.fields.out)
      /\ Gets("in", p[1].ref) /\ Gets("in_length", p[1].size)
      /\ Gets("offsets", Read(p[2], "offsets"))
      /\ Gets("offsets_length", Count(p[2].size))
  BY <1>1 DEF ta_invoke_svp_buffer_write, Handler, @@, Gets
<1>9. /\ dispatched.present = (Filled(p[1]) /\ Filled(p[2]))
      /\ dispatched.valid =
           (/\ Carries(c, "INOUT", "sa_svp_buffer_write_s")
            /\ IsIn(p[1]) /\ IsIn(p[2]) /\ IsNull(p[3]))
  BY <1>1 DEF ta_invoke_svp_buffer_write, Handler, @@
<1>10. /\ s # NULL
       /\ s.fields.offsets = IF a.offsets_length = <<"many">>
                             THEN <<"first">> ELSE a.offsets
  BY StructParts
<1>11. /\ p[1].ref = a.in /\ p[1].size = a.in_length /\ IsIn(p[1])
       /\ Sent => WellFormed(p[1])
       /\ p[2].ref = s /\ p[2].size = size /\ IsIn(p[2]) /\ WellFormed(p[2])
  BY <1>3, <1>5, <1>10, InParts
<1>12. a.offsets_length # <<"many">> => Read(p[2], "offsets") = a.offsets
  BY <1>10, <1>11 DEF Read
<1>13. Count(size) = a.offsets_length /\ (a.offsets_length # Zero => size # Zero)
  BY <1>7, CountTimes
<1>14. Sent => Accepted
  <2>1. a.offsets_length = Zero => RefusedByTA
    BY <1>7 DEF RefusedByTA, Missing
  <2>2. dispatched.valid
    BY ZenonT(60), <1>2, <1>3, <1>9, <1>11, NoneParts DEF Carries
  <2>3. Sent => RefusedByTA \/ dispatched.present
    BY <1>5, <1>9, <1>10, <1>11, <1>13, <2>1 DEF Filled
  <2>4. Sent => \A i \in 1 .. 3 : WellFormed(p[i])
    BY <1>3, <1>11, NoneParts
  <2>5. QED
    BY <2>2, <2>3, <2>4 DEF Accepted
<1>15. Arrives
  <2>1. Passed = {"out", "in", "in_length", "offsets", "offsets_length"}
    BY <1>7 DEF Passed
  <2>2. ASSUME ~ManyOffsets, NEW n \in Passed PROVE Gets(n, a[n])
    <3>1. a.offsets_length # <<"many">>
      BY <2>2 DEF ManyOffsets
    <3>2. QED
      BY <1>2, <1>8, <1>11, <1>12, <1>13, <2>1, <2>2, <3>1
  <2>3. QED
    BY <2>2 DEF Arrives, BufferCommands, Gets
<1>16. ResultsLand
  BY <1>6 DEF ResultsLand
<1>17. QED
  BY ZenonT(60), <1>4, <1>14, <1>15, <1>16 DEF CommandRight

(* A buffer is in memory, or an SVP buffer with an address and a size.       *)
LEMMA BufferParts ==
  ASSUME NullIsNoFunction, NEW n, NEW enabled, NEW b \in Buffers(n, enabled)
  PROVE  /\ b # NULL
         /\ b = [type |-> b.type, buffer |-> b.buffer, length |-> b.length,
                 offset |-> b.offset]
         /\ b.type \in {"CLEAR", "SVP"}
         /\ b.length \in {<<"length">>, Zero, sizeof("sa_svp_buffer")}
         /\ b.offset \in {Zero, <<"offset">>, Beyond}
         /\ b.buffer \in {<<n>>, NULL}
         /\ b.type = "CLEAR" => b.length \in {<<"length">>, Zero}
         /\ b.type = "CLEAR" /\ b.length = Zero => b.offset # <<"offset">>
         /\ b.type = "SVP" =>
              b.buffer # NULL /\ b.length = sizeof("sa_svp_buffer")
<1>1. b \in Clear(n) \/ b \in Svp(n)
  BY DEF Buffers
<1>2. CASE b \in Clear(n)
  <2>1. b \in [type : {"CLEAR"}, buffer : Pointer(n), length : Length("length"),
               offset : {Zero, <<"offset">>, Beyond}]
    BY <1>2 DEF Clear
  <2>2. b.length = Zero => b.offset # <<"offset">>
    BY <1>2 DEF Clear
  <2>3. b # NULL
    BY <2>1 DEF NullIsNoFunction
  <2>4. QED
    BY <2>1, <2>2, <2>3 DEF Pointer, Length
<1>3. CASE b \in Svp(n)
  <2>1. b \in [type : {"SVP"}, buffer : Given(n),
               length : {sizeof("sa_svp_buffer")}, offset : Length("offset")]
    BY <1>3 DEF Svp
  <2>2. b # NULL /\ <<n>> # NULL
    BY <2>1 DEF NullIsNoFunction
  <2>3. QED
    BY <2>1, <2>2 DEF Given, Length
<1>4. QED
  BY <1>1, <1>2, <1>3

(* sa_svp_key_check: the buffer is passed as a whole. *)
LEMMA SvpKeyCheckRight ==
  ASSUME call.command = "SA_SVP_KEY_CHECK", call.args \in SvpKeyCheck,
         NullIsNoFunction
  PROVE  CommandRight
<1> DEFINE a == call.args
           c == request.command
           p == request.params
<1>1. /\ request = sa_svp_key_check(a)
      /\ dispatched = ta_invoke_svp_key_check(c, p)
  <2>1. request = sa_svp_key_check(a)
    BY ZenonT(60) DEF request, Client, dispatched, ta_invoke_command_handler
  <2>2. dispatched = ta_invoke_svp_key_check(c, p)
    BY ZenonT(60) DEF request, Client, dispatched, ta_invoke_command_handler
  <2>3. QED
    BY ZenonT(60), <2>1, <2>2
<1>2. c.direction = "INOUT" /\ c.struct = "sa_svp_key_check_s"
  BY <1>1 DEF sa_svp_key_check, Request, Command, @@
<1>3. Ordinary
  <2>1. ~request.keeps /\ ~request.always
    BY <1>1 DEF sa_svp_key_check, Request, @@
  <2>2. QED
    BY ZenonT(60), <1>2, <2>1 DEF Ordinary
<1>4. Sent => /\ a.in # NULL /\ a.expected # NULL
              /\ a.in.type = "CLEAR" => a.in.buffer # NULL
  <2>1. /\ request.refused = (a.in = NULL \/ a.expected = NULL)
        /\ request.rejected =
             (a.in # NULL /\ a.in.type = "CLEAR" /\ a.in.buffer = NULL)
    BY ZenonT(60), <1>1 DEF sa_svp_key_check, @@
  <2>2. QED
    BY ZenonT(60), <2>1 DEF Sent
<1>5. request.returns = [in_offset |-> "in_offset"]
  BY ZenonT(60), <1>1 DEF sa_svp_key_check, @@
<1>6. request.adds = {}
  BY <1>1 DEF sa_svp_key_check, Request, @@
<1>7. /\ DOMAIN a = {"key", "in", "bytes_to_process", "expected",
                     "expected_length"}
      /\ a.in \in Buffers("in", TRUE) \cup {NULL}
  BY ZenonT(60) DEF SvpKeyCheck
<1>8. /\ Gets("key", c.fields.key)
      /\ Gets("bytes_to_process", c.fields.bytes_to_process)
      /\ Gets("in", BufferOf(c.fields.in_buffer_type, p[1],
                             c.fields.in_offset))
      /\ Gets("expected", p[2].ref) /\ Gets("expected_length", p[2].size)
  BY ZenonT(60), <1>1 DEF ta_invoke_svp_key_check, Handler, @@, Same, Gets
<1>9. /\ dispatched.stores =
           [in_offset |-> IF c.fields.in_buffer_type = "CLEAR"
                          THEN "in_offset" ELSE "unset"]
      /\ dispatched.present = (Filled(p[1]) /\ Filled(p[2]))
      /\ dispatched.valid =
           (/\ Carries(c, "INOUT", "sa_svp_key_check_s")
            /\ IsIn(p[1]) /\ IsIn(p[2]) /\ IsNull(p[3]))
  BY ZenonT(60), <1>1 DEF ta_invoke_svp_key_check, Handler, @@
<1>10. ASSUME Sent
       PROVE  /\ c.fields.key = a.key
              /\ c.fields.bytes_to_process = a.bytes_to_process
              /\ c.fields.in_buffer_type = a.in.type
              /\ c.fields.in_offset = a.in.offset
  <2>1. c.fields = Same(a, {"key", "bytes_to_process"}) @@
                     [in_buffer_type |-> a.in.type, in_offset |-> a.in.offset]
    BY <1>1, <1>4, <1>10 DEF sa_svp_key_check, Request, Command, @@
  <2>2. c.fields.key = a.key
    BY ZenonT(60), <2>1 DEF @@, Same
  <2>3. c.fields.bytes_to_process = a.bytes_to_process
    BY ZenonT(60), <2>1 DEF @@, Same
  <2>4. c.fields.in_buffer_type = a.in.type
    BY ZenonT(60), <2>1 DEF @@, Same
  <2>5. c.fields.in_offset = a.in.offset
    BY ZenonT(60), <2>1 DEF @@, Same
  <2>6. QED
    BY ZenonT(60), <2>2, <2>3, <2>4, <2>5
<1>11. ASSUME Sent
       PROVE  /\ p[1] = IF a.in.type = "CLEAR" THEN In(a.in.buffer, a.in.length)
                        ELSE In(a.in.buffer, sizeof("sa_svp_buffer"))
              /\ p[2] = In(a.expected, a.expected_length) /\ p[3] = None
  <2>1. p = <<IF a.in.type = "CLEAR" THEN In(a.in.buffer, a.in.length)
              ELSE In(a.in.buffer, sizeof("sa_svp_buffer")),
              In(a.expected, a.expected_length), None>>
    BY <1>1, <1>4, <1>11 DEF sa_svp_key_check, Request, @@
  <2>2. p[1] = IF a.in.type = "CLEAR" THEN In(a.in.buffer, a.in.length)
               ELSE In(a.in.buffer, sizeof("sa_svp_buffer"))
    BY <2>1
  <2>3. p[2] = In(a.expected, a.expected_length) /\ p[3] = None
    BY <2>1
  <2>4. QED
    BY ZenonT(60), <2>2, <2>3
<1>12. ASSUME Sent
       PROVE  /\ a.in = [type |-> a.in.type, buffer |-> a.in.buffer,
                         length |-> a.in.length, offset |-> a.in.offset]
              /\ a.in.type \in {"CLEAR", "SVP"}
              /\ a.in.type = "SVP" =>
                   /\ a.in.buffer # NULL
                   /\ a.in.length = sizeof("sa_svp_buffer")
  <2>1. a.in \in Buffers("in", TRUE)
    BY ZenonT(60), <1>4, <1>7, <1>12
  <2> DEFINE b == a.in
  <2>2. b \in Buffers("in", TRUE)
    BY <2>1
  <2> HIDE DEF b
  <2>3. /\ b = [type |-> b.type, buffer |-> b.buffer, length |-> b.length,
                offset |-> b.offset]
        /\ b.type \in {"CLEAR", "SVP"}
        /\ b.type = "SVP" =>
             b.buffer # NULL /\ b.length = sizeof("sa_svp_buffer")
    BY <2>2, BufferParts
  <2>4. QED
    BY <2>3 DEF b
<1>13. ASSUME Sent
       PROVE  /\ p[1].ref = a.in.buffer /\ p[1].size = a.in.length
              /\ p[1].ref # NULL /\ WellFormed(p[1]) /\ IsIn(p[1])
              /\ p[2].ref = a.expected /\ p[2].size = a.expected_length
              /\ p[2].ref # NULL /\ WellFormed(p[2]) /\ IsIn(p[2])
  <2>1. p[1] = In(a.in.buffer, a.in.length) /\ a.in.buffer # NULL
    BY ZenonT(60), <1>4, <1>11, <1>12, <1>13
  <2>2. QED
    BY <1>4, <1>11, <1>13, <2>1, InParts
<1>14. Sent => Gets("in", a.in)
  <2>1. ASSUME Sent
        PROVE  a.in = BufferOf(c.fields.in_buffer_type, p[1], c.fields.in_offset)
    BY <1>10, <1>12, <1>13, <2>1 DEF BufferOf
  <2>2. QED
    BY <1>8, <2>1
<1>15. Sent => Accepted
  <2>1. /\ a.expected_length = Zero => RefusedByTA
        /\ a.in.length = Zero => RefusedByTA
    BY <1>7 DEF RefusedByTA, Missing
  <2>2. Sent => dispatched.valid
    BY <1>2, <1>9, <1>11, <1>13, NoneParts DEF Carries
  <2>3. Sent => RefusedByTA \/ dispatched.present
    BY <1>9, <1>13, <2>1 DEF Filled
  <2>4. Sent => \A i \in 1 .. 3 : WellFormed(p[i])
    BY <1>11, <1>13, NoneParts
  <2>5. QED
    BY <2>2, <2>3, <2>4 DEF Accepted
<1>16. Taken => Arrives
  <2>1. Passed = DOMAIN a
    BY <1>7 DEF Passed
  <2>2. ASSUME Taken, NEW n \in Passed PROVE Gets(n, a[n])
    BY <1>7, <1>8, <1>10, <1>13, <1>14, <2>1, <2>2 DEF Taken
  <2>3. QED
    BY <2>2 DEF Arrives, Gets
<1>17. Taken => ResultsLand
  <2>1. ASSUME Taken, ~LostOffset, NEW n \in DOMAIN request.returns
        PROVE  /\ request.returns[n] \in DOMAIN dispatched.stores
               /\ Landed(n) = Result(call.args, n)
    <3>1. n = "in_offset" /\ request.returns[n] = "in_offset"
      BY <1>5, <2>1
    <3>2. Sent
      BY <2>1 DEF Taken
    <3>3. a.in.type = "CLEAR"
      BY <1>4, <1>12, <2>1, <3>2 DEF LostOffset
    <3>4. dispatched.stores = [in_offset |-> "in_offset"]
      BY <1>9, <1>10, <3>2, <3>3
    <3>5. dispatched.args["in"] = a.in
      BY <1>14, <3>2 DEF Gets
    <3>6. Result(dispatched.args, "in_offset") = Result(a, "in_offset")
      BY <3>5 DEF Result, Argument
    <3>7. QED
      BY <1>6, <3>1, <3>4, <3>6 DEF Landed
  <2>2. QED
    BY <2>1 DEF ResultsLand
<1>18. QED
  BY ZenonT(60), <1>3, <1>15, <1>16, <1>17 DEF CommandRight

(* Addresses with an offset, and offsets that were moved, are sequences. *)
LEMMA OffsetParts ==
  ASSUME NullIsNoFunction, NEW n, NEW offset \in {Zero, <<"offset">>, Beyond}
  PROVE  /\ <<n>> \o offset # NULL
         /\ (<<n>> \o offset) \o Zero = <<n>> \o offset
         /\ offset \o (Zero \o <<"moved">>) = offset \o <<"moved">>
<1> DEFINE S == {n, "offset", "beyond", "moved"}
<1>1. <<n>> \in Seq(S) /\ <<"moved">> \in Seq(S)
  OBVIOUS
<1>2. offset \in Seq(S)
  <2>1. <<>> \in Seq(S) /\ <<"offset">> \in Seq(S) /\ <<"beyond">> \in Seq(S)
    OBVIOUS
  <2>2. QED
    BY <2>1 DEF Zero, Beyond
<1>3. <<n>> \o offset \in Seq(S)
  BY <1>1, <1>2, ConcatProperties
<1>4. <<n>> \o offset # NULL
  <2>1. <<n>> \o offset \in [1 .. Len(<<n>> \o offset) -> S]
    BY <1>3, LenProperties
  <2>2. QED
    BY <2>1 DEF NullIsNoFunction
<1>5. (<<n>> \o offset) \o <<>> = <<n>> \o offset
  BY <1>3, ConcatEmptySeq
<1>6. <<>> \o <<"moved">> = <<"moved">>
  BY <1>1, ConcatEmptySeq
<1>7. QED
  BY <1>4, <1>5, <1>6 DEF Zero

(* What a parameter p and the buffer x made of it are for the buffer b: the  *)
(* same piece of memory, with an offset that moves on once.                  *)
Passes(p, x, b, direction) ==
  /\ p.ref # NULL /\ WellFormed(p)
  /\ p.type \in {"IN", direction}
  /\ p.size = Zero => View(b).length = Zero
  /\ x # NULL /\ View(x) = View(b)
  /\ (IF b.type = "CLEAR"
      THEN b.offset \o (x.offset \o <<"moved">>)
      ELSE x.offset \o <<"moved">>) = b.offset \o <<"moved">>

(* A buffer that is not bad is passed so.                                    *)
LEMMA BufferPassed ==
  ASSUME NullIsNoFunction, NEW n, NEW enabled, NEW b \in Buffers(n, enabled),
         ~BufferBad(b), NEW direction \in {"IN", "OUT"},
         NEW p, p = BufferParam(direction, b),
         NEW x, x = BufferOf(b.type, p, BufferOffset(b))
  PROVE  Passes(p, x, b, direction)
<1>1. /\ b # NULL
      /\ b = [type |-> b.type, buffer |-> b.buffer, length |-> b.length,
              offset |-> b.offset]
      /\ b.type \in {"CLEAR", "SVP"}
      /\ b.offset \in {Zero, <<"offset">>, Beyond}
      /\ b.buffer \in {<<n>>, NULL}
      /\ b.type = "SVP" =>
           b.buffer # NULL /\ b.length = sizeof("sa_svp_buffer")
  BY BufferParts
<1>2. /\ x = [type |-> b.type, buffer |-> p.ref, length |-> p.size,
              offset |-> BufferOffset(b)]
      /\ x # NULL
  BY DEF BufferOf, NullIsNoFunction
<1>3. CASE b.type = "CLEAR"
  <2>1. b.buffer = <<n>>
    BY <1>1, <1>3 DEF BufferBad
  <2>2. /\ p = Param(direction, <<n>> \o b.offset, Minus(b.length, b.offset))
        /\ <<n>> # NULL
    BY <1>3, <2>1 DEF BufferParam, At, NullIsNoFunction
  <2>3. /\ <<n>> \o b.offset # NULL
        /\ (<<n>> \o b.offset) \o Zero = <<n>> \o b.offset
        /\ b.offset \o (Zero \o <<"moved">>) = b.offset \o <<"moved">>
    BY <1>1, OffsetParts
  <2>4. /\ p.type = direction /\ p.ref = <<n>> \o b.offset
        /\ p.size = Minus(b.length, b.offset) /\ WellFormed(p)
    <3>1. /\ p.type = direction /\ p.ref = <<n>> \o b.offset
          /\ p.size = Minus(b.length, b.offset)
      BY <2>2 DEF Param
    <3>2. WellFormed(p)
      BY <2>3, <3>1 DEF WellFormed
    <3>3. QED
      BY <3>1, <3>2
  <2>5. View(b) = [type |-> "CLEAR", buffer |-> <<n>> \o b.offset,
                   length |-> Minus(b.length, b.offset)]
    BY <1>1, <1>3, <2>1, <2>2 DEF View, At
  <2>6. /\ x.type = "CLEAR" /\ x.buffer = <<n>> \o b.offset
        /\ x.length = Minus(b.length, b.offset) /\ x.offset = Zero
    BY <1>2, <1>3, <2>4 DEF BufferOffset
  <2>7. View(x) = [type |-> "CLEAR", buffer |-> (<<n>> \o b.offset) \o Zero,
                   length |-> Minus(b.length, b.offset)]
    BY ZenonT(60), <1>2, <2>3, <2>6 DEF View, At, Minus
  <2>8. View(x) = View(b)
    BY <2>3, <2>5, <2>7
  <2>9. p.size = Zero => View(b).length = Zero
    BY <2>4, <2>5
  <2>10. b.offset \o (x.offset \o <<"moved">>) = b.offset \o <<"moved">>
    BY <2>3, <2>6
  <2>11. QED
    BY <1>2, <1>3, <2>3, <2>4, <2>8, <2>9, <2>10 DEF Passes
<1>4. CASE b.type = "SVP"
  <2>1. p = In(b.buffer, sizeof("sa_svp_buffer"))
    BY <1>4 DEF BufferParam
  <2>2. /\ p.ref = b.buffer /\ p.ref # NULL /\ p.size = b.length
        /\ WellFormed(p) /\ p.type = "IN"
    BY <1>1, <1>4, <2>1, InParts DEF IsIn
  <2>3. p.size # Zero
    BY <1>1, <1>4, <2>2 DEF sizeof, Zero
  <2>4. x = b
    BY <1>1, <1>2, <1>4, <2>2 DEF BufferOffset
  <2>5. QED
    BY ZenonT(60), <1>2, <1>4, <2>2, <2>3, <2>4 DEF Passes
<1>5. QED
  BY <1>1, <1>3, <1>4

(* What both functions on data share: the buffers are passed from their      *)
(* offsets on, and the offsets come back.                                    *)
LEMMA ProcessRight ==
  ASSUME NullIsNoFunction, NEW last, NEW tag, WellFormed(tag),
         IsInOut(tag) \/ IsNull(tag),
         call.args.in \in Buffers("in", svp), ~BufferBad(call.args.in),
         call.args.out \in Buffers("out", svp) \cup {NULL},
         call.args.out # NULL => ~BufferBad(call.args.out),
         NEW q, q = Process(call.args, BufferParam("IN", call.args.in),
                            BufferOffset(call.args.in), tag),
         request.command = q.command, request.params = q.params,
         request.returns = q.returns, request.adds = q.adds,
         dispatched = ta_invoke_crypto_cipher_process(last, request.command,
                                                      request.params)
  PROVE  /\ dispatched.valid /\ dispatched.present
         /\ \A i \in 1 .. 3 : WellFormed(request.params[i])
         /\ request.params[3] = tag
         /\ Gets("context", call.args.context)
         /\ Gets("bytes_to_process", call.args.bytes_to_process)
         /\ \A n \in {"out", "in"} :
              /\ n \in DOMAIN dispatched.args
              /\ View(dispatched.args[n]) = View(call.args[n])
         /\ ResultsLand
<1> DEFINE a == call.args
           c == request.command
           p == request.params
           in == a.in
           out == a.out
<1>1. c = Command("INOUT", "sa_crypto_cipher_process_s",
            Same(a, {"context", "bytes_to_process"}) @@
            [out_buffer_type |-> IF out = NULL THEN "CLEAR" ELSE out.type,
             in_buffer_type  |-> IF in = NULL THEN "CLEAR" ELSE in.type,
             out_offset      |-> IF out = NULL THEN Zero
                                 ELSE BufferOffset(out),
             in_offset       |-> BufferOffset(in)])
  BY ZenonT(60) DEF Process, Request, @@
<1>2. in # NULL
  BY BufferParts
<1>3. /\ c.direction = "INOUT" /\ c.struct = "sa_crypto_cipher_process_s"
      /\ c.fields.in_offset = BufferOffset(in)
      /\ c.fields.in_buffer_type = in.type
      /\ out # NULL => /\ c.fields.out_buffer_type = out.type
                       /\ c.fields.out_offset = BufferOffset(out)
      /\ c.fields.context = a.context
      /\ c.fields.bytes_to_process = a.bytes_to_process
  <2>1. c.fields = Same(a, {"context", "bytes_to_process"}) @@
          [out_buffer_type |-> IF out = NULL THEN "CLEAR" ELSE out.type,
           in_buffer_type  |-> IF in = NULL THEN "CLEAR" ELSE in.type,
           out_offset      |-> IF out = NULL THEN Zero ELSE BufferOffset(out),
           in_offset       |-> BufferOffset(in)]
    BY <1>1 DEF Command
  <2>2. /\ c.fields.in_offset = BufferOffset(in)
        /\ c.fields.in_buffer_type = IF in = NULL THEN "CLEAR" ELSE in.type
    BY ZenonT(60), <2>1 DEF @@, Same
  <2>3. /\ c.fields.out_buffer_type = IF out = NULL THEN "CLEAR" ELSE out.type
        /\ c.fields.out_offset = IF out = NULL THEN Zero ELSE BufferOffset(out)
    BY <2>1 DEF @@, Same
  <2>4. c.fields.context = a.context
    BY ZenonT(60), <2>1 DEF @@, Same
  <2>5. c.fields.bytes_to_process = a.bytes_to_process
    BY <2>1 DEF @@, Same
  <2>6. c.direction = "INOUT" /\ c.struct = "sa_crypto_cipher_process_s"
    BY <1>1 DEF Command
  <2>7. QED
    BY <1>2, <2>2, <2>3, <2>4, <2>5, <2>6
<1>4. p = <<IF out = NULL THEN None ELSE BufferParam("OUT", out),
            BufferParam("IN", in), tag>>
  BY ZenonT(60) DEF Process, Request, @@
<1>5. /\ p[1] = IF out = NULL THEN None ELSE BufferParam("OUT", out)
      /\ p[2] = BufferParam("IN", in) /\ p[3] = tag
  BY <1>4
<1>6. request.returns =
        [in_offset |-> "in_offset",
         bytes_to_process |-> "bytes_to_process"] @@
        (IF out = NULL THEN <<>> ELSE [out_offset |-> "out_offset"])
  BY ZenonT(60) DEF Process, @@
<1>7. request.adds = {n \in {"out", "in"} : a[n] # NULL /\ a[n].type = "CLEAR"}
  BY ZenonT(60) DEF Process, @@
<1>8. /\ Gets("context", c.fields.context)
      /\ Gets("bytes_to_process", c.fields.bytes_to_process)
  BY ZenonT(60) DEF ta_invoke_crypto_cipher_process, Handler, @@, Same, Gets
<1>9. /\ Gets("out", IF p[1].ref = NULL THEN NULL
                     ELSE BufferOf(c.fields.out_buffer_type, p[1],
                                   c.fields.out_offset))
      /\ Gets("in", BufferOf(c.fields.in_buffer_type, p[2], c.fields.in_offset))
  BY ZenonT(60) DEF ta_invoke_crypto_cipher_process, Handler, @@, Same, Gets
<1>10. /\ dispatched.stores =
            [bytes_to_process |-> "bytes_to_process",
             in_offset |-> "in_offset"] @@
            (IF p[1].ref = NULL THEN <<>> ELSE [out_offset |-> "out_offset"])
       /\ dispatched.present = (p[2].ref # NULL)
       /\ dispatched.valid =
            (/\ Carries(c, "INOUT", "sa_crypto_cipher_process_s")
             /\ ~(IsInOut(p[1]) /\ ~IsNull(p[1]))
             /\ IsIn(p[2])
             /\ IsInOut(p[3]) \/ IsNull(p[3]))
  BY ZenonT(60) DEF ta_invoke_crypto_cipher_process, Handler, @@
<1>11. /\ "in" \in DOMAIN dispatched.args
       /\ Passes(p[2], dispatched.args["in"], in, "IN")
  <2>1. /\ dispatched.args["in"] = BufferOf(in.type, p[2], BufferOffset(in))
        /\ "in" \in DOMAIN dispatched.args
    BY <1>3, <1>9 DEF Gets
  <2>2. in \in Buffers("in", svp) /\ ~BufferBad(in)
        /\ p[2] = BufferParam("IN", in)
    BY <1>5
  <2>3. QED
    BY <2>1, <2>2, BufferPassed
<1>12. ASSUME out # NULL
       PROVE  /\ "out" \in DOMAIN dispatched.args
              /\ Passes(p[1], dispatched.args["out"], out, "OUT")
  <2>1. out \in Buffers("out", svp) /\ ~BufferBad(out)
        /\ p[1] = BufferParam("OUT", out)
    BY <1>5, <1>12
  <2>2. PICK x : x = BufferOf(out.type, p[1], BufferOffset(out))
    OBVIOUS
  <2>3. Passes(p[1], x, out, "OUT")
    BY <2>1, <2>2, BufferPassed
  <2>4. Gets("out", x)
    <3>1. p[1].ref # NULL
      BY ZenonT(60), <2>3 DEF Passes
    <3>2. /\ c.fields.out_buffer_type = out.type
          /\ c.fields.out_offset = BufferOffset(out)
      BY ZenonT(60), <1>3, <1>12
    <3>3. Gets("out", BufferOf(c.fields.out_buffer_type, p[1],
                              c.fields.out_offset))
      BY ZenonT(60), <1>9, <3>1
    <3>4. QED
      BY ZenonT(60), <2>2, <3>2, <3>3
  <2>5. QED
    BY <2>3, <2>4 DEF Gets
<1>13. ASSUME out = NULL
       PROVE  p[1] = None /\ p[1].ref = NULL /\ Gets("out", NULL)
  BY <1>5, <1>9, <1>13, NoneParts
<1>14. /\ WellFormed(p[1]) /\ ~(IsInOut(p[1]) /\ ~IsNull(p[1]))
       /\ (p[1].ref = NULL) = (out = NULL)
  BY ZenonT(60), <1>12, <1>13, NoneParts DEF IsInOut, Passes
<1>15. dispatched.valid /\ dispatched.present
  BY ZenonT(60), <1>3, <1>5, <1>10, <1>11, <1>14 DEF Carries, IsIn, Passes
<1>16. \A i \in 1 .. 3 : WellFormed(p[i])
  <2>1. WellFormed(p[1]) /\ WellFormed(p[2]) /\ WellFormed(p[3])
    BY ZenonT(60), <1>5, <1>11, <1>14 DEF Passes
  <2>2. QED
    BY <2>1
<1>17. \A n \in {"out", "in"} :
         /\ n \in DOMAIN dispatched.args
         /\ View(dispatched.args[n]) = View(a[n])
  BY ZenonT(60), <1>11, <1>12, <1>13 DEF Gets, Passes
<1>18. ResultsLand
  <2>1. ASSUME NEW n \in DOMAIN request.returns
        PROVE  /\ request.returns[n] \in DOMAIN dispatched.stores
               /\ request.returns[n] = n /\ dispatched.stores[n] = n
               /\ \/ n \in {"in_offset", "bytes_to_process"}
                  \/ n = "out_offset" /\ out # NULL
    <3>1. CASE out = NULL
      <4>1. request.returns = [in_offset |-> "in_offset",
                               bytes_to_process |-> "bytes_to_process"]
        <5>1. request.returns = [in_offset |-> "in_offset",
                                 bytes_to_process |-> "bytes_to_process"]
                                @@ <<>>
          BY ZenonT(60), <1>6, <3>1
        <5>2. QED
          BY <5>1 DEF @@
      <4>2. dispatched.stores = [in_offset |-> "in_offset",
                                 bytes_to_process |-> "bytes_to_process"]
        <5>1. dispatched.stores = [bytes_to_process |-> "bytes_to_process",
                                   in_offset |-> "in_offset"] @@ <<>>
          BY ZenonT(60), <1>10, <1>14, <3>1
        <5>2. QED
          BY <5>1 DEF @@
      <4>3. n = "in_offset" \/ n = "bytes_to_process"
        BY <2>1, <4>1
      <4>4. QED
        BY <4>1, <4>2, <4>3
    <3>2. CASE out # NULL
      <4>1. request.returns = [in_offset |-> "in_offset",
                               bytes_to_process |-> "bytes_to_process",
                               out_offset |-> "out_offset"]
        <5>1. request.returns = [in_offset |-> "in_offset",
                                 bytes_to_process |-> "bytes_to_process"]
                                @@ [out_offset |-> "out_offset"]
          BY ZenonT(60), <1>6, <3>2
        <5>2. QED
          BY <5>1 DEF @@
      <4>2. dispatched.stores = [in_offset |-> "in_offset",
                                 bytes_to_process |-> "bytes_to_process",
                                 out_offset |-> "out_offset"]
        <5>1. dispatched.stores = [bytes_to_process |-> "bytes_to_process",
                                   in_offset |-> "in_offset"]
                                  @@ [out_offset |-> "out_offset"]
          BY ZenonT(60), <1>10, <1>14, <3>2
        <5>2. QED
          BY <5>1 DEF @@
      <4>3. \/ n = "in_offset" \/ n = "bytes_to_process"
            \/ n = "out_offset"
        BY <2>1, <4>1
      <4>4. QED
        BY <3>2, <4>1, <4>2, <4>3
    <3>3. QED
      BY ZenonT(60), <3>1, <3>2
  <2>2. Landed("bytes_to_process") = Result(a, "bytes_to_process")
        \/ "bytes_to_process" \notin DOMAIN request.returns
    BY ZenonT(60), <2>1 DEF Landed, Result
  <2>3. Landed("in_offset") = Result(a, "in_offset")
        \/ "in_offset" \notin DOMAIN request.returns
    <3>1. /\ Argument(a, "in_offset") = in.offset
          /\ Argument(dispatched.args, "in_offset") =
               dispatched.args["in"].offset
      BY ZenonT(60), <1>2, <1>11 DEF Argument, Passes
    <3>2. /\ Result(a, "in_offset") = in.offset \o <<"moved">>
          /\ Result(dispatched.args, "in_offset") =
               dispatched.args["in"].offset \o <<"moved">>
      BY ZenonT(60), <3>1 DEF Result
    <3>3. "in" \in request.adds <=> in.type = "CLEAR"
      BY <1>2, <1>7
    <3>4. ASSUME "in_offset" \in DOMAIN request.returns
          PROVE  Landed("in_offset") = Result(a, "in_offset")
      <4>1. dispatched.stores[request.returns["in_offset"]] = "in_offset"
        <5>1. request.returns["in_offset"] = "in_offset"
          BY ZenonT(60), <2>1, <3>4
        <5>2. dispatched.stores["in_offset"] = "in_offset"
          BY ZenonT(60), <2>1, <3>4
        <5>3. QED
          BY ZenonT(60), <5>1, <5>2
      <4>2. Landed("in_offset") =
              IF "in" \in request.adds
              THEN Argument(a, "in_offset") \o
                     Result(dispatched.args, "in_offset")
              ELSE Result(dispatched.args, "in_offset")
        BY <4>1 DEF Landed
      <4>3. QED
        BY ZenonT(60), <1>11, <3>1, <3>2, <3>3, <4>2 DEF Passes
    <3>5. QED
      BY <3>4
  <2>4. Landed("out_offset") = Result(a, "out_offset")
        \/ "out_offset" \notin DOMAIN request.returns
    <3>1. CASE out # NULL
      <4>1. /\ Argument(a, "out_offset") = out.offset
            /\ Argument(dispatched.args, "out_offset") =
                 dispatched.args["out"].offset
        BY ZenonT(60), <1>12, <3>1 DEF Argument, Passes
      <4>2. /\ Result(a, "out_offset") = out.offset \o <<"moved">>
            /\ Result(dispatched.args, "out_offset") =
                 dispatched.args["out"].offset \o <<"moved">>
        BY ZenonT(60), <4>1 DEF Result
      <4>3. "out" \in request.adds <=> out.type = "CLEAR"
        BY <1>7, <3>1
      <4>4. ASSUME "out_offset" \in DOMAIN request.returns
            PROVE  Landed("out_offset") = Result(a, "out_offset")
        <5>1. dispatched.stores[request.returns["out_offset"]] = "out_offset"
          <6>1. request.returns["out_offset"] = "out_offset"
            BY ZenonT(60), <2>1, <4>4
          <6>2. dispatched.stores["out_offset"] = "out_offset"
            BY ZenonT(60), <2>1, <4>4
          <6>3. QED
            BY ZenonT(60), <6>1, <6>2
        <5>2. Landed("out_offset") =
                IF "out" \in request.adds
                THEN Argument(a, "out_offset") \o
                       Result(dispatched.args, "out_offset")
                ELSE Result(dispatched.args, "out_offset")
          BY <5>1 DEF Landed
        <5>3. QED
          BY ZenonT(60), <1>12, <3>1, <4>1, <4>2, <4>3, <5>2 DEF Passes
      <4>5. QED
        BY <4>4
    <3>2. CASE out = NULL
      BY <2>1, <3>2
    <3>3. QED
      BY <3>1, <3>2
  <2>5. QED
    BY ZenonT(60), <2>1, <2>2, <2>3, <2>4 DEF ResultsLand
<1>19. QED
  BY ZenonT(60), <1>3, <1>5, <1>8, <1>15, <1>16, <1>17, <1>18

(* The checks of both functions on data.                                     *)
LEMMA ProcessChecks ==
  ASSUME NEW a, NEW in_param, NEW in_offset, NEW tag_param,
         NEW q, q = Process(a, in_param, in_offset, tag_param)
  PROVE  /\ ~q.refused => a.in # NULL
         /\ ~q.rejected => /\ a.out # NULL => ~BufferBad(a.out)
                           /\ a.in # NULL => ~BufferBad(a.in)
         /\ ~q.keeps /\ ~q.always /\ ~q.late /\ ~q.absent
         /\ q.command.direction = "INOUT"
<1>1. q.command = Command("INOUT", "sa_crypto_cipher_process_s",
                    Same(a, {"context", "bytes_to_process"}) @@
                    [out_buffer_type |-> IF a.out = NULL THEN "CLEAR"
                                         ELSE a.out.type,
                     in_buffer_type  |-> IF a.in = NULL THEN "CLEAR"
                                         ELSE a.in.type,
                     out_offset      |-> IF a.out = NULL THEN Zero
                                         ELSE BufferOffset(a.out),
                     in_offset       |-> in_offset])
  BY DEF Process, Request, @@
<1>2. q.command.direction = "INOUT"
  BY <1>1 DEF Command
<1>3. /\ ~q.refused => a.in # NULL
      /\ ~q.rejected => /\ a.out # NULL => ~BufferBad(a.out)
                        /\ a.in # NULL => ~BufferBad(a.in)
  <2>1. ~q.refused => a.in # NULL
    BY ZenonT(60) DEF Process, @@
  <2>2. ~q.rejected => /\ a.out # NULL => ~BufferBad(a.out)
                       /\ a.in # NULL => ~BufferBad(a.in)
    BY ZenonT(60) DEF Process, @@
  <2>3. QED
    BY ZenonT(60), <2>1, <2>2
<1>4. ~q.keeps /\ ~q.always /\ ~q.late /\ ~q.absent
  BY DEF Process, Request, @@
<1>5. QED
  BY <1>2, <1>3, <1>4

(* sa_crypto_cipher_process: without a tag. *)
LEMMA CipherProcessRight ==
  ASSUME call.command = "SA_CRYPTO_CIPHER_PROCESS",
         call.args \in CipherProcess(svp), NullIsNoFunction
  PROVE  CommandRight
<1> DEFINE a == call.args
           c == request.command
           p == request.params
<1>1. /\ request = sa_crypto_cipher_process(a)
      /\ dispatched = ta_invoke_crypto_cipher_process(FALSE, c, p)
  BY DEF request, Client, dispatched, ta_invoke_command_handler
<1>2. PICK in_param, in_offset : request = Process(a, in_param, in_offset, None)
  BY <1>1 DEF sa_crypto_cipher_process
<1>3. /\ ~request.refused => a.in # NULL
      /\ ~request.rejected => /\ a.out # NULL => ~BufferBad(a.out)
                              /\ a.in # NULL => ~BufferBad(a.in)
      /\ ~request.keeps /\ ~request.always
      /\ c.direction = "INOUT"
  BY <1>2, ProcessChecks
<1>4. Ordinary
  BY <1>3 DEF Ordinary
<1>5. /\ DOMAIN a = {"out", "context", "in", "bytes_to_process"}
      /\ a.out \in Buffers("out", svp) \cup {NULL}
      /\ a.in \in Buffers("in", svp) \cup {NULL}
  BY DEF CipherProcess
<1>6. ASSUME Sent
      PROVE  Accepted /\ Arrives /\ ResultsLand
  <2>1. /\ a.in \in Buffers("in", svp) /\ ~BufferBad(a.in)
        /\ a.out # NULL => ~BufferBad(a.out)
    BY <1>3, <1>5, <1>6 DEF Sent
  <2>2. request = Process(a, BufferParam("IN", a.in), BufferOffset(a.in), None)
    <3>1. a.in # NULL
      BY ZenonT(60), <1>3, <1>6 DEF Sent
    <3>2. QED
      BY ZenonT(60), <1>1, <3>1 DEF sa_crypto_cipher_process
  <2>3. /\ dispatched.valid /\ dispatched.present
        /\ \A i \in 1 .. 3 : WellFormed(request.params[i])
        /\ Gets("context", a.context)
        /\ Gets("bytes_to_process", a.bytes_to_process)
        /\ \A n \in {"out", "in"} :
             /\ n \in DOMAIN dispatched.args
             /\ View(dispatched.args[n]) = View(a[n])
        /\ ResultsLand
    <3>1. WellFormed(None) /\ IsNull(None)
      BY NoneParts
    <3>2. QED
      BY <1>1, <1>5, <2>1, <2>2, <3>1, ProcessRight
  <2>4. Passed = DOMAIN a
    BY <1>5 DEF Passed
  <2>5. QED
    BY <1>5, <2>3, <2>4 DEF Accepted, Arrives, Gets, BufferCommands
<1>7. QED
  BY ZenonT(60), <1>4, <1>6 DEF CommandRight, Taken

(* sa_crypto_cipher_process_last: with a tag, if the algorithm has one.      *)
LEMMA CipherProcessLastRight ==
  ASSUME call.command = "SA_CRYPTO_CIPHER_PROCESS_LAST",
         call.args \in CipherProcessLast(svp), NullIsNoFunction
  PROVE  CommandRight
<1> DEFINE a == call.args
           c == request.command
           p == request.params
           tag_missing == a.parameters # NULL /\ a.tag = NULL
           svp_in == a.in # NULL /\ a.in.type = "SVP"
           left_out == svp_in /\ a.out # NULL /\ a.out.type = "CLEAR"
           tag == IF a.parameters = NULL THEN None
                  ELSE Param("INOUT", a.tag, a.tag_length)
<1>1. /\ request = sa_crypto_cipher_process_last(a)
      /\ dispatched = ta_invoke_crypto_cipher_process(TRUE, c, p)
  BY ZenonT(60) DEF request, Client, dispatched, ta_invoke_command_handler
<1>2. PICK q : /\ request = [rejected |-> q.rejected \/ tag_missing,
                             absent   |-> svp_in /\ a.out = NULL] @@ q
               /\ q = CASE a.in = NULL -> Process(a, None, Zero, tag)
                        [] left_out ->
                             Process(a, Param("IN", NULL, Unset), Unset, tag)
                        [] OTHER -> Process(a, BufferParam("IN", a.in),
                                            BufferOffset(a.in), tag)
  BY ZenonT(60), <1>1 DEF sa_crypto_cipher_process_last
<1>3. PICK in_param, in_offset : q = Process(a, in_param, in_offset, tag)
  <2>1. CASE a.in = NULL
    BY <1>2, <2>1
  <2>2. CASE a.in # NULL /\ left_out
    BY <1>2, <2>2
  <2>3. CASE a.in # NULL /\ ~left_out
    BY <1>2, <2>3
  <2>4. QED
    BY <2>1, <2>2, <2>3
<1>4. /\ ~q.refused => a.in # NULL
      /\ ~q.rejected => /\ a.out # NULL => ~BufferBad(a.out)
                        /\ a.in # NULL => ~BufferBad(a.in)
      /\ ~q.keeps /\ ~q.always
      /\ q.command.direction = "INOUT"
  <2> HIDE DEF tag
  <2>1. QED
    BY <1>3, ProcessChecks
<1>5. {"refused", "rejected", "keeps", "always", "command", "params", "returns",
       "adds", "late", "absent"} \subseteq DOMAIN q
  BY <1>3 DEF Process, Request, @@
<1>6. /\ request.refused = q.refused
      /\ request.rejected = (q.rejected \/ tag_missing)
      /\ request.absent = (svp_in /\ a.out = NULL)
      /\ request.keeps = q.keeps /\ request.always = q.always
  BY ZenonT(60), <1>2, <1>5 DEF @@
<1>7. /\ request.command = q.command /\ request.params = q.params
      /\ request.returns = q.returns /\ request.adds = q.adds
  BY ZenonT(60), <1>2, <1>5 DEF @@
<1>8. Ordinary
  BY <1>4, <1>6, <1>7 DEF Ordinary
<1>9. PICK f \in CipherProcess(svp), e \in sa_cipher_end_parameters : a = f @@ e
  BY DEF CipherProcessLast, Both
<1>10. /\ a.out \in Buffers("out", svp) \cup {NULL}
       /\ a.in \in Buffers("in", svp) \cup {NULL}
       /\ DOMAIN a = {"out", "context", "in", "bytes_to_process"} \cup DOMAIN e
       /\ a.parameters = e.parameters
  <2>1. /\ DOMAIN f = {"out", "context", "in", "bytes_to_process"}
        /\ f.out \in Buffers("out", svp) \cup {NULL}
        /\ f.in \in Buffers("in", svp) \cup {NULL}
    BY DEF CipherProcess
  <2>2. "parameters" \in DOMAIN e
    BY DEF sa_cipher_end_parameters
  <2>3. QED
    BY <1>9, <2>1, <2>2 DEF @@
<1>11. \/ a.parameters = NULL /\ DOMAIN e = {"parameters"}
       \/ a.parameters # NULL /\ DOMAIN e = {"parameters", "tag", "tag_length"}
  <2>1. CASE e \in [parameters : {NULL}]
    BY <1>10, <2>1
  <2>2. CASE e \in [parameters : Given("parameters"), tag : Pointer("tag"),
                    tag_length : Length("tag_length")]
    <3>1. /\ DOMAIN e = {"parameters", "tag", "tag_length"}
          /\ e.parameters = <<"parameters">>
      BY <2>2 DEF Given
    <3>2. <<"parameters">> # NULL
      BY DEF NullIsNoFunction
    <3>3. QED
      BY <1>10, <3>1, <3>2
  <2>3. QED
    BY <2>1, <2>2 DEF sa_cipher_end_parameters
<1>12. ASSUME Sent
       PROVE  /\ a.in \in Buffers("in", svp) /\ ~BufferBad(a.in)
              /\ a.out # NULL => ~BufferBad(a.out)
              /\ ~tag_missing
  BY ZenonT(60), <1>4, <1>6, <1>10, <1>12 DEF Sent
<1>13. ASSUME Sent, left_out
       PROVE  Accepted /\ ~Taken
  <2> HIDE DEF tag
  <2>1. q = Process(a, Param("IN", NULL, Unset), Unset, tag)
    BY <1>2, <1>13
  <2>2. p[2] = Param("IN", NULL, Unset)
    <3>1. p = <<IF a.out = NULL THEN None ELSE BufferParam("OUT", a.out),
                Param("IN", NULL, Unset), tag>>
      BY ZenonT(60), <1>7, <2>1 DEF Process, Request, @@
    <3>2. QED
      BY <3>1
  <2>3. p[2].ref = NULL
    BY <2>2 DEF Param
  <2>4. dispatched.present = (p[2].ref # NULL)
    BY ZenonT(60), <1>1 DEF ta_invoke_crypto_cipher_process, Handler, @@
  <2>5. InputLeftOut
    BY <1>13 DEF InputLeftOut
  <2>6. QED
    BY <2>3, <2>4, <2>5 DEF Accepted, Taken
<1>14. ASSUME Sent, ~left_out
       PROVE  Accepted /\ Arrives /\ ResultsLand
  <2>1. WellFormed(tag) /\ (IsInOut(tag) \/ IsNull(tag))
    <3>1. CASE a.parameters = NULL
      BY <3>1, NoneParts
    <3>2. CASE a.parameters # NULL
      <4>1. tag = Param("INOUT", a.tag, a.tag_length) /\ a.tag # NULL
        BY <1>12, <1>14, <3>2
      <4>2. tag.type = "INOUT" /\ tag.ref = a.tag
        BY <4>1 DEF Param
      <4>3. WellFormed(tag)
        BY ZenonT(60), <4>1, <4>2 DEF WellFormed
      <4>4. QED
        BY ZenonT(60), <4>2, <4>3 DEF IsInOut
    <3>3. QED
      BY <3>1, <3>2
  <2>2. q = Process(a, BufferParam("IN", a.in), BufferOffset(a.in), tag)
    <3> HIDE DEF tag
    <3>1. QED
      BY <1>2, <1>4, <1>6, <1>14 DEF Sent
  <2>3. /\ dispatched.valid /\ dispatched.present
        /\ \A i \in 1 .. 3 : WellFormed(request.params[i])
        /\ p[3] = tag
        /\ Gets("context", a.context)
        /\ Gets("bytes_to_process", a.bytes_to_process)
        /\ \A n \in {"out", "in"} :
             /\ n \in DOMAIN dispatched.args
             /\ View(dispatched.args[n]) = View(a[n])
        /\ ResultsLand
    <3> HIDE DEF tag
    <3>1. QED
      BY ZenonT(60), <1>1, <1>7, <1>10, <1>12, <1>14, <2>1, <2>2, ProcessRight
  <2>4. ASSUME a.parameters # NULL
        PROVE  Gets("tag", a.tag) /\ Gets("tag_length", a.tag_length)
    <3>1. p[3].ref = a.tag /\ p[3].size = a.tag_length /\ a.tag # NULL
      BY <1>12, <1>14, <2>3, <2>4, ParamParts
    <3>2. /\ p[3].ref # NULL => Gets("tag", p[3].ref)
          /\ p[3].ref # NULL => Gets("tag_length", p[3].size)
      BY ZenonT(60), <1>1
         DEF ta_invoke_crypto_cipher_process, Handler, @@, Same, Gets
    <3>3. QED
      BY <3>1, <3>2
  <2>5. Passed = DOMAIN a \ {"parameters"}
    BY <1>10, <1>11 DEF Passed
  <2>6. ASSUME NEW n \in Passed
        PROVE  /\ n \in DOMAIN dispatched.args
               /\ IF n \in {"out", "in"} /\ call.command \in BufferCommands
                  THEN View(dispatched.args[n]) = View(a[n])
                  ELSE dispatched.args[n] = a[n]
    <3>1. \/ n \in {"out", "in"} \/ n = "context" \/ n = "bytes_to_process"
          \/ a.parameters # NULL /\ n = "tag"
          \/ a.parameters # NULL /\ n = "tag_length"
      BY <1>10, <1>11, <2>5, <2>6
    <3>2. QED
      BY <2>3, <2>4, <3>1 DEF Gets, BufferCommands
  <2>7. QED
    BY <2>3, <2>6 DEF Accepted, Arrives
<1>15. QED
  BY <1>8, <1>13, <1>14 DEF CommandRight, Taken

(* The samples of a call that is not refused have their own names and those   *)
(* of the sample.                                                            *)
LEMMA SampleNames ==
  ASSUME NullIsNoFunction, NEW enabled, NEW x \in SampleCalls(enabled)
  PROVE  /\ x.samples_length \in {<<"one">>, <<"many">>, Zero}
         /\ DOMAIN x = {"iv", "iv_length", "crypt_byte_block",
                        "skip_byte_block", "subsample_count",
                        "subsample_lengths", "context", "out", "in",
                        "samples", "samples_length"}
         /\ x.out \in Buffers("out", enabled) \cup {NULL}
         /\ x.in \in Buffers("in", enabled) \cup {NULL}
         /\ x.subsample_count \in {<<"subsample_count">>, Zero}
         /\ x.samples_length # Zero => x.samples = <<"samples">>
<1> DEFINE F == {"iv", "iv_length", "crypt_byte_block", "skip_byte_block",
                 "subsample_count", "subsample_lengths", "context", "out", "in"}
<1>1. PICK s, t : /\ s \in Samples(enabled)
                  /\ x = s @@ t
                  /\ DOMAIN t = {"samples", "samples_length"}
                  /\ t.samples_length \in {<<"one">>, <<"many">>, Zero}
                  /\ \/ t.samples_length = Zero
                     \/ t.samples = <<"samples">>
  <2>1. CASE x \in {s @@ [samples |-> <<"samples">>, samples_length |-> length] :
                    s \in Samples(enabled), length \in {<<"one">>, <<"many">>}}
    <3>1. PICK s \in Samples(enabled), length \in {<<"one">>, <<"many">>} :
            x = s @@ [samples |-> <<"samples">>, samples_length |-> length]
      BY <2>1
    <3>2. PICK t : t = [samples |-> <<"samples">>, samples_length |-> length]
      OBVIOUS
    <3>3. QED
      BY <3>1, <3>2
  <2>2. CASE x \in {(CHOOSE s \in Samples(enabled) : TRUE) @@ a :
                    a \in [samples : Pointer("samples"),
                           samples_length : {Zero}]}
    <3>1. PICK t \in [samples : Pointer("samples"), samples_length : {Zero}] :
            x = (CHOOSE s \in Samples(enabled) : TRUE) @@ t
      BY <2>2
    <3>2. PICK s : s = CHOOSE r \in Samples(enabled) : TRUE
      OBVIOUS
    <3>3. s \in Samples(enabled)
      <4>1. [iv |-> NULL, iv_length |-> Zero,
             crypt_byte_block |-> <<"crypt_byte_block">>,
             skip_byte_block |-> <<"skip_byte_block">>,
             subsample_count |-> Zero, subsample_lengths |-> NULL,
             context |-> <<"context">>, out |-> NULL, in |-> NULL]
              \in Samples(enabled)
        BY DEF Samples, Pointer, Given, Length, Exactly
      <4>2. QED
        BY <3>2, <4>1
    <3>4. /\ DOMAIN t = {"samples", "samples_length"}
          /\ t.samples_length = Zero
      BY <3>1
    <3>5. QED
      BY <3>1, <3>2, <3>3, <3>4
  <2>3. QED
    BY <2>1, <2>2 DEF SampleCalls
<1>2. /\ DOMAIN s = F
      /\ s.out \in Buffers("out", enabled) \cup {NULL}
      /\ s.in \in Buffers("in", enabled) \cup {NULL}
      /\ s.subsample_count \in {<<"subsample_count">>, Zero}
  BY <1>1 DEF Samples, Length
<1>3. DOMAIN x = F \cup {"samples", "samples_length"}
  BY <1>1, <1>2 DEF @@
<1>4. x.samples_length = t.samples_length /\ x.samples = t.samples
  BY <1>1, <1>2 DEF @@
<1>5. x.out = s.out /\ x.in = s.in /\ x.subsample_count = s.subsample_count
  BY <1>1, <1>2 DEF @@
<1>6. QED
  BY <1>1, <1>2, <1>3, <1>4, <1>5

(* sa_process_common_encryption: one sample. *)
LEMMA CencRight ==
  ASSUME call.command = "SA_PROCESS_COMMON_ENCRYPTION",
         call.args \in SampleCalls(svp), NullIsNoFunction
  PROVE  CommandRight
<1> DEFINE a == call.args
           c == request.command
           p == request.params
           in == a.in
           out == a.out
           size == Times(a.subsample_count, "sa_subsample_length")
<1>1. /\ request = sa_process_common_encryption(a)
      /\ dispatched = ta_invoke_process_common_encryption(c, p)
  BY DEF request, Client, dispatched, ta_invoke_command_handler
<1>2. PICK q : /\ q = IF NULL \in {out, in}
                      THEN Request("INOUT", "sa_process_common_encryption_s",
                                   <<>>, NoParams)
                      ELSE Request("INOUT", "sa_process_common_encryption_s",
                             Same(a, {"iv", "crypt_byte_block",
                                      "skip_byte_block", "subsample_count",
                                      "context"}) @@
                             [out_buffer_type |-> out.type,
                              in_buffer_type  |-> in.type,
                              out_offset |-> BufferOffset(out),
                              in_offset  |-> BufferOffset(in)],
                             <<In(a.subsample_lengths, size),
                               BufferParam("OUT", out),
                               BufferParam("IN", in)>>)
               /\ request =
                    [refused  |-> a.samples = NULL \/ a.samples_length = Zero,
                     rejected |-> \/ NULL \in {a.iv, a.subsample_lengths}
                                  \/ NULL \in {a.out, a.in}
                                  \/ a.iv_length # AES_BLOCK_SIZE,
                     extra    |-> TRUE,
                     late     |-> \E b \in {a.out, a.in} :
                                    b # NULL /\ BufferBad(b),
                     returns  |-> [out_offset |-> "out_offset",
                                   in_offset |-> "in_offset"],
                     adds     |-> {n \in {"out", "in"} :
                                     a[n] # NULL /\ a[n].type = "CLEAR"}] @@ q
  BY ZenonT(60), <1>1 DEF sa_process_common_encryption
<1>3. PICK fields, params :
        q = Request("INOUT", "sa_process_common_encryption_s", fields, params)
  BY ZenonT(60), <1>2
<1>4. request.command = q.command /\ request.params = q.params
  <2>1. request.command = q.command
    BY ZenonT(60), <1>2, <1>3 DEF Request, @@
  <2>2. request.params = q.params
    BY ZenonT(60), <1>2, <1>3 DEF Request, @@
  <2>3. QED
    BY ZenonT(60), <2>1, <2>2
<1>5. ~request.keeps /\ ~request.always
  BY <1>2, <1>3 DEF Request, @@
<1>6. c = Command("INOUT", "sa_process_common_encryption_s", fields)
      /\ p = params
  BY <1>3, <1>4 DEF Request
<1>7. c.direction = "INOUT" /\ c.struct = "sa_process_common_encryption_s"
      /\ c.fields = fields
  BY <1>6 DEF Command
<1>8. Ordinary
  BY <1>5, <1>7 DEF Ordinary
<1>9. /\ request.returns = [out_offset |-> "out_offset",
                            in_offset |-> "in_offset"]
      /\ request.adds = {n \in {"out", "in"} :
                           a[n] # NULL /\ a[n].type = "CLEAR"}
  <2>1. request.returns = [out_offset |-> "out_offset",
                           in_offset |-> "in_offset"]
    BY ZenonT(60), <1>2 DEF @@
  <2>2. request.adds = {n \in {"out", "in"} :
                          a[n] # NULL /\ a[n].type = "CLEAR"}
    BY ZenonT(60), <1>2 DEF @@
  <2>3. QED
    BY ZenonT(60), <2>1, <2>2
<1>10. /\ ~request.refused => a.samples_length # Zero
       /\ ~request.rejected => /\ a.iv # NULL /\ a.subsample_lengths # NULL
                               /\ out # NULL /\ in # NULL
                               /\ a.iv_length = AES_BLOCK_SIZE
  BY <1>2 DEF @@
<1>11. ~request.late => \A b \in {out, in} : b # NULL => ~BufferBad(b)
  BY ZenonT(60), <1>2 DEF @@
<1>12. /\ Gets("iv", c.fields.iv)
       /\ Gets("crypt_byte_block", c.fields.crypt_byte_block)
       /\ Gets("skip_byte_block", c.fields.skip_byte_block)
       /\ Gets("subsample_count", c.fields.subsample_count)
       /\ Gets("context", c.fields.context)
  BY ZenonT(60), <1>1
     DEF ta_invoke_process_common_encryption, Handler, @@, Same, Gets
<1>13. /\ Gets("iv_length", AES_BLOCK_SIZE)
       /\ Gets("subsample_lengths", p[1].ref)
       /\ Gets("out", BufferOf(c.fields.out_buffer_type, p[2],
                               c.fields.out_offset))
       /\ Gets("in", BufferOf(c.fields.in_buffer_type, p[3], c.fields.in_offset))
  BY ZenonT(60), <1>1
     DEF ta_invoke_process_common_encryption, Handler, @@, Same, Gets
<1>14. dispatched.stores = [out_offset |-> "out_offset",
                            in_offset |-> "in_offset"]
  BY ZenonT(60), <1>1 DEF ta_invoke_process_common_encryption, Handler, @@
<1>15. dispatched.present = (\A i \in 1 .. 3 : p[i].ref # NULL)
  BY ZenonT(60), <1>1 DEF ta_invoke_process_common_encryption, Handler, @@
<1>16. dispatched.valid =
         (/\ Carries(c, "INOUT", "sa_process_common_encryption_s")
          /\ IsIn(p[1]) /\ (IsIn(p[2]) \/ IsOut(p[2])) /\ IsIn(p[3])
          /\ \A i \in 1 .. 3 : p[i].size # Zero
          /\ p[1].size =
               Times(c.fields.subsample_count, "sa_subsample_length"))
  BY ZenonT(60), <1>1 DEF ta_invoke_process_common_encryption, Handler, @@
<1>17. ASSUME Sent
       PROVE  Accepted /\ Arrives /\ ResultsLand
  <2>1. /\ out # NULL /\ in # NULL
        /\ out \in Buffers("out", svp) /\ ~BufferBad(out)
        /\ in \in Buffers("in", svp) /\ ~BufferBad(in)
    <3>1. out # NULL /\ in # NULL
      BY <1>10, <1>17 DEF Sent
    <3>2. out \in Buffers("out", svp) /\ in \in Buffers("in", svp)
      BY <3>1, SampleNames
    <3>3. ~BufferBad(out) /\ ~BufferBad(in)
      BY <1>11, <1>17, <3>1 DEF Sent
    <3>4. QED
      BY <3>1, <3>2, <3>3
  <2>2. /\ a.iv # NULL /\ a.subsample_lengths # NULL
        /\ a.iv_length = AES_BLOCK_SIZE
    BY <1>10, <1>17 DEF Sent
  <2>3. q = Request("INOUT", "sa_process_common_encryption_s",
              Same(a, {"iv", "crypt_byte_block", "skip_byte_block",
                       "subsample_count", "context"}) @@
              [out_buffer_type |-> out.type, in_buffer_type  |-> in.type,
               out_offset |-> BufferOffset(out),
               in_offset  |-> BufferOffset(in)],
              <<In(a.subsample_lengths, size), BufferParam("OUT", out),
                BufferParam("IN", in)>>)
    BY <1>2, <2>1
  <2>4. p = <<In(a.subsample_lengths, size), BufferParam("OUT", out),
              BufferParam("IN", in)>>
    BY <1>4, <2>3 DEF Request
  <2>5. c.fields = Same(a, {"iv", "crypt_byte_block", "skip_byte_block",
                            "subsample_count", "context"}) @@
                   [out_buffer_type |-> out.type, in_buffer_type  |-> in.type,
                    out_offset |-> BufferOffset(out),
                    in_offset  |-> BufferOffset(in)]
    BY <1>4, <2>3 DEF Request, Command
  <2>6. /\ c.fields.iv = a.iv
        /\ c.fields.crypt_byte_block = a.crypt_byte_block
        /\ c.fields.skip_byte_block = a.skip_byte_block
    BY <2>5 DEF @@, Same
  <2>7. /\ c.fields.subsample_count = a.subsample_count
        /\ c.fields.context = a.context
    BY <2>5 DEF @@, Same
  <2>8. /\ c.fields.out_buffer_type = out.type
        /\ c.fields.out_offset = BufferOffset(out)
        /\ c.fields.in_buffer_type = in.type
        /\ c.fields.in_offset = BufferOffset(in)
    BY <2>5 DEF @@, Same
  <2>9. /\ p[1] = In(a.subsample_lengths, size)
        /\ p[2] = BufferParam("OUT", out) /\ p[3] = BufferParam("IN", in)
    BY <2>4
  <2>10. /\ p[1].ref = a.subsample_lengths /\ p[1].size = size
         /\ WellFormed(p[1]) /\ IsIn(p[1])
    BY <2>2, <2>9, InParts
  <2>11. Passes(p[2], dispatched.args["out"], out, "OUT")
    <3>1. dispatched.args["out"] =
            BufferOf(out.type, p[2], BufferOffset(out))
      BY <1>13, <2>8 DEF Gets
    <3>2. QED
      BY <2>1, <2>9, <3>1, BufferPassed
  <2>12. Passes(p[3], dispatched.args["in"], in, "IN")
    <3>1. dispatched.args["in"] = BufferOf(in.type, p[3], BufferOffset(in))
      BY <1>13, <2>8 DEF Gets
    <3>2. QED
      BY <2>1, <2>9, <3>1, BufferPassed
  <2>13. Accepted
    <3>1. WellFormed(p[1]) /\ WellFormed(p[2]) /\ WellFormed(p[3])
      BY ZenonT(60), <2>10, <2>11, <2>12 DEF Passes
    <3>2. dispatched.present
      <4>1. p[1].ref # NULL /\ p[2].ref # NULL /\ p[3].ref # NULL
        BY ZenonT(60), <2>2, <2>10, <2>11, <2>12 DEF Passes
      <4>2. QED
        BY <1>15, <4>1
    <3>3. ASSUME ~RefusedByTA
          PROVE  dispatched.valid
      <4>1. /\ a.subsample_count # Zero
            /\ View(out).length # Zero /\ View(in).length # Zero
        <5>1. "subsample_count" \in DOMAIN a
          BY SampleNames
        <5>2. QED
          BY <3>3, <5>1 DEF RefusedByTA, Missing
      <4>2. p[2].size # Zero /\ p[3].size # Zero
        BY ZenonT(60), <2>11, <2>12, <4>1 DEF Passes
      <4>3. p[1].size # Zero
        <5>1. a.subsample_count = <<"subsample_count">>
          BY ZenonT(60), <4>1, SampleNames
        <5>2. QED
          BY <2>10, <5>1 DEF Times, sizeof, Zero
      <4>4. IsIn(p[2]) \/ IsOut(p[2])
        <5>1. p[2].ref # NULL /\ p[2].type \in {"IN", "OUT"}
          BY ZenonT(60), <2>11 DEF Passes
        <5>2. QED
          BY ZenonT(60), <5>1 DEF IsIn, IsOut
      <4>5. IsIn(p[3])
        BY <2>12 DEF Passes, IsIn
      <4>6. Carries(c, "INOUT", "sa_process_common_encryption_s")
        BY <1>7 DEF Carries
      <4>7. \A i \in 1 .. 3 : p[i].size # Zero
        BY <4>2, <4>3
      <4>8. QED
        BY <1>16, <2>7, <2>10, <4>4, <4>5, <4>6, <4>7
    <3>4. \A i \in 1 .. 3 : WellFormed(p[i])
      BY <3>1
    <3>5. QED
      BY <3>2, <3>3, <3>4 DEF Accepted
  <2>14. Arrives
    <3>1. Passed = DOMAIN a \ {"samples", "samples_length"}
      <4>1. Passed = DOMAIN a \ {"parameters", "type_parameters",
                                 "algorithm_parameters", "samples",
                                 "samples_length"}
        BY DEF Passed
      <4>2. QED
        BY <4>1, SampleNames
    <3>2. ASSUME NEW n \in Passed
          PROVE  /\ n \in DOMAIN dispatched.args
                 /\ IF n \in {"out", "in"} /\ call.command \in BufferCommands
                    THEN View(dispatched.args[n]) = View(a[n])
                    ELSE dispatched.args[n] = a[n]
      <4>1. n \in {"iv", "iv_length", "crypt_byte_block", "skip_byte_block",
                   "subsample_count", "subsample_lengths", "context", "out",
                   "in"}
        BY <3>1, <3>2, SampleNames
      <4>2. CASE n \in {"out", "in"}
        BY ZenonT(60), <1>13, <2>11, <2>12, <4>2 DEF Gets, Passes, BufferCommands
      <4>3. CASE n \in {"iv_length", "subsample_lengths"}
        BY <1>13, <2>2, <2>10, <4>3 DEF Gets
      <4>4. CASE n \in {"iv", "crypt_byte_block", "skip_byte_block",
                        "subsample_count", "context"}
        BY <1>12, <2>6, <2>7, <4>4 DEF Gets
      <4>5. QED
        BY <4>1, <4>2, <4>3, <4>4
    <3>3. QED
      BY <3>2 DEF Arrives
  <2>15. ResultsLand
    <3>1. /\ Argument(a, "in_offset") = in.offset
          /\ Argument(a, "out_offset") = out.offset
      BY <2>1 DEF Argument
    <3>2. /\ Argument(dispatched.args, "in_offset") =
               dispatched.args["in"].offset
          /\ Argument(dispatched.args, "out_offset") =
               dispatched.args["out"].offset
      <4>1. Argument(dispatched.args, "in_offset") =
              dispatched.args["in"].offset
        BY ZenonT(60), <2>11, <2>12 DEF Argument, Passes
      <4>2. Argument(dispatched.args, "out_offset") =
              dispatched.args["out"].offset
        BY ZenonT(60), <2>11, <2>12 DEF Argument, Passes
      <4>3. QED
        BY ZenonT(60), <4>1, <4>2
    <3>3. /\ Result(a, "in_offset") = in.offset \o <<"moved">>
          /\ Result(a, "out_offset") = out.offset \o <<"moved">>
          /\ Result(dispatched.args, "in_offset") =
               dispatched.args["in"].offset \o <<"moved">>
          /\ Result(dispatched.args, "out_offset") =
               dispatched.args["out"].offset \o <<"moved">>
      BY <3>1, <3>2 DEF Result
    <3>4. /\ "in" \in request.adds <=> in.type = "CLEAR"
          /\ "out" \in request.adds <=> out.type = "CLEAR"
      BY <1>9, <2>1
    <3>5. /\ dispatched.stores[request.returns["in_offset"]] = "in_offset"
          /\ dispatched.stores[request.returns["out_offset"]] = "out_offset"
      BY <1>9, <1>14
    <3>6. Landed("in_offset") = Result(a, "in_offset")
      <4>1. Landed("in_offset") =
              IF "in" \in request.adds
              THEN Argument(a, "in_offset") \o
                     Result(dispatched.args, "in_offset")
              ELSE Result(dispatched.args, "in_offset")
        BY <3>5 DEF Landed
      <4>2. QED
        BY <2>12, <3>1, <3>3, <3>4, <4>1 DEF Passes
    <3>7. Landed("out_offset") = Result(a, "out_offset")
      <4>1. Landed("out_offset") =
              IF "out" \in request.adds
              THEN Argument(a, "out_offset") \o
                     Result(dispatched.args, "out_offset")
              ELSE Result(dispatched.args, "out_offset")
        BY <3>5 DEF Landed
      <4>2. QED
        BY <2>11, <3>1, <3>3, <3>4, <4>1 DEF Passes
    <3>8. QED
      BY <1>9, <1>14, <3>6, <3>7 DEF ResultsLand
  <2>16. QED
    BY <2>13, <2>14, <2>15
<1>18. QED
  BY ZenonT(60), <1>8, <1>17 DEF CommandRight, Taken

-----------------------------------------------------------------------------
(* Every call *)

(* Every command of the interface goes to the handler and back as it should. *)
LEMMA EveryCommandRight ==
  ASSUME NullIsNoFunction, call \in Calls(svp)
  PROVE  CommandRight
<1>1. PICK id \in CommandIds(svp) :
        call \in [command : {id}, args : Arguments(id, svp)]
  BY ZenonT(60) DEF Calls
<1>2. call.command = id /\ call.args \in Arguments(id, svp)
  BY <1>1
<1>3. CASE id = "SA_GET_VERSION"
  BY <1>2, <1>3, GetVersionRight DEF Arguments
<1>4. CASE id = "SA_GET_NAME"
  BY <1>2, <1>4, GetNameRight DEF Arguments
<1>5. CASE id = "SA_GET_DEVICE_ID"
  BY <1>2, <1>5, GetDeviceIdRight DEF Arguments
<1>6. CASE id = "SA_GET_TA_UUID"
  BY <1>2, <1>6, GetTaUuidRight DEF Arguments
<1>7. CASE id = "SA_KEY_GENERATE"
  BY <1>2, <1>7, KeyGenerateRight DEF Arguments
<1>8. CASE id = "SA_KEY_EXPORT"
  BY <1>2, <1>8, KeyExportRight DEF Arguments
<1>9. CASE id = "SA_KEY_IMPORT"
  BY <1>2, <1>9, KeyImportRight DEF Arguments
<1>10. CASE id = "SA_KEY_UNWRAP"
  BY <1>2, <1>10, KeyUnwrapRight DEF Arguments
<1>11. CASE id = "SA_KEY_GET_PUBLIC"
  BY <1>2, <1>11, KeyGetPublicRight DEF Arguments
<1>12. CASE id = "SA_KEY_DERIVE"
  BY <1>2, <1>12, KeyDeriveRight DEF Arguments
<1>13. CASE id = "SA_KEY_EXCHANGE"
  BY <1>2, <1>13, KeyExchangeRight DEF Arguments
<1>14. CASE id = "SA_KEY_RELEASE"
  BY <1>2, <1>14, KeyReleaseRight DEF Arguments
<1>15. CASE id = "SA_KEY_HEADER"
  BY <1>2, <1>15, KeyHeaderRight DEF Arguments
<1>16. CASE id = "SA_KEY_DIGEST"
  BY <1>2, <1>16, KeyDigestRight DEF Arguments
<1>17. CASE id = "SA_CRYPTO_RANDOM"
  BY <1>2, <1>17, CryptoRandomRight DEF Arguments
<1>18. CASE id = "SA_CRYPTO_CIPHER_INIT"
  BY <1>2, <1>18, CipherInitRight DEF Arguments
<1>19. CASE id = "SA_CRYPTO_CIPHER_UPDATE_IV"
  BY <1>2, <1>19, CipherUpdateIvRight DEF Arguments
<1>20. CASE id = "SA_CRYPTO_CIPHER_PROCESS"
  BY <1>2, <1>20, CipherProcessRight DEF Arguments
<1>21. CASE id = "SA_CRYPTO_CIPHER_PROCESS_LAST"
  BY <1>2, <1>21, CipherProcessLastRight DEF Arguments
<1>22. CASE id = "SA_CRYPTO_CIPHER_RELEASE"
  BY <1>2, <1>22, CipherReleaseRight DEF Arguments
<1>23. CASE id = "SA_CRYPTO_MAC_INIT"
  BY <1>2, <1>23, MacInitRight DEF Arguments
<1>24. CASE id = "SA_CRYPTO_MAC_PROCESS"
  BY <1>2, <1>24, MacProcessRight DEF Arguments
<1>25. CASE id = "SA_CRYPTO_MAC_PROCESS_KEY"
  BY <1>2, <1>25, MacProcessKeyRight DEF Arguments
<1>26. CASE id = "SA_CRYPTO_MAC_COMPUTE"
  BY <1>2, <1>26, MacComputeRight DEF Arguments
<1>27. CASE id = "SA_CRYPTO_MAC_RELEASE"
  BY <1>2, <1>27, MacReleaseRight DEF Arguments
<1>28. CASE id = "SA_CRYPTO_SIGN"
  BY <1>2, <1>28, CryptoSignRight DEF Arguments
<1>29. CASE id = "SA_SVP_SUPPORTED"
  BY <1>2, <1>29, SvpSupportedRight DEF Arguments
<1>30. CASE id = "SA_PROCESS_COMMON_ENCRYPTION"
  BY <1>2, <1>30, CencRight DEF Arguments
<1>31. CASE id = "SA_KEY_PROVISION_TA"
  BY <1>2, <1>31, KeyProvisionRight DEF Arguments
<1>32. CASE id = "SA_SVP_BUFFER_CREATE"
  BY <1>2, <1>32, SvpBufferCreateRight DEF Arguments
<1>33. CASE id = "SA_SVP_BUFFER_RELEASE"
  BY <1>2, <1>33, SvpBufferReleaseRight DEF Arguments
<1>34. CASE id = "SA_SVP_BUFFER_WRITE"
  BY <1>2, <1>34, SvpBufferWriteRight DEF Arguments
<1>35. CASE id = "SA_SVP_BUFFER_COPY"
  BY <1>2, <1>35, SvpBufferCopyRight DEF Arguments
<1>36. CASE id = "SA_SVP_KEY_CHECK"
  BY <1>2, <1>36, SvpKeyCheckRight DEF Arguments
<1>37. CASE id = "SA_SVP_BUFFER_CHECK"
  BY <1>2, <1>37, SvpBufferCheckRight DEF Arguments
<1>38. QED
  BY <1>1, <1>3, <1>4, <1>5, <1>6, <1>7, <1>8, <1>9, <1>10, <1>11, <1>12,
     <1>13, <1>14, <1>15, <1>16, <1>17, <1>18, <1>19, <1>20, <1>21, <1>22,
     <1>23, <1>24, <1>25, <1>26, <1>27, <1>28, <1>29, <1>30, <1>31, <1>32,
     <1>33, <1>34, <1>35, <1>36, <1>37 DEF CommandIds, SvpCommands

(* What is sent and dispatched depends on the call alone.                    *)
LEMMA SameRequest ==
  ASSUME call' = call, svp' = svp
  PROVE  request' = request /\ dispatched' = dispatched
<1>1. request' = request
  BY DEF request, Client
<1>2. QED
  BY <1>1 DEF dispatched

(* A call begins with the results where the caller has them.                 *)
LEMMA StartParts ==
  ASSUME NEW c, Start(c), svp' = svp
  PROVE  /\ call' = c
         /\ app' = [n \in DOMAIN request'.returns |-> Argument(call'.args, n)]
<1>1. call' = c
  BY DEF Start
<1>2. request' = Client(c.command, c.args)
  BY <1>1 DEF request, Client
<1>3. QED
  BY <1>1, <1>2 DEF Start

(* The next sample is given to the same command.                             *)
LEMMA NextSampleCall ==
  ASSUME NullIsNoFunction, call \in Calls(svp), NextSample
  PROVE  call' \in Calls(svp') /\ ~request'.refused
<1>1. call \in [command : {call.command},
                args : Arguments(call.command, svp)]
  BY DEF Calls
<1>2. /\ call.command = "SA_PROCESS_COMMON_ENCRYPTION"
      /\ call.args.samples_length = <<"many">> /\ svp' = svp
  BY DEF NextSample
<1>3. call.args \in SampleCalls(svp)
  BY <1>1, <1>2 DEF Arguments
<1>4. call.args.samples = <<"samples">>
  <2>1. <<"many">> # Zero
    BY DEF Zero
  <2>2. QED
    BY <1>2, <1>3, <2>1, SampleNames
<1>5. PICK s \in Samples(svp) :
        Start([command |-> call.command,
               args |-> s @@ [samples |-> call.args.samples,
                              samples_length |-> <<"one">>]])
  BY DEF NextSample
<1>6. PICK t : t = [samples |-> <<"samples">>, samples_length |-> <<"one">>]
  OBVIOUS
<1>7. /\ call' = [command |-> "SA_PROCESS_COMMON_ENCRYPTION", args |-> s @@ t]
  BY <1>2, <1>4, <1>5, <1>6 DEF Start
<1>8. s @@ t \in SampleCalls(svp)
  BY <1>6 DEF SampleCalls
<1>9. call' \in Calls(svp')
  <2>1. s @@ t \in Arguments("SA_PROCESS_COMMON_ENCRYPTION", svp)
    BY <1>8 DEF Arguments
  <2>2. call' \in [command : {"SA_PROCESS_COMMON_ENCRYPTION"},
                   args : Arguments("SA_PROCESS_COMMON_ENCRYPTION", svp)]
    BY <1>7, <2>1
  <2>3. "SA_PROCESS_COMMON_ENCRYPTION" \in CommandIds(svp)
    BY DEF CommandIds
  <2>4. QED
    BY <1>2, <2>2, <2>3 DEF Calls
<1>10. /\ (s @@ t).samples = <<"samples">>
       /\ (s @@ t).samples_length = <<"one">>
  <2>1. DOMAIN s = {"iv", "iv_length", "crypt_byte_block", "skip_byte_block",
                    "subsample_count", "subsample_lengths", "context", "out",
                    "in"}
    BY DEF Samples
  <2>2. /\ DOMAIN t = {"samples", "samples_length"}
        /\ t.samples = <<"samples">> /\ t.samples_length = <<"one">>
    BY <1>6
  <2>3. QED
    BY <2>1, <2>2 DEF @@
<1>11. request' = sa_process_common_encryption(s @@ t)
  BY <1>7 DEF request, Client
<1>12. PICK a : a = s @@ t
  OBVIOUS
<1>13. ~request'.refused
  <2>1. <<"samples">> # NULL /\ <<"one">> # Zero
    BY DEF NullIsNoFunction, Zero
  <2>2. request' = sa_process_common_encryption(a)
    BY <1>11, <1>12
  <2>3. request'.refused = (a.samples = NULL \/ a.samples_length = Zero)
    BY ZenonT(60), <2>2 DEF sa_process_common_encryption, @@
  <2>4. QED
    BY <1>10, <1>12, <2>1, <2>3
<1>14. QED
  BY <1>9, <1>13

-----------------------------------------------------------------------------
(* The inductive invariant                                                   *)

(* The initial states satisfy it.                                            *)
LEMMA InitIInv == Init => IInv
BY DEF Init, IInv, CallOK, Points, ChecksPassed, Checked, HeapOK, MayHold,
       ResultsKept, ResultsReturn

(* A new call is one of the interface, and nothing is allocated yet.         *)
LEMMA CallStep ==
  ASSUME IInv, Call
  PROVE  IInv'
<1>1. PICK c \in Calls(svp) : Start(c)
  BY DEF Call
<1>2. /\ pc = "idle" /\ pc' = "checking" /\ svp' = svp /\ heap' = heap
      /\ outcome' = outcome
  BY DEF Call
<1>3. /\ call' = c
      /\ app' = [n \in DOMAIN request'.returns |-> Argument(call'.args, n)]
  BY <1>1, <1>2, StartParts
<1>4. heap = {} /\ outcome # "OK"
  BY <1>2 DEF IInv, CallOK, HeapOK, MayHold
<1>5. CallOK'
  BY <1>2, <1>3, <1>4 DEF CallOK, Points
<1>6. ChecksPassed'
  BY <1>2, <1>4 DEF ChecksPassed, Checked
<1>7. HeapOK'
  BY <1>2, <1>4 DEF HeapOK, MayHold
<1>8. ResultsKept'
  BY <1>2, <1>3 DEF ResultsKept
<1>9. ResultsReturn'
  BY <1>2 DEF ResultsReturn
<1>10. QED
  BY <1>5, <1>6, <1>7, <1>8, <1>9 DEF IInv

(* A call that ends before anything is allocated.                            *)
LEMMA EarlyReturnStep ==
  ASSUME IInv, Refuse \/ NoSession
  PROVE  IInv'
<1>1. /\ pc = "checking" /\ pc' = "returned" /\ outcome' \in {"refused", "failed"}
      /\ svp' = svp /\ call' = call /\ heap' = heap /\ app' = app
  BY DEF Refuse, NoSession, To
<1>2. request' = request /\ dispatched' = dispatched
  BY <1>1, SameRequest
<1>3. CallOK'
  BY <1>1 DEF IInv, CallOK, Points
<1>4. ChecksPassed'
  BY <1>1 DEF ChecksPassed, Checked
<1>5. HeapOK'
  BY <1>1 DEF IInv, HeapOK, MayHold
<1>6. ResultsKept'
  BY <1>1 DEF ResultsKept, Checked
<1>7. ResultsReturn'
  BY <1>1 DEF IInv, ResultsKept, ResultsReturn
<1>8. QED
  BY <1>3, <1>4, <1>5, <1>6, <1>7 DEF IInv

(* The steps of the client library up to the trusted application.            *)
LEMMA ClientStep ==
  ASSUME IInv,
         \/ CREATE_COMMAND \/ NoCommand \/ Reject \/ ReadAbsent \/ AllocateExtra
  PROVE  IInv'
<1>1. /\ pc \in {"checking", "packing", "packed"}
      /\ pc' \in {"packing", "packed", "releasing", "crashed"}
      /\ outcome' # "OK"
      /\ svp' = svp /\ call' = call /\ app' = app
  BY DEF CREATE_COMMAND, NoCommand, Reject, ReadAbsent, AllocateExtra, To
<1>2. request' = request /\ dispatched' = dispatched
  BY <1>1, SameRequest
<1>3. CallOK'
  BY <1>1 DEF IInv, CallOK, Points
<1>4. ChecksPassed'
  BY <1>1, <1>2 DEF IInv, ChecksPassed, Checked, CREATE_COMMAND, NoCommand,
     Reject, ReadAbsent, AllocateExtra, To
<1>5. HeapOK'
  BY <1>1 DEF IInv, HeapOK, MayHold, CREATE_COMMAND, NoCommand, Reject,
     ReadAbsent, AllocateExtra, To
<1>6. ResultsKept'
  <2>1. app = [n \in DOMAIN request.returns |-> Argument(call.args, n)]
    BY <1>1 DEF IInv, ResultsKept, Checked
  <2>2. app' = [n \in DOMAIN request'.returns |-> Argument(call'.args, n)]
    BY <1>1, <1>2, <2>1
  <2>3. QED
    BY <1>1, <2>2 DEF ResultsKept
<1>7. ResultsReturn'
  BY <1>1 DEF ResultsReturn
<1>8. QED
  BY <1>3, <1>4, <1>5, <1>6, <1>7 DEF IInv

(* The steps of the trusted application but that of the handler.             *)
LEMMA DispatchStep ==
  ASSUME IInv, CopyCommand \/ Deny \/ CallHandler
  PROVE  IInv'
<1>1. /\ pc \in {"packed", "dispatching"}
      /\ pc' \in {"dispatching", "answered", "finishing", "handling"}
      /\ outcome' # "OK"
      /\ svp' = svp /\ call' = call /\ app' = app
  BY DEF CopyCommand, Deny, CallHandler, To
<1>2. request' = request /\ dispatched' = dispatched
  BY <1>1, SameRequest
<1>3. CallOK'
  BY <1>1 DEF IInv, CallOK, Points
<1>4. ChecksPassed'
  <2>1. ~request.refused /\ ~request.rejected /\ ~request.absent /\ ~request.late
    BY <1>1 DEF IInv, ChecksPassed, Checked, CopyCommand, Deny, CallHandler
  <2>2. pc' = "handling" => dispatched.valid /\ dispatched.present
    BY DEF CopyCommand, Deny, CallHandler, To
  <2>3. QED
    BY <1>1, <1>2, <2>1, <2>2 DEF ChecksPassed, Checked
<1>5. HeapOK'
  BY <1>1 DEF IInv, HeapOK, MayHold, CopyCommand, Deny, CallHandler, To
<1>6. ResultsKept'
  <2>1. app = [n \in DOMAIN request.returns |-> Argument(call.args, n)]
    BY <1>1 DEF IInv, ResultsKept, Checked
  <2>2. app' = [n \in DOMAIN request'.returns |-> Argument(call'.args, n)]
    BY <1>1, <1>2, <2>1
  <2>3. QED
    BY <1>1, <2>2 DEF ResultsKept
<1>7. ResultsReturn'
  BY <1>1 DEF ResultsReturn
<1>8. QED
  BY <1>3, <1>4, <1>5, <1>6, <1>7 DEF IInv

(* A handler that succeeds has stored its results.                           *)
LEMMA HandleStep ==
  ASSUME IInv, Handle
  PROVE  IInv'
<1>1. /\ pc = "handling" /\ pc' = "finishing"
      /\ outcome' \in {"OK", "failed"}
      /\ outcome' = "OK" => copy' = Store
      /\ heap' = heap \ {"array"}
      /\ svp' = svp /\ call' = call /\ app' = app
  BY DEF Handle, To
<1>2. request' = request /\ dispatched' = dispatched
  BY <1>1, SameRequest
<1>3. CallOK'
  BY <1>1 DEF IInv, CallOK, Points
<1>4. ChecksPassed'
  BY <1>1, <1>2 DEF IInv, ChecksPassed, Checked
<1>5. HeapOK'
  BY <1>1 DEF IInv, HeapOK, MayHold
<1>6. ResultsKept'
  <2>1. app' = [n \in DOMAIN request'.returns |-> Argument(call'.args, n)]
    BY <1>1, <1>2 DEF IInv, ResultsKept, Checked
  <2>2. ASSUME NEW f \in DOMAIN dispatched.stores
        PROVE  Store[f] = Result(dispatched.args, dispatched.stores[f])
    BY DEF Store, @@
  <2>3. outcome' = "OK" => HasResults(copy)'
    <3>1. SUFFICES ASSUME outcome' = "OK",
                          NEW f \in DOMAIN dispatched'.stores
                   PROVE  copy'[f] =
                            Result(dispatched'.args, dispatched'.stores[f])
      BY DEF HasResults
    <3>2. QED
      BY <1>1, <1>2, <2>2, <3>1
  <2>4. QED
    BY <1>1, <2>1, <2>3 DEF ResultsKept
<1>7. ResultsReturn'
  BY <1>1 DEF ResultsReturn
<1>8. QED
  BY <1>3, <1>4, <1>5, <1>6, <1>7 DEF IInv

(* The copy is written back if the command may carry results.                *)
LEMMA AnswerStep ==
  ASSUME IInv, Answer
  PROVE  IInv'
<1>1. /\ pc = "finishing" /\ pc' = "answered" /\ outcome' = outcome
      /\ request.command.direction = "INOUT" => reply' = copy
      /\ heap' = heap \ {"copy"}
      /\ svp' = svp /\ call' = call /\ app' = app
  BY DEF Answer, To
<1>2. request' = request /\ dispatched' = dispatched
  BY <1>1, SameRequest
<1>3. CallOK'
  BY <1>1 DEF IInv, CallOK, Points
<1>4. ChecksPassed'
  BY <1>1, <1>2 DEF IInv, ChecksPassed, Checked
<1>5. HeapOK'
  BY <1>1 DEF IInv, HeapOK, MayHold
<1>6. ResultsKept'
  <2>1. app' = [n \in DOMAIN request'.returns |-> Argument(call'.args, n)]
    BY <1>1, <1>2 DEF IInv, ResultsKept, Checked
  <2>2. outcome = "OK" => HasResults(copy)
    BY <1>1 DEF IInv, ResultsKept
  <2>3. outcome' = "OK" /\ request'.command.direction = "INOUT"
          => HasResults(reply)'
    BY <1>1, <1>2, <2>2 DEF HasResults
  <2>4. QED
    BY <1>1, <2>1, <2>3 DEF ResultsKept
<1>7. ResultsReturn'
  BY <1>1 DEF ResultsReturn
<1>8. QED
  BY <1>3, <1>4, <1>5, <1>6, <1>7 DEF IInv

(* The results are taken over from the command, of a success only but for    *)
(* two functions.                                                            *)
LEMMA CopyOutStep ==
  ASSUME NullIsNoFunction, IInv, CopyOut
  PROVE  IInv'
<1>1. /\ pc = "answered" /\ pc' = "copied" /\ outcome' = outcome
      /\ app' = IF outcome = "OK" \/ request.always
                THEN [n \in DOMAIN app |-> Returned(n)]
                ELSE app
      /\ heap' = heap /\ svp' = svp /\ call' = call
  BY DEF CopyOut, To
<1>2. request' = request /\ dispatched' = dispatched
  BY <1>1, SameRequest
<1>3. CallOK'
  BY <1>1 DEF IInv, CallOK, Points
<1>4. ChecksPassed'
  BY <1>1, <1>2 DEF IInv, ChecksPassed, Checked
<1>5. HeapOK'
  BY <1>1 DEF IInv, HeapOK, MayHold
<1>6. ResultsKept'
  BY <1>1 DEF ResultsKept, Checked
<1>7. /\ CommandRight
      /\ Sent
      /\ outcome = "OK" => Taken
  <2>1. call \in Calls(svp)
    BY <1>1 DEF IInv, CallOK
  <2>2. CommandRight
    BY <2>1, EveryCommandRight
  <2>3. QED
    BY <1>1, <2>2 DEF IInv, ChecksPassed, Checked, Sent, Taken
<1>8. /\ DOMAIN app = DOMAIN request.returns
      /\ \A n \in DOMAIN app : app[n] = Argument(call.args, n)
  BY <1>1 DEF IInv, ResultsKept, Checked
<1>9. ASSUME ~LostOffset, outcome = "OK", NEW n \in DOMAIN app
      PROVE  app'[n] = Result(call.args, n)
  <2>1. app'[n] = Returned(n)
    BY <1>1, <1>9
  <2>2. request.command.direction = "INOUT"
    BY <1>7, <1>8, <1>9 DEF CommandRight, Ordinary
  <2>3. HasResults(reply)
    BY <1>1, <1>9, <2>2 DEF IInv, ResultsKept
  <2>4. /\ request.returns[n] \in DOMAIN dispatched.stores
        /\ Landed(n) = Result(call.args, n)
    BY <1>7, <1>8, <1>9 DEF CommandRight, ResultsLand
  <2>5. reply[request.returns[n]] =
          Result(dispatched.args, dispatched.stores[request.returns[n]])
    BY <2>3, <2>4 DEF HasResults
  <2>6. Returned(n) = Landed(n)
    BY <1>8, <1>9, <2>5 DEF Returned, Landed
  <2>7. QED
    BY <2>1, <2>4, <2>6
<1>10. ASSUME outcome # "OK", call.command \notin EarlyResults,
              NEW n \in DOMAIN app
       PROVE  app'[n] = Argument(call.args, n)
  <2>1. ~request.always
    BY <1>7, <1>10 DEF CommandRight, Ordinary
  <2>2. QED
    BY <1>1, <1>8, <1>10, <2>1
<1>11. DOMAIN app' = DOMAIN app
  BY <1>1
<1>12. ResultsReturn'
  <2>1. LostOffset' = LostOffset
    BY <1>1 DEF LostOffset
  <2>2. SUFFICES ASSUME ~LostOffset, NEW n \in DOMAIN app'
                 PROVE  app'[n] =
                          IF outcome' = "OK" THEN Result(call'.args, n)
                          ELSE IF call'.command \in EarlyResults THEN app'[n]
                          ELSE Argument(call'.args, n)
    BY <2>1 DEF ResultsReturn
  <2>3. QED
    BY <1>1, <1>9, <1>10, <1>11, <2>2
<1>13. QED
  BY <1>3, <1>4, <1>5, <1>6, <1>12 DEF IInv

(* The next sample begins as a call does.                                    *)
LEMMA NextSampleStep ==
  ASSUME NullIsNoFunction, IInv, NextSample
  PROVE  IInv'
<1>1. /\ pc = "copied" /\ pc' = "packing" /\ outcome' = "none"
      /\ heap' = heap \ {"extra"} /\ svp' = svp
  BY DEF NextSample, To
<1>2. call' \in Calls(svp') /\ ~request'.refused
  BY <1>1, NextSampleCall DEF IInv, CallOK
<1>3. app' = [n \in DOMAIN request'.returns |-> Argument(call'.args, n)]
  <2>1. PICK c : Start(c)
    BY DEF NextSample
  <2>2. QED
    BY <1>1, <2>1, StartParts
<1>4. CallOK'
  BY <1>1, <1>2 DEF CallOK, Points
<1>5. ChecksPassed'
  BY <1>1, <1>2 DEF ChecksPassed, Checked
<1>6. HeapOK'
  BY <1>1 DEF IInv, HeapOK, MayHold
<1>7. ResultsKept'
  BY <1>1, <1>3 DEF ResultsKept
<1>8. ResultsReturn'
  BY <1>1 DEF ResultsReturn
<1>9. QED
  BY <1>4, <1>5, <1>6, <1>7, <1>8 DEF IInv

(* Everything is freed at the end, unless the function returns before.       *)
LEMMA ReleaseStep ==
  ASSUME NullIsNoFunction, IInv, Release
  PROVE  IInv'
<1>1. /\ pc \in {"copied", "releasing"} /\ pc' = "returned"
      /\ heap' = IF pc = "copied" /\ request.keeps /\ outcome # "OK" THEN heap
                 ELSE heap \ {"command", "extra"}
      /\ outcome' = outcome /\ svp' = svp /\ call' = call /\ app' = app
  BY DEF Release, To
<1>2. request' = request /\ dispatched' = dispatched
  BY <1>1, SameRequest
<1>3. call \in Calls(svp)
  BY <1>1 DEF IInv, CallOK
<1>4. CallOK'
  BY <1>1 DEF IInv, CallOK, Points
<1>5. ChecksPassed'
  BY <1>1, <1>2 DEF IInv, ChecksPassed, Checked, CallOK
<1>6. HeapOK'
  <2>1. heap \subseteq {"command", "extra"}
    BY <1>1 DEF IInv, HeapOK, MayHold
  <2>2. request.keeps => call.command = "SA_GET_DEVICE_ID"
    BY <1>3, EveryCommandRight DEF CommandRight, Ordinary
  <2>3. QED
    BY <1>1, <2>1, <2>2 DEF HeapOK, MayHold
<1>7. ResultsKept'
  BY <1>1 DEF ResultsKept, Checked
<1>8. ResultsReturn'
  <2>1. CASE pc = "copied"
    BY <1>1, <2>1 DEF IInv, ResultsReturn, LostOffset
  <2>2. CASE pc = "releasing"
    <3>1. /\ outcome # "OK"
          /\ app = [n \in DOMAIN request.returns |-> Argument(call.args, n)]
      BY <2>2 DEF IInv, CallOK, ResultsKept
    <3>2. QED
      BY <1>1, <3>1 DEF ResultsReturn
  <2>3. QED
    BY <1>1, <2>1, <2>2
<1>9. QED
  BY <1>4, <1>5, <1>6, <1>7, <1>8 DEF IInv

(* The next call begins with nothing.                                        *)
LEMMA ReturnStep ==
  ASSUME IInv, Return
  PROVE  IInv'
BY DEF Return, To, IInv, CallOK, Points, ChecksPassed, Checked, HeapOK, MayHold,
       ResultsKept, ResultsReturn

(* A step that changes nothing.                                              *)
LEMMA StutterStep ==
  ASSUME IInv, UNCHANGED vars
  PROVE  IInv'
<1>1. /\ svp' = svp /\ pc' = pc /\ call' = call /\ heap' = heap /\ copy' = copy
      /\ reply' = reply /\ outcome' = outcome /\ app' = app
  BY DEF vars
<1>2. request' = request /\ dispatched' = dispatched
  BY <1>1, SameRequest
<1>3. CallOK'
  BY <1>1 DEF IInv, CallOK
<1>4. ChecksPassed'
  BY <1>1, <1>2 DEF IInv, ChecksPassed
<1>5. HeapOK'
  BY <1>1 DEF IInv, HeapOK, MayHold
<1>6. ResultsKept'
  BY <1>1, <1>2 DEF IInv, ResultsKept, HasResults
<1>7. ResultsReturn'
  BY <1>1 DEF IInv, ResultsReturn, LostOffset
<1>8. QED
  BY <1>3, <1>4, <1>5, <1>6, <1>7 DEF IInv

(* Every call, wherever it is, is one of the interface; it has passed the    *)
(* checks before that point, holds no memory that is not freed after it, and *)
(* its results are where they should be.                                     *)
THEOREM CommandsInvariant ==
  ASSUME NullIsNoFunction
  PROVE  Spec => []IInv
<1>1. IInv /\ [Next]_vars => IInv'
  <2>1. SUFFICES ASSUME IInv, [Next]_vars PROVE IInv'
    OBVIOUS
  <2>2. CASE Call
    BY <2>1, <2>2, CallStep
  <2>3. CASE Refuse \/ NoSession
    BY <2>1, <2>3, EarlyReturnStep
  <2>4. CASE CREATE_COMMAND \/ NoCommand \/ Reject \/ ReadAbsent \/ AllocateExtra
    BY <2>1, <2>4, ClientStep
  <2>5. CASE CopyCommand \/ Deny \/ CallHandler
    BY <2>1, <2>5, DispatchStep
  <2>6. CASE Handle
    BY <2>1, <2>6, HandleStep
  <2>7. CASE Answer
    BY <2>1, <2>7, AnswerStep
  <2>8. CASE CopyOut
    BY <2>1, <2>8, CopyOutStep
  <2>9. CASE NextSample
    BY <2>1, <2>9, NextSampleStep
  <2>10. CASE Release
    BY <2>1, <2>10, ReleaseStep
  <2>11. CASE Return
    BY <2>1, <2>11, ReturnStep
  <2>12. CASE UNCHANGED vars
    BY <2>1, <2>12, StutterStep
  <2>13. QED
    BY <2>1, <2>2, <2>3, <2>4, <2>5, <2>6, <2>7, <2>8, <2>9, <2>10, <2>11,
       <2>12 DEF Next
<1>2. QED
  BY <1>1, InitIInv, PTL DEF Spec

-----------------------------------------------------------------------------
(* The properties                                                            *)

(* The trusted application has freed what it allocated for a command before  *)
(* it answers, and the client library what it allocated for a call before it *)
(* returns, but for sa_get_device_id.                                        *)
THEOREM MemoryFreed ==
  ASSUME NullIsNoFunction
  PROVE  Spec => []EverythingFreed
<1>1. IInv => EverythingFreed
  BY DEF IInv, HeapOK, MayHold, EverythingFreed
<1>2. QED
  BY <1>1, CommandsInvariant, PTL

(* The caller gets the results of a call that succeeded, an offset moved     *)
(* once, and keeps its arguments if the call failed, but for the offset of   *)
(* sa_svp_key_check and the two functions that copy early.                   *)
THEOREM ResultsComeBack ==
  ASSUME NullIsNoFunction
  PROVE  Spec => []ResultsReturn
<1>1. IInv => ResultsReturn
  BY DEF IInv
<1>2. QED
  BY <1>1, CommandsInvariant, PTL

(* The handler of every command gets every argument of the call, whatever    *)
(* the algorithm, the format and the parameters that are left out, but for   *)
(* several offsets of sa_svp_buffer_write.                                   *)
THEOREM HandlersGetArguments ==
  ASSUME NullIsNoFunction
  PROVE  Spec => []ArgumentsArrive
<1>1. IInv => ArgumentsArrive
  <2>1. SUFFICES ASSUME IInv, pc = "handling" PROVE Arrives
    BY DEF ArgumentsArrive, Arrives
  <2>2. Taken
    BY <2>1 DEF IInv, ChecksPassed, Checked, Taken, Sent
  <2>3. CommandRight
    BY <2>1, EveryCommandRight DEF IInv, CallOK
  <2>4. QED
    BY ZenonT(60), <2>2, <2>3 DEF CommandRight
<1>2. QED
  BY <1>1, CommandsInvariant, PTL

(* The dispatcher accepts every request that the client library sends with   *)
(* all that is required and parameters that fit into their structure         *)
(* (RefusedByTA lists the others), but for the input that is left out by     *)
(* sa_crypto_cipher_process_last; and each is of the form that is demanded.  *)
THEOREM RequestsFit ==
  ASSUME NullIsNoFunction
  PROVE  Spec => []RequestsAccepted
<1>1. IInv => RequestsAccepted
  <2>1. SUFFICES ASSUME IInv, pc = "dispatching" PROVE Accepted
    BY DEF RequestsAccepted, Accepted, WellFormed
  <2>2. Sent
    BY <2>1 DEF IInv, ChecksPassed, Checked, Sent
  <2>3. CommandRight
    BY <2>1, EveryCommandRight DEF IInv, CallOK
  <2>4. QED
    BY ZenonT(60), <2>2, <2>3 DEF CommandRight
<1>2. QED
  BY <1>1, CommandsInvariant, PTL
=============================================================================
