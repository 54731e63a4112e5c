------------------------------ MODULE Commands ------------------------------
(* One call of the interface from its arguments to its results: the client   *)
(* library checks the arguments, packs them into a command and three more    *)
(* parameters (ClientLibrary), the trusted application copies the command,   *)
(* checks and unpacks it (Dispatch) and calls the handler, and the results   *)
(* go back the same way.  Allocations and handlers may fail.  What the       *)
(* handlers do is the subject of the other modules; here they only return    *)
(* results, or fail after they stored some.                                  *)
(*                                                                           *)
(* Calls do not share anything on this way but the session (module Session), *)
(* so one caller is enough.                                                  *)
EXTENDS Api, ClientLibrary, Dispatch, Functions

VARIABLES
  svp,      \* built with ENABLE_SVP
  pc,       \* where the call is
  call,     \* the command and its arguments
  heap,     \* what is allocated for the call
  copy,     \* the results in the copy of the command
  reply,    \* the results in the command, and in its parameters
  outcome,  \* how the call ends: the status
  app       \* what the results are copied to

vars == <<svp, pc, call, heap, copy, reply, outcome, app>>

SampleCalls(enabled) ==
  {s @@ [samples |-> <<"samples">>, samples_length |-> length] :
     s \in Samples(enabled), length \in {<<"one">>, <<"many">>}}
  \cup
  {(CHOOSE s \in Samples(enabled) : TRUE) @@ a :
     a \in [samples : Pointer("samples"), samples_length : {Zero}]}

SvpCommands ==
  {"SA_SVP_BUFFER_CREATE", "SA_SVP_BUFFER_RELEASE", "SA_SVP_BUFFER_WRITE",
   "SA_SVP_BUFFER_COPY", "SA_SVP_KEY_CHECK", "SA_SVP_BUFFER_CHECK"}

\* SA_COMMAND_ID
CommandIds(enabled) ==
  {"SA_GET_VERSION", "SA_GET_NAME", "SA_GET_DEVICE_ID", "SA_GET_TA_UUID",
   "SA_KEY_GENERATE", "SA_KEY_EXPORT", "SA_KEY_IMPORT", "SA_KEY_UNWRAP",
   "SA_KEY_GET_PUBLIC", "SA_KEY_DERIVE", "SA_KEY_EXCHANGE", "SA_KEY_RELEASE",
   "SA_KEY_HEADER", "SA_KEY_DIGEST", "SA_CRYPTO_RANDOM",
   "SA_CRYPTO_CIPHER_INIT", "SA_CRYPTO_CIPHER_UPDATE_IV",
   "SA_CRYPTO_CIPHER_PROCESS", "SA_CRYPTO_CIPHER_PROCESS_LAST",
   "SA_CRYPTO_CIPHER_RELEASE", "SA_CRYPTO_MAC_INIT", "SA_CRYPTO_MAC_PROCESS",
   "SA_CRYPTO_MAC_PROCESS_KEY", "SA_CRYPTO_MAC_COMPUTE",
   "SA_CRYPTO_MAC_RELEASE", "SA_CRYPTO_SIGN", "SA_SVP_SUPPORTED",
   "SA_PROCESS_COMMON_ENCRYPTION", "SA_KEY_PROVISION_TA"} \cup
  (IF enabled THEN SvpCommands ELSE {})

\* The arguments that each command may be called with.
Arguments(command, enabled) ==
  CASE command = "SA_GET_VERSION" -> GetVersion
    [] command = "SA_GET_NAME" -> GetName
    [] command = "SA_GET_DEVICE_ID" -> GetDeviceId
    [] command = "SA_GET_TA_UUID" -> GetTaUuid
    [] command = "SA_KEY_GENERATE" -> KeyGenerate
    [] command = "SA_KEY_EXPORT" -> KeyExport
    [] command = "SA_KEY_IMPORT" -> KeyImport
    [] command = "SA_KEY_UNWRAP" -> KeyUnwrap
    [] command = "SA_KEY_GET_PUBLIC" -> KeyGetPublic
    [] command = "SA_KEY_DERIVE" -> KeyDerive
    [] command = "SA_KEY_EXCHANGE" -> KeyExchange
    [] command = "SA_KEY_RELEASE" -> KeyRelease
    [] command = "SA_KEY_HEADER" -> KeyHeader
    [] command = "SA_KEY_DIGEST" -> KeyDigest
    [] command = "SA_CRYPTO_RANDOM" -> CryptoRandom
    [] command = "SA_CRYPTO_CIPHER_INIT" -> CipherInit
    [] command = "SA_CRYPTO_CIPHER_UPDATE_IV" -> CipherUpdateIv
    [] command = "SA_CRYPTO_CIPHER_PROCESS" -> CipherProcess(enabled)
    [] command = "SA_CRYPTO_CIPHER_PROCESS_LAST" -> CipherProcessLast(enabled)
    [] command = "SA_CRYPTO_CIPHER_RELEASE" -> CipherRelease
    [] command = "SA_CRYPTO_MAC_INIT" -> MacInit
    [] command = "SA_CRYPTO_MAC_PROCESS" -> MacProcess
    [] command = "SA_CRYPTO_MAC_PROCESS_KEY" -> MacProcessKey
    [] command = "SA_CRYPTO_MAC_COMPUTE" -> MacCompute
    [] command = "SA_CRYPTO_MAC_RELEASE" -> MacRelease
    [] command = "SA_CRYPTO_SIGN" -> CryptoSign
    [] command = "SA_SVP_SUPPORTED" -> SvpSupported
    [] command = "SA_PROCESS_COMMON_ENCRYPTION" -> SampleCalls(enabled)
    [] command = "SA_KEY_PROVISION_TA" -> KeyProvision
    [] command = "SA_SVP_BUFFER_CREATE" -> SvpBufferCreate
    [] command = "SA_SVP_BUFFER_RELEASE" -> SvpBufferRelease
    [] command = "SA_SVP_BUFFER_WRITE" -> SvpBufferWrite
    [] command = "SA_SVP_BUFFER_COPY" -> SvpBufferCopy
    [] command = "SA_SVP_KEY_CHECK" -> SvpKeyCheck
    [] command = "SA_SVP_BUFFER_CHECK" -> SvpBufferCheck

Calls(enabled) ==
  UNION {[command : {id}, args : Arguments(id, enabled)] :
           id \in CommandIds(enabled)}

\* The function of the client library that sends each command.
Client(command, a) ==
  CASE command = "SA_GET_VERSION" -> sa_get_version(a)
    [] command = "SA_GET_NAME" -> sa_get_name(a)
    [] command = "SA_GET_DEVICE_ID" -> sa_get_device_id(a)
    [] command = "SA_GET_TA_UUID" -> sa_get_ta_uuid(a)
    [] command = "SA_KEY_GENERATE" -> sa_key_generate(a)
    [] command = "SA_KEY_EXPORT" -> sa_key_export(a)
    [] command = "SA_KEY_IMPORT" -> sa_key_import(a)
    [] command = "SA_KEY_UNWRAP" -> sa_key_unwrap(a)
    [] command = "SA_KEY_GET_PUBLIC" -> sa_key_get_public(a)
    [] command = "SA_KEY_DERIVE" -> sa_key_derive(a)
    [] command = "SA_KEY_EXCHANGE" -> sa_key_exchange(a)
    [] command = "SA_KEY_RELEASE" -> sa_key_release(a)
    [] command = "SA_KEY_HEADER" -> sa_key_header(a)
    [] command = "SA_KEY_DIGEST" -> sa_key_digest(a)
    [] command = "SA_CRYPTO_RANDOM" -> sa_crypto_random(a)
    [] command = "SA_CRYPTO_CIPHER_INIT" -> sa_crypto_cipher_init(a)
    [] command = "SA_CRYPTO_CIPHER_UPDATE_IV" -> sa_crypto_cipher_update_iv(a)
    [] command = "SA_CRYPTO_CIPHER_PROCESS" -> sa_crypto_cipher_process(a)
    [] command = "SA_CRYPTO_CIPHER_PROCESS_LAST" ->
         sa_crypto_cipher_process_last(a)
    [] command = "SA_CRYPTO_CIPHER_RELEASE" -> sa_crypto_cipher_release(a)
    [] command = "SA_CRYPTO_MAC_INIT" -> sa_crypto_mac_init(a)
    [] command = "SA_CRYPTO_MAC_PROCESS" -> sa_crypto_mac_process(a)
    [] command = "SA_CRYPTO_MAC_PROCESS_KEY" -> sa_crypto_mac_process_key(a)
    [] command = "SA_CRYPTO_MAC_COMPUTE" -> sa_crypto_mac_compute(a)
    [] command = "SA_CRYPTO_MAC_RELEASE" -> sa_crypto_mac_release(a)
    [] command = "SA_CRYPTO_SIGN" -> sa_crypto_sign(a)
    [] command = "SA_SVP_SUPPORTED" -> sa_svp_supported(svp)
    [] command = "SA_SVP_BUFFER_CREATE" -> sa_svp_buffer_create(a)
    [] command = "SA_SVP_BUFFER_RELEASE" -> sa_svp_buffer_release(a)
    [] command = "SA_SVP_BUFFER_WRITE" -> sa_svp_buffer_write(a)
    [] command = "SA_SVP_BUFFER_COPY" -> sa_svp_buffer_copy(a)
    [] command = "SA_SVP_KEY_CHECK" -> sa_svp_key_check(a)
    [] command = "SA_SVP_BUFFER_CHECK" -> sa_svp_buffer_check(a)
    [] command = "SA_PROCESS_COMMON_ENCRYPTION" ->
         sa_process_common_encryption(a)
    [] command = "SA_KEY_PROVISION_TA" -> sa_key_provision_ta(a)

\* The switch of ta_invoke_command_handler.
ta_invoke_command_handler(command, c, p) ==
  CASE command = "SA_GET_VERSION" -> ta_invoke_get_version(c, p)
    [] command = "SA_GET_NAME" -> ta_invoke_get_name(c, p)
    [] command = "SA_GET_DEVICE_ID" -> ta_invoke_get_device_id(c, p)
    [] command = "SA_GET_TA_UUID" -> ta_invoke_get_ta_uuid(c, p)
    [] command = "SA_KEY_GENERATE" -> ta_invoke_key_generate(c, p)
    [] command = "SA_KEY_EXPORT" -> ta_invoke_key_export(c, p)
    [] command = "SA_KEY_IMPORT" -> ta_invoke_key_import(c, p)
    [] command = "SA_KEY_UNWRAP" -> ta_invoke_key_unwrap(c, p)
    [] command = "SA_KEY_GET_PUBLIC" -> ta_invoke_key_get_public(c, p)
    [] command = "SA_KEY_DERIVE" -> ta_invoke_key_derive(c, p)
    [] command = "SA_KEY_EXCHANGE" -> ta_invoke_key_exchange(c, p)
    [] command = "SA_KEY_RELEASE" -> ta_invoke_key_release(c, p)
    [] command = "SA_KEY_HEADER" -> ta_invoke_key_header(c, p)
    [] command = "SA_KEY_DIGEST" -> ta_invoke_key_digest(c, p)
    [] command = "SA_CRYPTO_RANDOM" -> ta_invoke_crypto_random(c, p)
    [] command = "SA_CRYPTO_CIPHER_INIT" -> ta_invoke_crypto_cipher_init(c, p)
    [] command = "SA_CRYPTO_CIPHER_UPDATE_IV" ->
         ta_invoke_crypto_cipher_update_iv(c, p)
    [] command = "SA_CRYPTO_CIPHER_PROCESS" ->
         ta_invoke_crypto_cipher_process(FALSE, c, p)
    [] command = "SA_CRYPTO_CIPHER_PROCESS_LAST" ->
         ta_invoke_crypto_cipher_process(TRUE, c, p)
    [] command = "SA_CRYPTO_CIPHER_RELEASE" ->
         ta_invoke_crypto_cipher_release(c, p)
    [] command = "SA_CRYPTO_MAC_INIT" -> ta_invoke_crypto_mac_init(c, p)
    [] command = "SA_CRYPTO_MAC_PROCESS" -> ta_invoke_crypto_mac_process(c, p)
    [] command = "SA_CRYPTO_MAC_PROCESS_KEY" ->
         ta_invoke_crypto_mac_process_key(c, p)
    [] command = "SA_CRYPTO_MAC_COMPUTE" -> ta_invoke_crypto_mac_compute(c, p)
    [] command = "SA_CRYPTO_MAC_RELEASE" -> ta_invoke_crypto_mac_release(c, p)
    [] command = "SA_CRYPTO_SIGN" -> ta_invoke_crypto_sign(c, p)
    [] command = "SA_SVP_SUPPORTED" -> ta_invoke_svp_supported(c, p)
    [] command = "SA_SVP_BUFFER_CREATE" -> ta_invoke_svp_buffer_create(c, p)
    [] command = "SA_SVP_BUFFER_RELEASE" -> ta_invoke_svp_buffer_release(c, p)
    [] command = "SA_SVP_BUFFER_WRITE" -> ta_invoke_svp_buffer_write(c, p)
    [] command = "SA_SVP_BUFFER_COPY" -> ta_invoke_svp_buffer_copy(c, p)
    [] command = "SA_SVP_KEY_CHECK" -> ta_invoke_svp_key_check(c, p)
    [] command = "SA_SVP_BUFFER_CHECK" -> ta_invoke_svp_buffer_check(c, p)
    [] command = "SA_PROCESS_COMMON_ENCRYPTION" ->
         ta_invoke_process_common_encryption(c, p)
    [] command = "SA_KEY_PROVISION_TA" -> ta_invoke_key_provision(c, p)

request == Client(call.command, call.args)
dispatched ==
  ta_invoke_command_handler(call.command, request.command, request.params)


-----------------------------------------------------------------------------
\* The results of a call are its arguments of these names; of a buffer, the
\* offset.
Argument(a, n) ==
  IF n \notin {"out_offset", "in_offset"} THEN a[n]
  ELSE LET buffer == IF n = "out_offset" THEN a.out ELSE a.in
       IN  IF buffer = NULL THEN NULL ELSE buffer.offset

\* What a handler makes of them: an offset moves on, the others are new.
Result(a, n) ==
  CASE n = "unset" -> Unset
    [] n \in {"out_offset", "in_offset"} -> Argument(a, n) \o <<"moved">>
    [] OTHER -> <<"new", n>>

\* The fields of the command with results, as the client fills them.
Fields(r) ==
  [f \in Range(r.returns) |->
     IF f \in DOMAIN r.command.fields THEN r.command.fields[f] ELSE Unset]

Start(c) ==
  LET r == Client(c.command, c.args)
  IN  /\ call' = c
      /\ app' = [n \in DOMAIN r.returns |-> Argument(c.args, n)]
      /\ reply' = <<>>
      /\ copy' = <<>>

Init ==
  /\ svp \in BOOLEAN
  /\ pc = "idle"
  /\ call = NULL
  /\ heap = {}
  /\ copy = <<>>
  /\ reply = <<>>
  /\ outcome = "none"
  /\ app = <<>>

Call ==
  /\ pc = "idle"
  /\ \E c \in Calls(svp) : Start(c)
  /\ pc' = "checking"
  /\ UNCHANGED <<svp, heap, outcome>>

To(next, status) == pc' = next /\ outcome' = status

-----------------------------------------------------------------------------
\* The client library, up to ta_invoke_command.

Refuse ==
  /\ pc = "checking" /\ request.refused
  /\ To("returned", "refused")
  /\ UNCHANGED <<svp, call, heap, copy, reply, app>>

NoSession ==
  /\ pc = "checking" /\ ~request.refused
  /\ To("returned", "failed")
  /\ UNCHANGED <<svp, call, heap, copy, reply, app>>

CREATE_COMMAND ==
  /\ pc = "checking" /\ ~request.refused
  /\ heap' = {"command"}
  /\ To("packing", "none")
  /\ UNCHANGED <<svp, call, copy, reply, app>>

\* Without a command the rest of the loop is skipped; one function reads the
\* command all the same.
NoCommand ==
  /\ pc = "checking" /\ ~request.refused
  /\ To(IF request.reads THEN "crashed" ELSE "releasing", "failed")
  /\ UNCHANGED <<svp, call, heap, copy, reply, app>>

Reject ==
  /\ \/ pc = "packing" /\ request.rejected
     \/ pc = "packed" /\ request.late
  /\ To("releasing", "rejected")
  /\ UNCHANGED <<svp, call, heap, copy, reply, app>>

ReadAbsent ==
  /\ pc = "packing" /\ ~request.rejected /\ request.absent
  /\ To("crashed", "none")
  /\ UNCHANGED <<svp, call, heap, copy, reply, app>>

AllocateExtra ==
  /\ pc = "packing" /\ ~request.rejected /\ ~request.absent
  /\ \/ /\ heap' = IF request.extra THEN heap \cup {"extra"} ELSE heap
        /\ To("packed", "none")
     \/ /\ request.extra
        /\ UNCHANGED heap
        /\ To("releasing", "failed")
  /\ UNCHANGED <<svp, call, copy, reply, app>>

-----------------------------------------------------------------------------
\* The trusted application.

\* The command is copied, so that the caller cannot change it any more.
CopyCommand ==
  /\ pc = "packed" /\ ~request.late
  /\ reply' = Fields(request)
  /\ \/ /\ heap' = heap \cup {"copy"}
        /\ copy' = Fields(request)
        /\ To("dispatching", "none")
     \/ /\ UNCHANGED <<heap, copy>>
        /\ To("answered", "failed")
  /\ UNCHANGED <<svp, call, app>>

Deny ==
  /\ pc = "dispatching" /\ ~(dispatched.valid /\ dispatched.present)
  /\ To("finishing", "denied")
  /\ UNCHANGED <<svp, call, heap, copy, reply, app>>

CallHandler ==
  /\ pc = "dispatching" /\ dispatched.valid /\ dispatched.present
  /\ \/ /\ heap' = IF dispatched.copies THEN heap \cup {"array"} ELSE heap
        /\ To("handling", "none")
     \/ /\ dispatched.copies
        /\ UNCHANGED heap
        /\ To("finishing", "failed")
  /\ UNCHANGED <<svp, call, copy, reply, app>>

\* A handler that fails may have stored its results already, as those do that
\* begin with *key = INVALID_HANDLE.
Store ==
  [f \in DOMAIN dispatched.stores |->
     Result(dispatched.args, dispatched.stores[f])] @@ copy

Handle ==
  /\ pc = "handling"
  /\ \E status \in {"OK", "failed"} :
       /\ \/ copy' = Store
          \/ status = "failed" /\ UNCHANGED copy
       /\ To("finishing", status)
  /\ heap' = heap \ {"array"}
  /\ UNCHANGED <<svp, call, reply, app>>

\* The copy is written back whatever the handler answered.
Answer ==
  /\ pc = "finishing"
  /\ reply' = IF request.command.direction = "INOUT" THEN copy ELSE reply
  /\ heap' = heap \ {"copy"}
  /\ To("answered", outcome)
  /\ UNCHANGED <<svp, call, copy, app>>

-----------------------------------------------------------------------------
\* The client library, from there on.

Returned(n) ==
  LET value == reply[request.returns[n]]
  IN  IF \/ n = "out_offset" /\ "out" \in request.adds
         \/ n = "in_offset" /\ "in" \in request.adds
      THEN app[n] \o value ELSE value

\* Mutant: the results are copied before the status is looked at.
CopyOut_Early ==
  /\ pc = "answered"
  /\ app' = [n \in DOMAIN app |-> Returned(n)]
  /\ To("copied", outcome)
  /\ UNCHANGED <<svp, call, heap, copy, reply>>

CopyOut ==
  /\ pc = "answered"
  /\ app' = IF outcome = "OK" \/ request.always
            THEN [n \in DOMAIN app |-> Returned(n)]
            ELSE app
  /\ To("copied", outcome)
  /\ UNCHANGED <<svp, call, heap, copy, reply>>

\* The loop of sa_process_common_encryption.
NextSample ==
  /\ pc = "copied" /\ outcome = "OK"
  /\ call.command = "SA_PROCESS_COMMON_ENCRYPTION"
  /\ call.args.samples_length = <<"many">>
  /\ heap' = heap \ {"extra"}
  /\ \E s \in Samples(svp) :
       Start([command |-> call.command,
              args |-> s @@ [samples |-> call.args.samples,
                             samples_length |-> <<"one">>]])
  /\ To("packing", "none")
  /\ UNCHANGED svp

LastSample ==
  call.command = "SA_PROCESS_COMMON_ENCRYPTION" /\ outcome = "OK" =>
    call.args.samples_length # <<"many">>

\* Mutant: the second structure is forgotten when a check after it fails.
Release_KeepsExtra ==
  /\ \/ pc = "copied" /\ LastSample
     \/ pc = "releasing"
  /\ heap' = IF outcome = "rejected" THEN heap \ {"command"} ELSE {}
  /\ To("returned", outcome)
  /\ UNCHANGED <<svp, call, copy, reply, app>>

Release ==
  /\ \/ pc = "copied" /\ LastSample
     \/ pc = "releasing"
  /\ heap' = IF pc = "copied" /\ request.keeps /\ outcome # "OK" THEN heap
             ELSE heap \ {"command", "extra"}
  /\ To("returned", outcome)
  /\ UNCHANGED <<svp, call, copy, reply, app>>

\* The next call; a process that crashed is started again.
Return ==
  /\ pc \in {"returned", "crashed"}
  /\ To("idle", "none")
  /\ call' = NULL /\ heap' = {} /\ copy' = <<>> /\ reply' = <<>> /\ app' = <<>>
  /\ UNCHANGED svp

Next ==
  \/ Call \/ Refuse \/ NoSession \/ CREATE_COMMAND \/ NoCommand
  \/ Reject \/ ReadAbsent \/ AllocateExtra
  \/ CopyCommand \/ Deny \/ CallHandler \/ Handle \/ Answer
  \/ CopyOut \/ NextSample \/ Release \/ Return

Spec == Init /\ [][Next]_vars

-----------------------------------------------------------------------------
\* What a handler sees of a buffer: its place in memory and what is left of it,
\* or the SVP buffer and the offset.
View(x) ==
  IF x = NULL \/ x.type = "SVP" THEN x
  ELSE [type |-> "CLEAR", buffer |-> At(x.buffer, x.offset),
        length |-> Minus(x.length, x.offset)]

BufferCommands ==
  {"SA_CRYPTO_CIPHER_PROCESS", "SA_CRYPTO_CIPHER_PROCESS_LAST",
   "SA_SVP_KEY_CHECK", "SA_PROCESS_COMMON_ENCRYPTION"}

\* The arguments that a handler gets: the structures of the caller arrive by
\* their fields, but those of the commands that pass them as a block of memory.
Passed ==
  CASE call.command = "SA_KEY_PROVISION_TA" ->
         {"in", "in_length", "parameters", "parameters_length"}
    [] call.command = "SA_KEY_IMPORT" ->
         DOMAIN call.args \ (IF call.args.key_format \in RightsFormats
                             THEN {"parameters"} ELSE {})
    [] call.command = "SA_SVP_BUFFER_RELEASE" -> {"svp_buffer"}
    [] call.command = "SA_KEY_HEADER" -> {"key"}
    [] OTHER -> DOMAIN call.args \
                  {"parameters", "type_parameters", "algorithm_parameters",
                   "samples", "samples_length"}

\* The repetition of the first offset by sa_svp_buffer_write, which the README
\* describes.
ManyOffsets ==
  /\ call.command = "SA_SVP_BUFFER_WRITE"
  /\ call.args.offsets_length = <<"many">>

\* Every argument of a call, and every field of the structures it passes,
\* reaches the handler as the same argument: none is lost, swapped with another
\* or shifted between the packing of the client library and the unpacking of
\* ta.c, whose parameters have nothing but positions.  A buffer arrives as the
\* same piece of memory.
ArgumentsArrive ==
  pc = "handling" /\ ~ManyOffsets =>
    \A n \in Passed :
      /\ n \in DOMAIN dispatched.args
      /\ IF n \in {"out", "in"} /\ call.command \in BufferCommands
         THEN View(dispatched.args[n]) = View(call.args[n])
         ELSE dispatched.args[n] = call.args[n]

\* The commands that copy a result to the caller before they look at the status.
EarlyResults == {"SA_GET_VERSION", "SA_GET_TA_UUID"}

\* The offset of a check of an SVP buffer is lost, as the README describes.
LostOffset ==
  call.command = "SA_SVP_KEY_CHECK" /\ call.args.in # NULL /\
  call.args.in.type = "SVP"

\* What a handler returned is in the arguments of the caller when the call
\* succeeded, an offset moved on once from where it was; and if it failed, the
\* caller's arguments are what they were, even if the handler had stored
\* results and they were written back to the command.
ResultsReturn ==
  pc \in {"copied", "returned"} /\ ~LostOffset =>
    \A n \in DOMAIN app :
      app[n] = IF outcome = "OK" THEN Result(call.args, n)
               ELSE IF call.command \in EarlyResults THEN app[n]
               ELSE Argument(call.args, n)

Missing(names) == \E n \in names \cap DOMAIN call.args : call.args[n] \in {NULL, Zero}

\* The calls whose arguments the trusted application refuses although the
\* client library does not: something required is empty, or the parameters of a
\* SoC key say that they are longer than the structure for them.
RefusedByTA ==
  \/ call.command = "SA_KEY_IMPORT" /\ Missing({"in", "in_length"})
  \/ call.command \in {"SA_KEY_IMPORT", "SA_KEY_PROVISION_TA"} /\
       "parameters_length" \in DOMAIN call.args /\
       call.args.parameters # NULL /\
       call.args.parameters_length \in {Zero, Oversized}
  \/ call.command = "SA_KEY_UNWRAP" /\ Missing({"aad"})
  \/ call.command = "SA_KEY_EXCHANGE" /\ Missing({"other_public_length"})
  \/ call.command = "SA_CRYPTO_RANDOM" /\ Missing({"length"})
  \/ call.command = "SA_CRYPTO_CIPHER_UPDATE_IV" /\ Missing({"iv_length"})
  \/ call.command \in {"SA_SVP_BUFFER_WRITE", "SA_SVP_BUFFER_COPY"} /\
       Missing({"offsets_length"})
  \/ call.command = "SA_SVP_KEY_CHECK" /\
       (Missing({"expected_length"}) \/ call.args.in.length = Zero)
  \/ call.command = "SA_SVP_BUFFER_CHECK" /\ Missing({"hash_length"})
  \/ call.command = "SA_PROCESS_COMMON_ENCRYPTION" /\
       (\/ Missing({"subsample_count"})
        \/ \E b \in {"out", "in"} : View(call.args[b]).length = Zero)

\* The input left out by sa_crypto_cipher_process_last, as the README describes.
InputLeftOut ==
  /\ call.command = "SA_CRYPTO_CIPHER_PROCESS_LAST"
  /\ call.args.in # NULL /\ call.args.in.type = "SVP"
  /\ call.args.out # NULL /\ call.args.out.type = "CLEAR"

\* The dispatcher accepts what the client library sends, unless something
\* required is empty or parameters are too long: the checks of types and sizes in ta.c agree with the
\* requests of every function, algorithm and format.  And what it sends has the
\* form that ta_client.c demands of it (TA_CLIENT_TEST): a parameter has a
\* reference exactly if it has a type, and a size only with a reference.
RequestsAccepted ==
  pc = "dispatching" /\ ~InputLeftOut =>
    /\ RefusedByTA \/ (dispatched.valid /\ dispatched.present)
    /\ \A i \in 1 .. 3 : LET p == request.params[i] IN
         /\ p.ref = NULL <=> p.type = "NONE"
         /\ p.ref = NULL => p.size = Zero

\* The trusted application has freed what it allocated for a command before it
\* answers, and the client library what it allocated for the call before it
\* returns, however the call ends.
\* sa_get_device_id is left out if the command fails: it returns at once.
EverythingFreed ==
  /\ pc = "answered" => heap \cap {"copy", "array"} = {}
  /\ pc = "returned" =>
       heap = {} \/ (call.command = "SA_GET_DEVICE_ID" /\ outcome # "OK")

-----------------------------------------------------------------------------
(* The inductive invariant of CommandsProofs                                 *)

Points ==
  {"idle", "checking", "packing", "packed", "dispatching", "handling",
   "finishing", "answered", "copied", "releasing", "returned", "crashed"}

\* A call is one of the interface, and ends well only in the handler.
CallOK ==
  /\ pc \in Points
  /\ pc # "idle" => call \in Calls(svp)
  /\ outcome = "OK" => pc \in {"finishing", "answered", "copied", "returned"}

\* What a call has passed on its way to a point.
Checked ==
  {"packing", "packed", "dispatching", "handling", "finishing", "answered",
   "copied"}

ChecksPassed ==
  /\ pc \in Checked => ~request.refused
  /\ pc \in Checked \ {"packing"} => ~request.rejected /\ ~request.absent
  /\ pc \in Checked \ {"packing", "packed"} => ~request.late
  /\ pc = "handling" \/ outcome = "OK" => dispatched.valid /\ dispatched.present

\* What may be allocated at each point.
MayHold ==
  CASE pc \in {"idle", "checking"} -> {}
    [] pc = "packing" -> {"command"}
    [] pc \in {"packed", "answered", "copied", "releasing"} ->
         {"command", "extra"}
    [] pc \in {"dispatching", "finishing"} -> {"command", "extra", "copy"}
    [] pc = "returned" ->
         IF call.command = "SA_GET_DEVICE_ID" /\ outcome # "OK"
         THEN {"command", "extra"} ELSE {}
    [] OTHER -> {"command", "extra", "copy", "array"}

HeapOK == heap \subseteq MayHold

\* The results of the handler are in r.
HasResults(r) ==
  \A f \in DOMAIN dispatched.stores :
    r[f] = Result(dispatched.args, dispatched.stores[f])

\* Where the results are until the caller has them; before, the caller's
\* arguments are as they were.
ResultsKept ==
  /\ pc = "finishing" /\ outcome = "OK" => HasResults(copy)
  /\ /\ pc = "answered" /\ outcome = "OK"
     /\ request.command.direction = "INOUT"
     => HasResults(reply)
  /\ pc \in {"checking", "releasing"} \cup (Checked \ {"copied"}) =>
       app = [n \in DOMAIN request.returns |-> Argument(call.args, n)]

IInv == CallOK /\ ChecksPassed /\ HeapOK /\ ResultsKept /\ ResultsReturn
=============================================================================
