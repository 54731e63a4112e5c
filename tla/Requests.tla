------------------------------ MODULE Requests ------------------------------
(* What the client library and the dispatcher of the trusted application say *)
(* to each other: a command structure and three more parameters, each with a *)
(* type, a reference and a size (sa_ta_types.h).                             *)
(*                                                                           *)
(* A number, the content of a buffer or an address is the sequence of the    *)
(* names of the arguments whose sum it is: <<"out", "out_offset">> is        *)
(* out_offset bytes into the buffer out.  Nothing that passes a value on     *)
(* depends on more of it, except where it is NULL, zero, a length the code   *)
(* requires, or an offset past the end.                                      *)
EXTENDS Naturals, Sequences

CONSTANT NULL

\* Records that are put together of parts, the first ones first, as the module
\* TLC has them; here with definitions that proofs can use.
f @@ g ==
  [n \in DOMAIN f \cup DOMAIN g |-> IF n \in DOMAIN f THEN f[n] ELSE g[n]]
n :> v == [m \in {n} |-> v]

Zero == <<>>
\* An offset that is larger than the length of its buffer.
Beyond == <<"beyond">>
\* A size that is larger than that of the structure it should be.
Oversized == <<"oversized">>
\* A field the client leaves as malloc gave it.
Unset == <<"unset">>

At(address, offset) == IF address = NULL THEN NULL ELSE address \o offset
Minus(length, offset) ==
  IF offset = Zero THEN length ELSE length \o <<"-">> \o offset

\* The lengths that the interface fixes.
AES_BLOCK_SIZE == <<"AES_BLOCK_SIZE">>
GCM_IV_LENGTH == <<"GCM_IV_LENGTH">>
CHACHA20_COUNTER_LENGTH == <<"CHACHA20_COUNTER_LENGTH">>
CHACHA20_NONCE_LENGTH == <<"CHACHA20_NONCE_LENGTH">>
TooLong == <<"AES_BLOCK_SIZE", "1">>

sizeof(struct) == <<struct>>

\* ta_param with its type.
Param(type, ref, size) == [type |-> type, ref |-> ref, size |-> size]
None == Param("NONE", NULL, Zero)
In(ref, size) == Param("IN", ref, size)
Out(ref, size) == Param("OUT", ref, size)
OptionalIn(ref, size) == IF ref = NULL THEN None ELSE In(ref, size)
OptionalOut(ref, size) == IF ref = NULL THEN None ELSE Out(ref, size)

NoParams == <<None, None, None>>

\* A parameter that refers to a structure of the protocol.
Struct(struct, fields) == [struct |-> struct, fields |-> fields]
StructParam(type, s) == Param(type, s, sizeof(s.struct))
Read(param, field) == IF param.ref = NULL THEN NULL ELSE param.ref.fields[field]

\* The command structure with the type of params[0] that carries it.
Command(direction, struct, fields) ==
  [direction |-> direction, struct |-> struct, fields |-> fields]

\* sa_buffer: memory of the application, or a handle of an SVP buffer.
BufferOf(type, param, offset) ==
  [type |-> type, buffer |-> param.ref, length |-> param.size, offset |-> offset]

\* An array of n structures.  The structures of the protocol have the size of
\* those of the interface: two or three numbers of eight bytes.
Times(n, struct) == IF n = Zero THEN Zero ELSE n \o sizeof(struct)
Count(size) == IF size = Zero THEN Zero ELSE SubSeq(size, 1, Len(size) - 1)

Same(fields, names) == [n \in names |-> fields[n]]
=============================================================================
