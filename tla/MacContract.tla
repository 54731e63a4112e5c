---------------------------- MODULE MacContract ----------------------------
(***************************************************************************)
(* What MAC contexts promise (sa_crypto.h), without stores, references,    *)
(* locks and OpenSSL: every call takes effect at one moment between its    *)
(* invocation and its return.  A context is a message that grows; a call   *)
(* that computes the MAC gets that of the whole message and ends it.       *)
(*                                                                         *)
(* A call may fail with any error.  It has no effect then, except that an  *)
(* update that fails may have added its data, and a computation that fails *)
(* may have ended the message.                                             *)
(***************************************************************************)
EXTENDS Sequences

CONSTANTS Threads, Contexts, Chunks, Errors, NULL

VARIABLES
  macs,     \* the contexts: the message, and whether its MAC was computed
  request   \* the call of a thread, with its answer once it has taken effect

vars == <<macs, request>>

mac_s == [message : Seq(Chunks), done : BOOLEAN]

Init ==
  /\ macs = [c \in Contexts |-> NULL]
  /\ request = [t \in Threads |-> NULL]

Answer(status, mac) == [status |-> status, mac |-> mac]

Asked(name, c, chunk) == [name |-> name, context |-> c, chunk |-> chunk, answer |-> NULL]

Answers(t, a) ==
  request' = [request EXCEPT ![t] = [name |-> @.name, context |-> @.context,
                                     chunk |-> @.chunk, answer |-> a]]

Pending(t, name) ==
  /\ request[t] # NULL
  /\ request[t].answer = NULL
  /\ request[t].name = name

Invoke(t, name, c, chunk) ==
  /\ request[t] = NULL
  /\ request' = [request EXCEPT ![t] = Asked(name, c, chunk)]
  /\ UNCHANGED macs

Create(t, c) ==
  /\ Pending(t, "init")
  /\ macs[c] = NULL
  /\ macs' = [macs EXCEPT ![c] = [message |-> <<>>, done |-> FALSE]]
  /\ request' = [request EXCEPT ![t] =
       [name |-> "init", context |-> c, chunk |-> NULL, answer |-> Answer("OK", NULL)]]

Open(t, c) == request[t].context = c /\ macs[c] # NULL

\* An empty chunk is written NULL.
Longer(m, chunk) ==
  IF chunk = NULL THEN m
  ELSE [message |-> Append(m.message, chunk), done |-> m.done]

Ended(m) == [message |-> m.message, done |-> TRUE]

Process(t, c) ==
  /\ Pending(t, "process") /\ Open(t, c)
  /\ ~macs[c].done
  /\ macs' = [macs EXCEPT ![c] = Longer(@, request[t].chunk)]
  /\ Answers(t, Answer("OK", NULL))

Compute(t, c) ==
  /\ Pending(t, "compute") /\ Open(t, c)
  /\ ~macs[c].done
  /\ macs' = [macs EXCEPT ![c] = Ended(@)]
  /\ Answers(t, Answer("OK", macs[c].message))

\* The length of the MAC
Length(t, c) ==
  /\ Pending(t, "compute") /\ Open(t, c)
  /\ Answers(t, Answer("OK", NULL))
  /\ UNCHANGED macs

Release(t, c) ==
  /\ Pending(t, "release") /\ Open(t, c)
  /\ macs' = [macs EXCEPT ![c] = NULL]
  /\ Answers(t, Answer("OK", NULL))

\* The call fails ...
Fails(t) ==
  /\ request[t] # NULL /\ request[t].answer = NULL
  /\ \E e \in Errors : Answers(t, Answer(e, NULL))
  /\ UNCHANGED macs

\* ... with an effect
FailsHalfway(t, c) ==
  /\ Pending(t, "process") \/ Pending(t, "compute")
  /\ Open(t, c)
  /\ ~macs[c].done
  /\ \/ Pending(t, "process") /\ macs' = [macs EXCEPT ![c] = Longer(@, request[t].chunk)]
     \/ Pending(t, "compute") /\ macs' = [macs EXCEPT ![c] = Ended(@)]
  /\ \E e \in Errors : Answers(t, Answer(e, NULL))

Return(t) ==
  /\ request[t] # NULL /\ request[t].answer # NULL
  /\ request' = [request EXCEPT ![t] = NULL]
  /\ UNCHANGED macs

Next ==
  \E t \in Threads :
    \/ Invoke(t, "init", NULL, NULL)
    \/ \E c \in Contexts :
         \/ \E chunk \in Chunks \cup {NULL} : Invoke(t, "process", c, chunk)
         \/ Invoke(t, "compute", c, NULL)
         \/ Invoke(t, "release", c, NULL)
         \/ Create(t, c) \/ Process(t, c) \/ Compute(t, c) \/ Length(t, c)
         \/ Release(t, c) \/ FailsHalfway(t, c)
    \/ Fails(t)
    \/ Return(t)

Spec == Init /\ [][Next]_vars
=============================================================================
