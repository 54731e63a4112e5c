------------------------------ MODULE Session ------------------------------
(***************************************************************************)
(* The session of an application process: the one session of the client    *)
(* library (clientimpl, client.c), the session handlers of the TA (ta.c,   *)
(* ta_sa_init, ta_sa_close), the global client store (client_store.c) and  *)
(* the atexit handlers that take both down.  In the reference              *)
(* implementation library and TA are one process, so the handlers share    *)
(* one atexit list.                                                        *)
(*                                                                         *)
(* Threads call the API; any of them may open the session.  A call reads   *)
(* the session context, takes a reference to its client, works, and drops  *)
(* the reference.  A client and its context have the same name.  The       *)
(* object store under the client store is what module ObjectStore shows:   *)
(* removal and shutdown wait for references, and a store that is shutting  *)
(* down accepts nothing.                                                   *)
(***************************************************************************)
EXTENDS Integers, Sequences, FiniteSets

CONSTANTS
  Threads,
  Contexts,     \* bound: session contexts that are opened in a behaviour
  NULL

ASSUME NullAssumption == NULL \notin Threads \cup Contexts
ASSUME ThreadsAssumption == IsFiniteSet(Threads)

VARIABLES
  quiet,        \* whether the application ends its calls before it exits
  session,      \* client.c: session
  mutex,        \* client.c: owner of mutex
  handlers,     \* the atexit list, last registered last
  registered,   \* the handlers whose once_flag is set
  store,        \* client_store.c: global, by the life of the store
  global_shutdown,
  context,      \* life of a session context
  client,       \* life of its client_t
  refs,         \* references to the client
  pc, my,       \* a thread, and the session it uses
  exit          \* what the exiting thread does

vars == <<quiet, session, mutex, handlers, registered, store, global_shutdown,
          context, client, refs, pc, my, exit>>

Lives == {"none", "live", "freed"}
Points == {"idle", "lock", "recheck", "open", "create", "add", "register",
           "unlock", "return", "invoke", "acquire", "work", "crashed"}
ExitPoints == {"running", "handlers", "close", "free", "begin_shutdown",
               "wait_clients", "set_flag", "exited"}

TypeOK ==
  /\ quiet \in BOOLEAN
  /\ session \in Contexts \cup {NULL}
  /\ mutex \in Threads \cup {NULL}
  /\ registered \subseteq {"client", "ta"}
  /\ \/ handlers = <<>>
     \/ \E h \in registered : handlers = <<h>>
     \/ \E h, i \in registered : h # i /\ handlers = <<h, i>>
  /\ store \in {"none", "open", "closing", "freed"}
  /\ global_shutdown \in BOOLEAN
  /\ context \in [Contexts -> Lives]
  /\ client \in [Contexts -> Lives]
  /\ refs \in [Contexts -> Nat]
  /\ pc \in [Threads -> Points]
  /\ my \in [Threads -> Contexts \cup {NULL}]
  /\ exit \in ExitPoints

Init ==
  /\ quiet \in BOOLEAN
  /\ session = NULL
  /\ mutex = NULL
  /\ handlers = <<>>
  /\ registered = {}
  /\ store = "none"
  /\ global_shutdown = FALSE
  /\ context = [c \in Contexts |-> "none"]
  /\ client = [c \in Contexts |-> "none"]
  /\ refs = [c \in Contexts |-> 0]
  /\ pc = [t \in Threads |-> "idle"]
  /\ my = [t \in Threads |-> NULL]
  /\ exit = "running"

Goto(t, point) == pc' = [pc EXCEPT ![t] = point]

\* atexit under a once_flag
Atexit(h) ==
  /\ registered' = registered \cup {h}
  /\ handlers' = IF h \in registered THEN handlers ELSE Append(handlers, h)

taState == <<store, global_shutdown, context, client, refs>>
lists == <<handlers, registered>>

-----------------------------------------------------------------------------
\* client_session, as an API function calls it: the check without the lock.
client_session(t) ==
  /\ pc[t] = "idle"
  /\ quiet => exit = "running"
  /\ IF session # NULL
     THEN my' = [my EXCEPT ![t] = session] /\ Goto(t, "invoke")
     ELSE my' = my /\ Goto(t, "lock")
  /\ UNCHANGED <<session, mutex, lists, taState, exit>>

LockMutex(t) ==
  /\ pc[t] = "lock"
  /\ mutex \in {NULL, t}
  /\ mutex' = t
  /\ Goto(t, "recheck")
  /\ UNCHANGED <<session, lists, taState, my, exit>>

\* Mutant: no second look under the lock.
Recheck_Opens(t) ==
  /\ pc[t] = "recheck"
  /\ Goto(t, "open")
  /\ UNCHANGED <<session, mutex, lists, taState, my, exit>>

\* "someone may have created a client underneath us"
Recheck(t) ==
  /\ pc[t] = "recheck"
  /\ Goto(t, IF session # NULL THEN "unlock" ELSE "open")
  /\ UNCHANGED <<session, mutex, lists, taState, my, exit>>

\* ta_open_session_handler fails: no memory, the caller is not authenticated,
\* or the client store is gone.
OpenFails(t) ==
  /\ pc[t] = "open"
  /\ Goto(t, "unlock")
  /\ UNCHANGED <<session, mutex, lists, taState, my, exit>>

\* ta_sa_init, client_store_global: there is a store,
Open(t) ==
  /\ pc[t] = "open"
  /\ store # "none"
  /\ ~global_shutdown
  /\ Goto(t, "add")
  /\ UNCHANGED <<session, mutex, lists, taState, my, exit>>

\* or call_once runs client_store_global_create
OpenFirst(t) ==
  /\ pc[t] = "open"
  /\ store = "none"
  /\ Atexit("ta")
  /\ Goto(t, "create")
  /\ UNCHANGED <<session, mutex, taState, my, exit>>

\* and the store is created, under the lock of client_store.c, unless it is
\* there now; global_shutdown is not looked at again.
CreateStore(t) ==
  /\ pc[t] = "create"
  /\ store' = IF store = "none" THEN "open" ELSE store
  /\ Goto(t, "add")
  /\ UNCHANGED <<session, mutex, lists, global_shutdown, context, client, refs,
                 my, exit>>

\* client_store_add, and *session_context = context
Add(t, c) ==
  /\ pc[t] = "add"
  /\ store = "open"
  /\ context[c] = "none"
  /\ client' = [client EXCEPT ![c] = "live"]
  /\ context' = [context EXCEPT ![c] = "live"]
  /\ session' = c
  /\ Goto(t, "register")
  /\ UNCHANGED <<mutex, lists, store, global_shutdown, refs, my, exit>>

\* ... when the store has no slot or is shutting down: the context is freed.
AddFails(t) ==
  /\ pc[t] = "add"
  /\ store # "freed"
  /\ Goto(t, "unlock")
  /\ UNCHANGED <<session, mutex, lists, taState, my, exit>>

\* The store was freed after client_store_global returned it.
AddCrashes(t) ==
  /\ pc[t] = "add"
  /\ store = "freed"
  /\ Goto(t, "crashed")
  /\ UNCHANGED <<session, mutex, lists, taState, my, exit>>

\* call_once(&shutdown_flag, client_create), after the session was opened
Register(t) ==
  /\ pc[t] = "register"
  /\ Atexit("client")
  /\ Goto(t, "unlock")
  /\ UNCHANGED <<session, mutex, taState, my, exit>>

\* Mutant: the failure path returns with the mutex locked.
UnlockMutex_OnSuccess(t) ==
  /\ pc[t] = "unlock"
  /\ mutex' = IF session = NULL THEN mutex ELSE NULL
  /\ Goto(t, "return")
  /\ UNCHANGED <<session, lists, taState, my, exit>>

UnlockMutex(t) ==
  /\ pc[t] = "unlock"
  /\ mutex' = NULL
  /\ Goto(t, "return")
  /\ UNCHANGED <<session, lists, taState, my, exit>>

\* "return session", and the caller's check
ReturnSession(t) ==
  /\ pc[t] = "return"
  /\ my' = [my EXCEPT ![t] = session]
  /\ Goto(t, IF session = NULL THEN "idle" ELSE "invoke")
  /\ UNCHANGED <<session, mutex, lists, taState, exit>>

-----------------------------------------------------------------------------
EndCall(t) ==
  /\ my' = [my EXCEPT ![t] = NULL]
  /\ Goto(t, "idle")

\* ta_invoke_command_handler reads context->client; the handler of the
\* command calls client_store_global.
Invoke(t) ==
  /\ pc[t] = "invoke"
  /\ context[my[t]] = "live"
  /\ Goto(t, "acquire")
  /\ UNCHANGED <<session, mutex, lists, taState, my, exit>>

InvokeCrashes(t) ==
  /\ pc[t] = "invoke"
  /\ context[my[t]] = "freed"
  /\ Goto(t, "crashed")
  /\ UNCHANGED <<session, mutex, lists, taState, my, exit>>

\* client_store_acquire
client_store_acquire(t) ==
  /\ pc[t] = "acquire"
  /\ ~global_shutdown
  /\ store = "open"
  /\ client[my[t]] = "live"
  /\ refs' = [refs EXCEPT ![my[t]] = @ + 1]
  /\ Goto(t, "work")
  /\ UNCHANGED <<session, mutex, lists, store, global_shutdown, context,
                 client, my, exit>>

AcquireFails(t) ==
  /\ pc[t] = "acquire"
  /\ \/ global_shutdown
     \/ store = "closing"
     \/ store = "open" /\ client[my[t]] # "live"
  /\ EndCall(t)
  /\ UNCHANGED <<session, mutex, lists, taState, exit>>

\* object_store_shutdown is over and global_shutdown is not yet set.
AcquireCrashes(t) ==
  /\ pc[t] = "acquire"
  /\ store = "freed"
  /\ ~global_shutdown
  /\ Goto(t, "crashed")
  /\ UNCHANGED <<session, mutex, lists, taState, my, exit>>

\* Mutant: the handler returns without dropping it.
client_store_release_Forgotten(t) ==
  /\ pc[t] = "work"
  /\ EndCall(t)
  /\ UNCHANGED <<session, mutex, lists, taState, exit>>

\* client_store_release, at the end of the handler
client_store_release(t) ==
  /\ pc[t] = "work"
  /\ refs' = [refs EXCEPT ![my[t]] = @ - 1]
  /\ EndCall(t)
  /\ UNCHANGED <<session, mutex, lists, store, global_shutdown, context,
                 client, exit>>

-----------------------------------------------------------------------------
Exit ==
  /\ exit = "running"
  /\ quiet => \A t \in Threads : pc[t] = "idle"
  /\ exit' = "handlers"
  /\ UNCHANGED <<session, mutex, lists, taState, pc, my>>

RunHandler(h) ==
  /\ exit = "handlers"
  /\ handlers # <<>>
  /\ handlers[Len(handlers)] = h
  /\ handlers' = SubSeq(handlers, 1, Len(handlers) - 1)

\* client_shutdown: with a session, ta_close_session
client_shutdown ==
  /\ RunHandler("client")
  /\ exit' = IF session = NULL THEN "handlers" ELSE "close"
  /\ UNCHANGED <<session, mutex, registered, taState, pc, my>>

\* Mutant: the client is freed whatever references it has.
ta_sa_close_AtOnce ==
  /\ exit = "close"
  /\ client' = [client EXCEPT ![session] = "freed"]
  /\ exit' = "free"
  /\ UNCHANGED <<session, mutex, lists, store, global_shutdown, context, refs,
                 pc, my>>

\* ta_sa_close: client_store_remove waits for the references and frees the
\* client, or fails after the shutdown of the store.
ta_sa_close ==
  /\ exit = "close"
  /\ IF global_shutdown
     THEN client' = client
     ELSE refs[session] = 0 /\ client' = [client EXCEPT ![session] = "freed"]
  /\ exit' = "free"
  /\ UNCHANGED <<session, mutex, lists, store, global_shutdown, context, refs,
                 pc, my>>

\* Mutant: the context is not freed.
FreeContext_Leaks ==
  /\ exit = "free"
  /\ session' = NULL
  /\ exit' = "handlers"
  /\ UNCHANGED <<mutex, lists, taState, pc, my>>

\* ta_close_session_handler frees the context; session = NULL.
FreeContext ==
  /\ exit = "free"
  /\ context' = [context EXCEPT ![session] = "freed"]
  /\ session' = NULL
  /\ exit' = "handlers"
  /\ UNCHANGED <<mutex, lists, store, global_shutdown, client, refs, pc, my>>

\* client_store_global_shutdown: client_store_global creates the store if it
\* is not there; object_store_shutdown begins.
client_store_global_shutdown ==
  /\ RunHandler("ta")
  /\ exit' = "wait_clients"
  /\ store' = "closing"
  /\ UNCHANGED <<session, mutex, registered, global_shutdown, context, client,
                 refs, pc, my>>

\* object_store_shutdown waits for every client and frees it and the store.
ShutdownStore ==
  /\ exit = "wait_clients"
  /\ \A c \in Contexts : refs[c] = 0
  /\ client' = [c \in Contexts |-> IF client[c] = "live" THEN "freed" ELSE client[c]]
  /\ store' = "freed"
  /\ exit' = "set_flag"
  /\ UNCHANGED <<session, mutex, lists, global_shutdown, context, refs, pc, my>>

SetFlag ==
  /\ exit = "set_flag"
  /\ global_shutdown' = TRUE
  /\ exit' = "handlers"
  /\ UNCHANGED <<session, mutex, lists, store, context, client, refs, pc, my>>

\* The process ends, with all its threads.
Exited ==
  /\ exit = "handlers"
  /\ handlers = <<>>
  /\ exit' = "exited"
  /\ UNCHANGED <<session, mutex, lists, taState, pc, my>>

-----------------------------------------------------------------------------
OpenStep(t) ==
  \/ LockMutex(t) \/ Recheck(t) \/ OpenFails(t) \/ Open(t) \/ OpenFirst(t)
  \/ CreateStore(t) \/ AddFails(t) \/ AddCrashes(t)
  \/ \E c \in Contexts : Add(t, c)
  \/ Register(t) \/ UnlockMutex(t) \/ ReturnSession(t)

CommandStep(t) ==
  \/ Invoke(t) \/ InvokeCrashes(t)
  \/ client_store_acquire(t) \/ AcquireFails(t) \/ AcquireCrashes(t)
  \/ client_store_release(t)

ExitStep ==
  \/ client_shutdown \/ ta_sa_close \/ FreeContext
  \/ client_store_global_shutdown \/ ShutdownStore \/ SetFlag
  \/ Exited

\* The process runs until it has exited or one of its threads has crashed it.
Running == exit # "exited" /\ \A t \in Threads : pc[t] # "crashed"

Next ==
  /\ Running
  /\ UNCHANGED quiet
  /\ \/ \E t \in Threads : client_session(t) \/ OpenStep(t) \/ CommandStep(t)
     \/ Exit
     \/ ExitStep

Spec == Init /\ [][Next]_vars

\* Threads inside a call, and an exit that has begun, go on; a thread that
\* waits for the mutex gets it in the end.
Runs(step) == Running /\ step /\ UNCHANGED quiet

FairSpec ==
  /\ Spec
  /\ \A t \in Threads :
       WF_vars(Runs(OpenStep(t) \/ CommandStep(t))) /\ SF_vars(Runs(LockMutex(t)))
  /\ WF_vars(Runs(ExitStep))

-----------------------------------------------------------------------------
(***************************************************************************)
(* The inductive invariants of SessionProofs                               *)
(***************************************************************************)
\* The mutex makes the second look at the session count.
OpeningOK ==
  \A t \in Threads :
    /\ pc[t] \in {"recheck", "open", "create", "add", "register", "unlock"} => mutex = t
    /\ pc[t] \in {"open", "create", "add"} => session = NULL
    /\ pc[t] \in {"invoke", "acquire", "work"} => my[t] \in Contexts

LiveIsSession ==
  \A c \in Contexts : context[c] = "live" \/ client[c] = "live" => session = c

\* The threads that hold a reference to a client
Users(c) == {t \in Threads : pc[t] = "work" /\ my[t] = c}

UsersCounted ==
  \A c \in Contexts :
    /\ refs[c] = Cardinality(Users(c))
    /\ Users(c) # {} => client[c] = "live"

ExitOK ==
  /\ exit \in {"close", "free"} => session # NULL
  /\ exit = "free" => client[session] # "live"
  /\ exit = "set_flag" => store = "freed"
  /\ global_shutdown => store = "freed"
  /\ exit \in {"wait_clients", "set_flag"} \/ global_shutdown =>
       "ta" \in registered /\ handlers \in {<<>>, <<"client">>}
  /\ store = "freed" => \A c \in Contexts : client[c] # "live"

IInv == TypeOK /\ OpeningOK /\ LiveIsSession /\ UsersCounted /\ ExitOK

\* What CleanExit needs: while the application runs nothing is taken down,
\* and a session has its two handlers, the client library's on top.
RunningOK ==
  exit = "running" =>
    /\ \A t \in Threads : pc[t] # "crashed"
    /\ store \in {"none", "open"}
    /\ \A c \in Contexts : context[c] # "freed"
    /\ handlers \in {<<>>, <<"ta">>, <<"ta", "client">>}
    /\ registered = CASE handlers = <<>>     -> {}
                      [] handlers = <<"ta">> -> {"ta"}
                      [] OTHER               -> {"ta", "client"}
    /\ store = "none" => handlers \in {<<>>, <<"ta">>}
    /\ store = "open" \/ (\E t \in Threads : pc[t] \in {"create", "add"}) => handlers # <<>>
    /\ session # NULL =>
         /\ store = "open"
         /\ "client" \in registered \/ \E t \in Threads : pc[t] = "register"
    /\ \A t \in Threads : pc[t] = "register" => store = "open"

\* Handlers run from the last to the first.
ExitingOK ==
  exit # "running" =>
    /\ \A t \in Threads : pc[t] = "idle"
    /\ exit = "handlers" => handlers \in {<<>>, <<"ta">>, <<"ta", "client">>}
    /\ exit = "handlers" /\ handlers = <<>> => store \in {"none", "freed"}
    /\ exit = "handlers" /\ handlers # <<"ta", "client">> => session = NULL
    /\ exit \in {"close", "free"} => handlers = <<"ta">>
    /\ exit \in {"wait_clients", "set_flag", "exited"} => handlers = <<>> /\ session = NULL
    /\ exit = "exited" => store \in {"none", "freed"}

QuietInv == quiet => RunningOK /\ ExitingOK

\* There is one session: double-checked locking opens no second one.
OneSession == Cardinality({c \in Contexts : context[c] = "live"}) <= 1

\* A command does not reach a freed context, client store or client, and no
\* session is opened on a freed client store.
NoUseAfterFree == \A t \in Threads : pc[t] # "crashed"

\* The client that a command works for is there until the command is done,
\* whatever the exiting thread does.
ClientOutlivesCommand ==
  \A t \in Threads :
    pc[t] = "work" => client[my[t]] = "live" /\ store # "freed"

\* An application that ends its calls first exits in order: nothing crashes,
\* and after the handlers there is no session context, no client and no client
\* store left.
CleanExit ==
  quiet =>
    /\ NoUseAfterFree
    /\ exit = "exited" =>
         /\ \A c \in Contexts : context[c] # "live" /\ client[c] # "live"
         /\ store \in {"none", "freed"}

\* Every call returns, whether or not the session can be opened, unless the
\* process ends first.
CallsReturn == \A t \in Threads : (pc[t] # "idle") ~> (pc[t] = "idle" \/ ~Running)

\* The exit of an application that has ended its calls comes to its end: no
\* handler waits for a reference that nobody will drop.  (Calls that go on may
\* starve client_store_remove: it looks at the count from time to time.)
ExitEnds == (quiet /\ exit = "handlers") ~> (exit = "exited")

\* "client_shutdown handler runs after the TA handler in the reference
\* implementation" (client.c)
ClientShutdownAfterTa == [][client_shutdown => global_shutdown]_vars
=============================================================================
