---------------------------- MODULE SessionProofs ----------------------------
(***************************************************************************)
(* Proofs about Session, for every finite set of threads and any number of *)
(* sessions: there is one session, a command keeps its client, and an      *)
(* application that ends its calls first exits with nothing left.          *)
(***************************************************************************)
EXTENDS Session, FiniteSetTheorems, SequenceTheorems, TLAPS

\* The steps that name no prover: SMT first, then Zenon, with time to spare.
USE SMTT(60), ZenonT(60)

\* A step of t leaves the other threads alone.
StepOf(t) == \A u \in Threads \ {t} : pc'[u] = pc[u] /\ my'[u] = my[u]

(* A set of threads that grows or shrinks by one. *)
LEMMA CountThreads ==
  ASSUME NEW S \in SUBSET Threads, NEW t \in Threads
  PROVE  /\ Cardinality(S) \in Nat
         /\ t \notin S => Cardinality(S \cup {t}) = Cardinality(S) + 1
         /\ t \in S => Cardinality(S \ {t}) = Cardinality(S) - 1
         /\ Cardinality(S) = 0 <=> S = {}
<1>1. IsFiniteSet(S)
  BY ThreadsAssumption, FS_Subset
<1>2. QED
  BY <1>1, FS_CardinalityType, FS_AddElement, FS_RemoveElement, FS_EmptySet

(* Sequences of one and of two *)
LEMMA AppendToOne ==
  ASSUME NEW S, NEW i \in S, NEW h \in S
  PROVE  Append(<<i>>, h) = <<i, h>>
<1>1. <<i>> \in Seq(S) /\ Len(<<i>>) = 1 /\ <<i>>[1] = i
  OBVIOUS
<1>2. <<i, h>> \in Seq(S) /\ Len(<<i, h>>) = 2 /\ <<i, h>>[1] = i /\ <<i, h>>[2] = h
  OBVIOUS
<1>3. Append(<<i>>, h) \in Seq(S) /\ Len(Append(<<i>>, h)) = 2
  BY <1>1
<1>4. \A n \in 1 .. 2 : Append(<<i>>, h)[n] = <<i, h>>[n]
  BY <1>1, <1>2
<1>5. QED
  BY <1>2, <1>3, <1>4, SeqEqual

LEMMA FirstOfTwo ==
  ASSUME NEW S, NEW i \in S, NEW h \in S
  PROVE  SubSeq(<<i, h>>, 1, Len(<<i, h>>) - 1) = <<i>>
<1>1. <<i, h>> \in Seq(S) /\ Len(<<i, h>>) = 2 /\ <<i, h>>[1] = i
  OBVIOUS
<1>2. <<i>> \in Seq(S) /\ Len(<<i>>) = 1 /\ <<i>>[1] = i
  OBVIOUS
<1>3. SubSeq(<<i, h>>, 1, 1) \in Seq(S) /\ Len(SubSeq(<<i, h>>, 1, 1)) = 1
  BY <1>1
<1>4. \A n \in 1 .. 1 : SubSeq(<<i, h>>, 1, 1)[n] = <<i>>[n]
  BY <1>1, <1>2
<1>5. SubSeq(<<i, h>>, 1, 1) = <<i>>
  BY <1>2, <1>3, <1>4, SeqEqual
<1>6. QED
  BY <1>1, <1>5

\* What TypeOK says of the atexit list
ListOK ==
  /\ registered \subseteq {"client", "ta"}
  /\ \/ handlers = <<>>
     \/ \E h \in registered : handlers = <<h>>
     \/ \E h, i \in registered : h # i /\ handlers = <<h, i>>

(* A handler is registered once. *)
LEMMA AtexitList ==
  ASSUME ListOK, NEW h \in {"client", "ta"}, Atexit(h)
  PROVE  ListOK'
<1>1. CASE h \in registered
  BY <1>1 DEF ListOK, Atexit
<1>2. CASE h \notin registered
  <2>1. registered' = registered \cup {h} /\ handlers' = Append(handlers, h)
    BY <1>2 DEF Atexit
  <2>2. CASE handlers = <<>>
    <3>1. handlers' = <<h>>
      BY <2>1, <2>2
    <3>2. QED
      BY <2>1, <3>1 DEF ListOK
  <2>3. CASE \E i \in registered : handlers = <<i>>
    <3>1. PICK i \in registered : handlers = <<i>>
      BY <2>3
    <3>2. Append(<<i>>, h) = <<i, h>>
      BY AppendToOne DEF ListOK
    <3>3. handlers' = <<i, h>> /\ i # h
      BY <1>2, <2>1, <3>1, <3>2
    <3>4. QED
      BY <2>1, <3>3 DEF ListOK
  <2>4. CASE \E i, j \in registered : i # j /\ handlers = <<i, j>>
    BY <1>2, <2>4 DEF ListOK
  <2>5. QED
    BY <2>2, <2>3, <2>4 DEF ListOK
<1>3. QED
  BY <1>1, <1>2

(* Once the TA's handler has run it is not registered again. *)
LEMMA AtexitDone ==
  ASSUME ListOK, NEW h \in {"client", "ta"}, Atexit(h),
         "ta" \in registered, handlers \in {<<>>, <<"client">>}
  PROVE  "ta" \in registered' /\ handlers' \in {<<>>, <<"client">>}
<1>1. handlers = <<"client">> => "client" \in registered
  BY DEF ListOK
<1>2. CASE h \in registered
  BY <1>2 DEF Atexit
<1>3. CASE h \notin registered
  <2>1. h = "client" /\ handlers = <<>>
    BY <1>1, <1>3
  <2>2. handlers' = <<"client">>
    BY <1>3, <2>1 DEF Atexit
  <2>3. QED
    BY <2>2 DEF Atexit
<1>4. QED
  BY <1>2, <1>3

(* The TA's handler leaves the client's behind or nothing. *)
LEMMA TaHandlerRuns ==
  ASSUME ListOK, RunHandler("ta")
  PROVE  "ta" \in registered /\ handlers' \in {<<>>, <<"client">>}
<1>1. CASE \E i \in registered : handlers = <<i>>
  <2>1. handlers' = <<>> /\ handlers = <<"ta">>
    BY <1>1 DEF RunHandler
  <2>2. QED
    BY <1>1, <2>1
<1>2. CASE \E i, j \in registered : i # j /\ handlers = <<i, j>>
  <2>1. PICK i \in registered, j \in registered : i # j /\ handlers = <<i, j>>
    BY <1>2
  <2>2. j = "ta" /\ i = "client"
    BY <2>1 DEF RunHandler, ListOK
  <2>3. SubSeq(<<i, j>>, 1, Len(<<i, j>>) - 1) = <<i>>
    BY FirstOfTwo
  <2>4. handlers' = <<"client">>
    BY <2>1, <2>2, <2>3 DEF RunHandler
  <2>5. QED
    BY <2>1, <2>2, <2>4
<1>3. QED
  BY <1>1, <1>2 DEF ListOK, RunHandler

(* A handler that runs leaves the list. *)
LEMMA RunHandlerList ==
  ASSUME ListOK, NEW h, RunHandler(h), registered' = registered
  PROVE  ListOK'
<1>1. CASE \E i \in registered : handlers = <<i>>
  <2>1. handlers' = <<>>
    BY <1>1 DEF RunHandler
  <2>2. QED
    BY <2>1 DEF ListOK
<1>2. CASE \E i, j \in registered : i # j /\ handlers = <<i, j>>
  <2>1. PICK i \in registered, j \in registered : handlers = <<i, j>>
    BY <1>2
  <2>2. SubSeq(<<i, j>>, 1, Len(<<i, j>>) - 1) = <<i>>
    BY FirstOfTwo
  <2>3. handlers' = <<i>>
    BY <2>1, <2>2 DEF RunHandler
  <2>4. QED
    BY <2>3 DEF ListOK
<1>3. QED
  BY <1>1, <1>2 DEF ListOK, RunHandler

(* References and clients that stay, with the threads that hold them. *)
LEMMA SameUsers ==
  ASSUME UsersCounted, \A c \in Contexts : Users(c)' = Users(c), refs' = refs,
         \A c \in Contexts : client[c] = "live" /\ Users(c) # {} => client'[c] = "live"
  PROVE  UsersCounted'
BY DEF UsersCounted

LEMMA InitIInv == Init => IInv
<1> SUFFICES ASSUME Init PROVE IInv
  OBVIOUS
<1>1. TypeOK
  BY DEF Init, TypeOK, Lives, Points, ExitPoints
<1>2. OpeningOK /\ LiveIsSession /\ ExitOK
  BY DEF Init, OpeningOK, LiveIsSession, ExitOK
<1>3. UsersCounted
  <2>1. \A c \in Contexts : Users(c) = {}
    BY DEF Init, Users
  <2>2. QED
    BY <2>1, FS_EmptySet DEF Init, UsersCounted
<1>4. QED
  BY <1>1, <1>2, <1>3 DEF IInv

-----------------------------------------------------------------------------
(* Every action preserves IInv. *)

LEMMA client_sessionIInv ==
  ASSUME IInv, UNCHANGED quiet, NEW t \in Threads, client_session(t)
  PROVE  IInv'
<1> USE NullAssumption DEF client_session, Goto, lists, taState
<1>1. TypeOK'
  <2>1. pc' \in [Threads -> Points] /\ my' \in [Threads -> Contexts \cup {NULL}]
    BY DEF IInv, TypeOK, Points
  <2>2. QED
    BY <2>1 DEF IInv, TypeOK
<1>2. OpeningOK'
  BY DEF IInv, TypeOK, OpeningOK
<1>3. LiveIsSession'
  BY DEF IInv, TypeOK, OpeningOK, LiveIsSession, ExitOK
<1>4. UsersCounted'
  <2>1. \A c \in Contexts : Users(c)' = Users(c)
    BY DEF IInv, TypeOK, Users, taState
  <2>2. refs' = refs /\ client' = client
    BY DEF taState
  <2>3. QED
    BY <2>1, <2>2, SameUsers DEF IInv
<1>5. ExitOK'
  BY DEF IInv, TypeOK, OpeningOK, LiveIsSession, ExitOK
<1>6. QED
  BY <1>1, <1>2, <1>3, <1>4, <1>5 DEF IInv

LEMMA LockMutexIInv ==
  ASSUME IInv, UNCHANGED quiet, NEW t \in Threads, LockMutex(t)
  PROVE  IInv'
<1> USE NullAssumption DEF LockMutex, Goto, lists, taState
<1>1. TypeOK'
  BY DEF IInv, TypeOK, Lives, Points, ExitPoints, OpeningOK
<1>2. OpeningOK'
  BY DEF IInv, TypeOK, OpeningOK
<1>3. LiveIsSession'
  BY DEF IInv, TypeOK, OpeningOK, LiveIsSession, ExitOK
<1>4. UsersCounted'
  <2>1. \A c \in Contexts : Users(c)' = Users(c)
    BY DEF IInv, TypeOK, Users, taState
  <2>2. refs' = refs /\ client' = client
    BY DEF taState
  <2>3. QED
    BY <2>1, <2>2, SameUsers DEF IInv
<1>5. ExitOK'
  BY DEF IInv, TypeOK, OpeningOK, LiveIsSession, ExitOK
<1>6. QED
  BY <1>1, <1>2, <1>3, <1>4, <1>5 DEF IInv

LEMMA RecheckIInv ==
  ASSUME IInv, UNCHANGED quiet, NEW t \in Threads, Recheck(t)
  PROVE  IInv'
<1> USE NullAssumption DEF Recheck, Goto, lists, taState
<1>1. TypeOK'
  BY DEF IInv, TypeOK, Lives, Points, ExitPoints, OpeningOK
<1>2. OpeningOK'
  BY DEF IInv, TypeOK, OpeningOK
<1>3. LiveIsSession'
  BY DEF IInv, TypeOK, OpeningOK, LiveIsSession, ExitOK
<1>4. UsersCounted'
  <2>1. \A c \in Contexts : Users(c)' = Users(c)
    BY DEF IInv, TypeOK, Users, taState
  <2>2. refs' = refs /\ client' = client
    BY DEF taState
  <2>3. QED
    BY <2>1, <2>2, SameUsers DEF IInv
<1>5. ExitOK'
  BY DEF IInv, TypeOK, OpeningOK, LiveIsSession, ExitOK
<1>6. QED
  BY <1>1, <1>2, <1>3, <1>4, <1>5 DEF IInv

LEMMA OpenFailsIInv ==
  ASSUME IInv, UNCHANGED quiet, NEW t \in Threads, OpenFails(t)
  PROVE  IInv'
<1> USE NullAssumption DEF OpenFails, Goto, lists, taState
<1>1. TypeOK'
  BY DEF IInv, TypeOK, Lives, Points, ExitPoints, OpeningOK
<1>2. OpeningOK'
  BY DEF IInv, TypeOK, OpeningOK
<1>3. LiveIsSession'
  BY DEF IInv, TypeOK, OpeningOK, LiveIsSession, ExitOK
<1>4. UsersCounted'
  <2>1. \A c \in Contexts : Users(c)' = Users(c)
    BY DEF IInv, TypeOK, Users, taState
  <2>2. refs' = refs /\ client' = client
    BY DEF taState
  <2>3. QED
    BY <2>1, <2>2, SameUsers DEF IInv
<1>5. ExitOK'
  BY DEF IInv, TypeOK, OpeningOK, LiveIsSession, ExitOK
<1>6. QED
  BY <1>1, <1>2, <1>3, <1>4, <1>5 DEF IInv

LEMMA OpenIInv ==
  ASSUME IInv, UNCHANGED quiet, NEW t \in Threads, Open(t)
  PROVE  IInv'
<1> USE NullAssumption DEF Open, Goto, lists, taState
<1>1. TypeOK'
  BY DEF IInv, TypeOK, Lives, Points, ExitPoints, OpeningOK
<1>2. OpeningOK'
  BY DEF IInv, TypeOK, OpeningOK
<1>3. LiveIsSession'
  BY DEF IInv, TypeOK, OpeningOK, LiveIsSession, ExitOK
<1>4. UsersCounted'
  <2>1. \A c \in Contexts : Users(c)' = Users(c)
    BY DEF IInv, TypeOK, Users, taState
  <2>2. refs' = refs /\ client' = client
    BY DEF taState
  <2>3. QED
    BY <2>1, <2>2, SameUsers DEF IInv
<1>5. ExitOK'
  BY DEF IInv, TypeOK, OpeningOK, LiveIsSession, ExitOK
<1>6. QED
  BY <1>1, <1>2, <1>3, <1>4, <1>5 DEF IInv

LEMMA OpenFirstIInv ==
  ASSUME IInv, UNCHANGED quiet, NEW t \in Threads, OpenFirst(t)
  PROVE  IInv'
<1> USE NullAssumption DEF OpenFirst, Goto, lists, taState
<1>1. TypeOK'
  <2>1. ListOK'
    BY AtexitList DEF IInv, TypeOK, ListOK
  <2>2. QED
    BY <2>1 DEF IInv, TypeOK, ListOK, Lives, Points, ExitPoints
<1>2. OpeningOK'
  BY DEF IInv, TypeOK, OpeningOK
<1>3. LiveIsSession'
  BY DEF IInv, TypeOK, OpeningOK, LiveIsSession, ExitOK
<1>4. UsersCounted'
  <2>1. \A c \in Contexts : Users(c)' = Users(c)
    BY DEF IInv, TypeOK, Users, taState
  <2>2. refs' = refs /\ client' = client
    BY DEF taState
  <2>3. QED
    BY <2>1, <2>2, SameUsers DEF IInv
<1>5. ExitOK'
  BY AtexitDone DEF IInv, TypeOK, OpeningOK, LiveIsSession, ExitOK, Atexit
<1>6. QED
  BY <1>1, <1>2, <1>3, <1>4, <1>5 DEF IInv

LEMMA CreateStoreIInv ==
  ASSUME IInv, UNCHANGED quiet, NEW t \in Threads, CreateStore(t)
  PROVE  IInv'
<1> USE NullAssumption DEF CreateStore, Goto, lists, taState
<1>1. TypeOK'
  BY DEF IInv, TypeOK, Lives, Points, ExitPoints, OpeningOK
<1>2. OpeningOK'
  BY DEF IInv, TypeOK, OpeningOK
<1>3. LiveIsSession'
  BY DEF IInv, TypeOK, OpeningOK, LiveIsSession, ExitOK
<1>4. UsersCounted'
  <2>1. \A c \in Contexts : Users(c)' = Users(c)
    BY DEF IInv, TypeOK, Users
  <2>2. QED
    BY <2>1, SameUsers DEF IInv
<1>5. ExitOK'
  BY DEF IInv, TypeOK, OpeningOK, LiveIsSession, ExitOK
<1>6. QED
  BY <1>1, <1>2, <1>3, <1>4, <1>5 DEF IInv

LEMMA AddIInv ==
  ASSUME IInv, UNCHANGED quiet, NEW t \in Threads, NEW s \in Contexts, Add(t, s)
  PROVE  IInv'
<1> USE NullAssumption DEF Add, Goto, lists, taState
<1>1. TypeOK'
  BY DEF IInv, TypeOK, Lives, Points, ExitPoints, OpeningOK
<1>2. OpeningOK'
  BY DEF IInv, TypeOK, OpeningOK
<1>3. LiveIsSession'
  BY DEF IInv, TypeOK, OpeningOK, LiveIsSession, ExitOK
<1>4. UsersCounted'
  <2>1. \A c \in Contexts : Users(c)' = Users(c)
    BY DEF IInv, TypeOK, Users
  <2>2. QED
    BY <2>1, SameUsers DEF IInv, TypeOK
<1>5. ExitOK'
  BY DEF IInv, TypeOK, OpeningOK, LiveIsSession, ExitOK
<1>6. QED
  BY <1>1, <1>2, <1>3, <1>4, <1>5 DEF IInv

LEMMA AddFailsIInv ==
  ASSUME IInv, UNCHANGED quiet, NEW t \in Threads, AddFails(t)
  PROVE  IInv'
<1> USE NullAssumption DEF AddFails, Goto, lists, taState
<1>1. TypeOK'
  BY DEF IInv, TypeOK, Lives, Points, ExitPoints, OpeningOK
<1>2. OpeningOK'
  BY DEF IInv, TypeOK, OpeningOK
<1>3. LiveIsSession'
  BY DEF IInv, TypeOK, OpeningOK, LiveIsSession, ExitOK
<1>4. UsersCounted'
  <2>1. \A c \in Contexts : Users(c)' = Users(c)
    BY DEF IInv, TypeOK, Users, taState
  <2>2. refs' = refs /\ client' = client
    BY DEF taState
  <2>3. QED
    BY <2>1, <2>2, SameUsers DEF IInv
<1>5. ExitOK'
  BY DEF IInv, TypeOK, OpeningOK, LiveIsSession, ExitOK
<1>6. QED
  BY <1>1, <1>2, <1>3, <1>4, <1>5 DEF IInv

LEMMA AddCrashesIInv ==
  ASSUME IInv, UNCHANGED quiet, NEW t \in Threads, AddCrashes(t)
  PROVE  IInv'
<1> USE NullAssumption DEF AddCrashes, Goto, lists, taState
<1>1. TypeOK'
  BY DEF IInv, TypeOK, Lives, Points, ExitPoints, OpeningOK
<1>2. OpeningOK'
  BY DEF IInv, TypeOK, OpeningOK
<1>3. LiveIsSession'
  BY DEF IInv, TypeOK, OpeningOK, LiveIsSession, ExitOK
<1>4. UsersCounted'
  <2>1. \A c \in Contexts : Users(c)' = Users(c)
    BY DEF IInv, TypeOK, Users, taState
  <2>2. refs' = refs /\ client' = client
    BY DEF taState
  <2>3. QED
    BY <2>1, <2>2, SameUsers DEF IInv
<1>5. ExitOK'
  BY DEF IInv, TypeOK, OpeningOK, LiveIsSession, ExitOK
<1>6. QED
  BY <1>1, <1>2, <1>3, <1>4, <1>5 DEF IInv

LEMMA RegisterIInv ==
  ASSUME IInv, UNCHANGED quiet, NEW t \in Threads, Register(t)
  PROVE  IInv'
<1> USE NullAssumption DEF Register, Goto, lists, taState
<1>1. TypeOK'
  <2>1. ListOK'
    BY AtexitList DEF IInv, TypeOK, ListOK
  <2>2. QED
    BY <2>1 DEF IInv, TypeOK, ListOK, Lives, Points, ExitPoints
<1>2. OpeningOK'
  BY DEF IInv, TypeOK, OpeningOK
<1>3. LiveIsSession'
  BY DEF IInv, TypeOK, OpeningOK, LiveIsSession, ExitOK
<1>4. UsersCounted'
  <2>1. \A c \in Contexts : Users(c)' = Users(c)
    BY DEF IInv, TypeOK, Users, taState
  <2>2. refs' = refs /\ client' = client
    BY DEF taState
  <2>3. QED
    BY <2>1, <2>2, SameUsers DEF IInv
<1>5. ExitOK'
  <2>1. ListOK /\ Atexit("client")
    BY DEF IInv, TypeOK, ListOK
  <2>2. "ta" \in registered /\ handlers \in {<<>>, <<"client">>} =>
          "ta" \in registered' /\ handlers' \in {<<>>, <<"client">>}
    BY <2>1, AtexitDone
  <2>3. QED
    BY <2>2 DEF IInv, ExitOK
<1>6. QED
  BY <1>1, <1>2, <1>3, <1>4, <1>5 DEF IInv

LEMMA UnlockMutexIInv ==
  ASSUME IInv, UNCHANGED quiet, NEW t \in Threads, UnlockMutex(t)
  PROVE  IInv'
<1> USE NullAssumption DEF UnlockMutex, Goto, lists, taState
<1>1. TypeOK'
  BY DEF IInv, TypeOK, Lives, Points, ExitPoints, OpeningOK
<1>2. OpeningOK'
  BY DEF IInv, TypeOK, OpeningOK
<1>3. LiveIsSession'
  BY DEF IInv, TypeOK, OpeningOK, LiveIsSession, ExitOK
<1>4. UsersCounted'
  <2>1. \A c \in Contexts : Users(c)' = Users(c)
    BY DEF IInv, TypeOK, Users, taState
  <2>2. refs' = refs /\ client' = client
    BY DEF taState
  <2>3. QED
    BY <2>1, <2>2, SameUsers DEF IInv
<1>5. ExitOK'
  BY DEF IInv, TypeOK, OpeningOK, LiveIsSession, ExitOK
<1>6. QED
  BY <1>1, <1>2, <1>3, <1>4, <1>5 DEF IInv

LEMMA ReturnSessionIInv ==
  ASSUME IInv, UNCHANGED quiet, NEW t \in Threads, ReturnSession(t)
  PROVE  IInv'
<1> USE NullAssumption DEF ReturnSession, Goto, lists, taState
<1>1. TypeOK'
  BY DEF IInv, TypeOK, Lives, Points, ExitPoints, OpeningOK
<1>2. OpeningOK'
  BY DEF IInv, TypeOK, OpeningOK
<1>3. LiveIsSession'
  BY DEF IInv, TypeOK, OpeningOK, LiveIsSession, ExitOK
<1>4. UsersCounted'
  <2>1. \A c \in Contexts : Users(c)' = Users(c)
    BY DEF IInv, TypeOK, Users, taState
  <2>2. refs' = refs /\ client' = client
    BY DEF taState
  <2>3. QED
    BY <2>1, <2>2, SameUsers DEF IInv
<1>5. ExitOK'
  BY DEF IInv, TypeOK, OpeningOK, LiveIsSession, ExitOK
<1>6. QED
  BY <1>1, <1>2, <1>3, <1>4, <1>5 DEF IInv

LEMMA InvokeIInv ==
  ASSUME IInv, UNCHANGED quiet, NEW t \in Threads, Invoke(t)
  PROVE  IInv'
<1> USE NullAssumption DEF Invoke, Goto, lists, taState
<1>1. TypeOK'
  BY DEF IInv, TypeOK, Lives, Points, ExitPoints, OpeningOK
<1>2. OpeningOK'
  BY DEF IInv, TypeOK, OpeningOK
<1>3. LiveIsSession'
  BY DEF IInv, TypeOK, OpeningOK, LiveIsSession, ExitOK
<1>4. UsersCounted'
  <2>1. \A c \in Contexts : Users(c)' = Users(c)
    BY DEF IInv, TypeOK, Users, taState
  <2>2. refs' = refs /\ client' = client
    BY DEF taState
  <2>3. QED
    BY <2>1, <2>2, SameUsers DEF IInv
<1>5. ExitOK'
  BY DEF IInv, TypeOK, OpeningOK, LiveIsSession, ExitOK
<1>6. QED
  BY <1>1, <1>2, <1>3, <1>4, <1>5 DEF IInv

LEMMA InvokeCrashesIInv ==
  ASSUME IInv, UNCHANGED quiet, NEW t \in Threads, InvokeCrashes(t)
  PROVE  IInv'
<1> USE NullAssumption DEF InvokeCrashes, Goto, lists, taState
<1>1. TypeOK'
  BY DEF IInv, TypeOK, Lives, Points, ExitPoints, OpeningOK
<1>2. OpeningOK'
  BY DEF IInv, TypeOK, OpeningOK
<1>3. LiveIsSession'
  BY DEF IInv, TypeOK, OpeningOK, LiveIsSession, ExitOK
<1>4. UsersCounted'
  <2>1. \A c \in Contexts : Users(c)' = Users(c)
    BY DEF IInv, TypeOK, Users, taState
  <2>2. refs' = refs /\ client' = client
    BY DEF taState
  <2>3. QED
    BY <2>1, <2>2, SameUsers DEF IInv
<1>5. ExitOK'
  BY DEF IInv, TypeOK, OpeningOK, LiveIsSession, ExitOK
<1>6. QED
  BY <1>1, <1>2, <1>3, <1>4, <1>5 DEF IInv

LEMMA client_store_acquireIInv ==
  ASSUME IInv, UNCHANGED quiet, NEW t \in Threads, client_store_acquire(t)
  PROVE  IInv'
<1> USE NullAssumption DEF client_store_acquire, Goto, lists, taState
<1>1. TypeOK'
  BY DEF IInv, TypeOK, Lives, Points, ExitPoints, OpeningOK
<1>2. OpeningOK'
  BY DEF IInv, TypeOK, OpeningOK
<1>3. LiveIsSession'
  BY DEF IInv, TypeOK, OpeningOK, LiveIsSession, ExitOK
<1>4. UsersCounted'
  <2>1. my[t] \in Contexts
    BY DEF IInv, OpeningOK
  <2>2. \A c \in Contexts \ {my[t]} : Users(c)' = Users(c)
    BY DEF IInv, TypeOK, Users
  <2>3. Users(my[t])' = Users(my[t]) \cup {t} /\ t \notin Users(my[t])
    BY <2>1 DEF IInv, TypeOK, Users
  <2>4. Cardinality(Users(my[t]))' = Cardinality(Users(my[t])) + 1
    BY <2>3, CountThreads DEF Users
  <2>5. \A c \in Contexts : refs'[c] = Cardinality(Users(c)')
    BY <2>1, <2>2, <2>4 DEF IInv, TypeOK, UsersCounted
  <2>6. \A c \in Contexts : Users(c)' # {} => client'[c] = "live"
    BY <2>2 DEF IInv, UsersCounted
  <2>7. QED
    BY <2>5, <2>6 DEF UsersCounted
<1>5. ExitOK'
  BY DEF IInv, TypeOK, OpeningOK, LiveIsSession, ExitOK
<1>6. QED
  BY <1>1, <1>2, <1>3, <1>4, <1>5 DEF IInv

LEMMA AcquireFailsIInv ==
  ASSUME IInv, UNCHANGED quiet, NEW t \in Threads, AcquireFails(t)
  PROVE  IInv'
<1> USE NullAssumption DEF AcquireFails, Goto, EndCall, lists, taState
<1>1. TypeOK'
  BY DEF IInv, TypeOK, Lives, Points, ExitPoints, OpeningOK
<1>2. OpeningOK'
  BY DEF IInv, TypeOK, OpeningOK
<1>3. LiveIsSession'
  BY DEF IInv, TypeOK, OpeningOK, LiveIsSession, ExitOK
<1>4. UsersCounted'
  <2>1. \A c \in Contexts : Users(c)' = Users(c)
    BY DEF IInv, TypeOK, Users, taState
  <2>2. refs' = refs /\ client' = client
    BY DEF taState
  <2>3. QED
    BY <2>1, <2>2, SameUsers DEF IInv
<1>5. ExitOK'
  BY DEF IInv, TypeOK, OpeningOK, LiveIsSession, ExitOK
<1>6. QED
  BY <1>1, <1>2, <1>3, <1>4, <1>5 DEF IInv

LEMMA AcquireCrashesIInv ==
  ASSUME IInv, UNCHANGED quiet, NEW t \in Threads, AcquireCrashes(t)
  PROVE  IInv'
<1> USE NullAssumption DEF AcquireCrashes, Goto, lists, taState
<1>1. TypeOK'
  BY DEF IInv, TypeOK, Lives, Points, ExitPoints, OpeningOK
<1>2. OpeningOK'
  BY DEF IInv, TypeOK, OpeningOK
<1>3. LiveIsSession'
  BY DEF IInv, TypeOK, OpeningOK, LiveIsSession, ExitOK
<1>4. UsersCounted'
  <2>1. \A c \in Contexts : Users(c)' = Users(c)
    BY DEF IInv, TypeOK, Users, taState
  <2>2. refs' = refs /\ client' = client
    BY DEF taState
  <2>3. QED
    BY <2>1, <2>2, SameUsers DEF IInv
<1>5. ExitOK'
  BY DEF IInv, TypeOK, OpeningOK, LiveIsSession, ExitOK
<1>6. QED
  BY <1>1, <1>2, <1>3, <1>4, <1>5 DEF IInv

LEMMA client_store_releaseIInv ==
  ASSUME IInv, UNCHANGED quiet, NEW t \in Threads, client_store_release(t)
  PROVE  IInv'
<1> USE NullAssumption DEF client_store_release, Goto, EndCall, lists, taState
<1>0. PICK s \in Contexts :
        /\ s = my[t] /\ t \in Users(s) /\ Users(s)' = Users(s) \ {t} /\ refs[s] > 0
        /\ Cardinality(Users(s)') = Cardinality(Users(s)) - 1
        /\ \A c \in Contexts \ {s} : Users(c)' = Users(c)
  <2>1. PICK s \in Contexts : s = my[t]
    BY DEF IInv, OpeningOK
  <2>2. Users(s)' = Users(s) \ {t} /\ t \in Users(s)
    BY <2>1 DEF IInv, TypeOK, Users
  <2>3. Cardinality(Users(s)') = Cardinality(Users(s)) - 1
    BY <2>2, CountThreads DEF Users
  <2>4. Cardinality(Users(s)) \in Nat /\ Cardinality(Users(s)) # 0
    BY <2>2, CountThreads DEF Users
  <2>5. \A c \in Contexts \ {s} : Users(c)' = Users(c)
    BY <2>1 DEF IInv, TypeOK, Users
  <2>6. refs[s] > 0
    BY <2>4 DEF IInv, UsersCounted
  <2>7. QED
    BY <2>1, <2>2, <2>3, <2>5, <2>6
<1>1. TypeOK'
  BY <1>0 DEF IInv, TypeOK, Lives, Points, ExitPoints, OpeningOK
<1>2. OpeningOK'
  BY DEF IInv, TypeOK, OpeningOK
<1>3. LiveIsSession'
  BY DEF IInv, TypeOK, OpeningOK, LiveIsSession, ExitOK
<1>4. UsersCounted'
  <2>1. \A c \in Contexts : refs'[c] = Cardinality(Users(c)')
    BY <1>0 DEF IInv, TypeOK, UsersCounted
  <2>2. \A c \in Contexts : Users(c)' # {} => client'[c] = "live"
    BY <1>0 DEF IInv, UsersCounted
  <2>3. QED
    BY <2>1, <2>2 DEF UsersCounted
<1>5. ExitOK'
  BY DEF IInv, TypeOK, OpeningOK, LiveIsSession, ExitOK
<1>6. QED
  BY <1>1, <1>2, <1>3, <1>4, <1>5 DEF IInv

LEMMA ExitIInv ==
  ASSUME IInv, UNCHANGED quiet, Exit
  PROVE  IInv'
<1> USE NullAssumption DEF Exit, lists, taState
<1>1. TypeOK'
  BY DEF IInv, TypeOK, Lives, Points, ExitPoints, OpeningOK
<1>2. OpeningOK'
  BY DEF IInv, TypeOK, OpeningOK
<1>3. LiveIsSession'
  BY DEF IInv, TypeOK, OpeningOK, LiveIsSession, ExitOK
<1>4. UsersCounted'
  <2>1. \A c \in Contexts : Users(c)' = Users(c)
    BY DEF Users
  <2>2. QED
    BY <2>1, SameUsers DEF IInv, TypeOK
<1>5. ExitOK'
  BY DEF IInv, TypeOK, OpeningOK, LiveIsSession, ExitOK
<1>6. QED
  BY <1>1, <1>2, <1>3, <1>4, <1>5 DEF IInv

LEMMA client_shutdownIInv ==
  ASSUME IInv, UNCHANGED quiet, client_shutdown
  PROVE  IInv'
<1> USE NullAssumption DEF client_shutdown, RunHandler, lists, taState
<1>1. TypeOK'
  <2>1. ListOK'
    BY RunHandlerList DEF IInv, TypeOK, ListOK
  <2>2. QED
    BY <2>1 DEF IInv, TypeOK, ListOK, Lives, Points, ExitPoints
<1>2. OpeningOK'
  BY DEF IInv, TypeOK, OpeningOK
<1>3. LiveIsSession'
  BY DEF IInv, TypeOK, OpeningOK, LiveIsSession, ExitOK
<1>4. UsersCounted'
  <2>1. \A c \in Contexts : Users(c)' = Users(c)
    BY DEF Users
  <2>2. QED
    BY <2>1, SameUsers DEF IInv, TypeOK
<1>5. ExitOK'
  BY DEF IInv, TypeOK, OpeningOK, LiveIsSession, ExitOK
<1>6. QED
  BY <1>1, <1>2, <1>3, <1>4, <1>5 DEF IInv

LEMMA ta_sa_closeIInv ==
  ASSUME IInv, UNCHANGED quiet, ta_sa_close
  PROVE  IInv'
<1> USE NullAssumption DEF ta_sa_close, lists, taState
<1>1. TypeOK'
  BY DEF IInv, TypeOK, Lives, Points, ExitPoints, OpeningOK
<1>2. OpeningOK'
  BY DEF IInv, TypeOK, OpeningOK
<1>3. LiveIsSession'
  BY DEF IInv, TypeOK, OpeningOK, LiveIsSession, ExitOK
<1>4. UsersCounted'
  <2>1. \A c \in Contexts : Users(c)' = Users(c)
    BY DEF Users
  <2>2. ~global_shutdown => Users(session) = {}
    <3>1. session \in Contexts
      BY DEF IInv, TypeOK, ExitOK
    <3>2. ~global_shutdown => Cardinality(Users(session)) = 0
      BY <3>1 DEF IInv, UsersCounted
    <3>3. QED
      BY <3>2, CountThreads DEF Users
  <2>3. QED
    BY <2>1, <2>2, SameUsers DEF IInv, TypeOK
<1>5. ExitOK'
  BY DEF IInv, TypeOK, OpeningOK, LiveIsSession, ExitOK
<1>6. QED
  BY <1>1, <1>2, <1>3, <1>4, <1>5 DEF IInv

LEMMA FreeContextIInv ==
  ASSUME IInv, UNCHANGED quiet, FreeContext
  PROVE  IInv'
<1> USE NullAssumption DEF FreeContext, lists, taState
<1>1. TypeOK'
  BY DEF IInv, TypeOK, Lives, Points, ExitPoints, OpeningOK
<1>2. OpeningOK'
  BY DEF IInv, TypeOK, OpeningOK
<1>3. LiveIsSession'
  BY DEF IInv, TypeOK, OpeningOK, LiveIsSession, ExitOK
<1>4. UsersCounted'
  <2>1. \A c \in Contexts : Users(c)' = Users(c)
    BY DEF Users
  <2>2. QED
    BY <2>1, SameUsers DEF IInv, TypeOK
<1>5. ExitOK'
  BY DEF IInv, TypeOK, OpeningOK, LiveIsSession, ExitOK
<1>6. QED
  BY <1>1, <1>2, <1>3, <1>4, <1>5 DEF IInv

LEMMA client_store_global_shutdownIInv ==
  ASSUME IInv, UNCHANGED quiet, client_store_global_shutdown
  PROVE  IInv'
<1> USE NullAssumption DEF client_store_global_shutdown, RunHandler, lists, taState
<1>1. TypeOK'
  <2>1. ListOK'
    BY RunHandlerList DEF IInv, TypeOK, ListOK
  <2>2. QED
    BY <2>1 DEF IInv, TypeOK, ListOK, Lives, Points, ExitPoints
<1>2. OpeningOK'
  BY DEF IInv, TypeOK, OpeningOK
<1>3. LiveIsSession'
  BY DEF IInv, TypeOK, OpeningOK, LiveIsSession, ExitOK
<1>4. UsersCounted'
  <2>1. \A c \in Contexts : Users(c)' = Users(c)
    BY DEF Users
  <2>2. QED
    BY <2>1, SameUsers DEF IInv, TypeOK
<1>5. ExitOK'
  BY TaHandlerRuns DEF IInv, TypeOK, ListOK, LiveIsSession, ExitOK
<1>6. QED
  BY <1>1, <1>2, <1>3, <1>4, <1>5 DEF IInv

LEMMA ShutdownStoreIInv ==
  ASSUME IInv, UNCHANGED quiet, ShutdownStore
  PROVE  IInv'
<1> USE NullAssumption DEF ShutdownStore, lists, taState
<1>1. TypeOK'
  BY DEF IInv, TypeOK, Lives, Points, ExitPoints, OpeningOK
<1>2. OpeningOK'
  BY DEF IInv, TypeOK, OpeningOK
<1>3. LiveIsSession'
  BY DEF IInv, TypeOK, OpeningOK, LiveIsSession, ExitOK
<1>4. UsersCounted'
  <2>1. \A c \in Contexts : Users(c)' = Users(c)
    BY DEF Users
  <2>2. \A c \in Contexts : Users(c) = {}
    BY CountThreads DEF IInv, UsersCounted, Users
  <2>3. QED
    BY <2>1, <2>2, SameUsers DEF IInv
<1>5. ExitOK'
  BY DEF IInv, TypeOK, OpeningOK, LiveIsSession, ExitOK
<1>6. QED
  BY <1>1, <1>2, <1>3, <1>4, <1>5 DEF IInv

LEMMA SetFlagIInv ==
  ASSUME IInv, UNCHANGED quiet, SetFlag
  PROVE  IInv'
<1> USE NullAssumption DEF SetFlag, lists, taState
<1>1. TypeOK'
  BY DEF IInv, TypeOK, Lives, Points, ExitPoints, OpeningOK
<1>2. OpeningOK'
  BY DEF IInv, TypeOK, OpeningOK
<1>3. LiveIsSession'
  BY DEF IInv, TypeOK, OpeningOK, LiveIsSession, ExitOK
<1>4. UsersCounted'
  <2>1. \A c \in Contexts : Users(c)' = Users(c)
    BY DEF Users
  <2>2. QED
    BY <2>1, SameUsers DEF IInv, TypeOK
<1>5. ExitOK'
  BY DEF IInv, TypeOK, OpeningOK, LiveIsSession, ExitOK
<1>6. QED
  BY <1>1, <1>2, <1>3, <1>4, <1>5 DEF IInv

LEMMA ExitedIInv ==
  ASSUME IInv, UNCHANGED quiet, Exited
  PROVE  IInv'
<1> USE NullAssumption DEF Exited, lists, taState
<1>1. TypeOK'
  BY DEF IInv, TypeOK, Lives, Points, ExitPoints, OpeningOK
<1>2. OpeningOK'
  BY DEF IInv, TypeOK, OpeningOK
<1>3. LiveIsSession'
  BY DEF IInv, TypeOK, OpeningOK, LiveIsSession, ExitOK
<1>4. UsersCounted'
  <2>1. \A c \in Contexts : Users(c)' = Users(c)
    BY DEF Users
  <2>2. QED
    BY <2>1, SameUsers DEF IInv, TypeOK
<1>5. ExitOK'
  BY DEF IInv, TypeOK, OpeningOK, LiveIsSession, ExitOK
<1>6. QED
  BY <1>1, <1>2, <1>3, <1>4, <1>5 DEF IInv

-----------------------------------------------------------------------------
LEMMA NextIInv == IInv /\ [Next]_vars => IInv'
<1> SUFFICES ASSUME IInv, [Next]_vars PROVE IInv'
  OBVIOUS
<1>1. CASE UNCHANGED vars
  <2>1. TypeOK'
    BY <1>1 DEF vars, lists, taState, IInv, TypeOK
  <2>2. OpeningOK' /\ LiveIsSession' /\ ExitOK'
    BY <1>1 DEF vars, lists, taState, IInv, OpeningOK, LiveIsSession, ExitOK
  <2>3. UsersCounted'
    <3>1. \A c \in Contexts : Users(c)' = Users(c)
      BY <1>1 DEF vars, Users
    <3>2. refs' = refs /\ client' = client
      BY <1>1 DEF vars, taState
    <3>3. QED
      BY <3>1, <3>2, SameUsers DEF IInv
  <2>4. QED
    BY <2>1, <2>2, <2>3 DEF IInv
<1>2. ASSUME Next PROVE IInv'
  <2>1. UNCHANGED quiet /\ Running
    BY <1>2 DEF Next
  <2>2. CASE \E t \in Threads : client_session(t)
    BY <2>1, <2>2, client_sessionIInv
  <2>3. ASSUME NEW t \in Threads, OpenStep(t) PROVE IInv'
    BY <2>1, <2>3, LockMutexIInv, RecheckIInv, OpenFailsIInv, OpenIInv, OpenFirstIInv, CreateStoreIInv, AddIInv, AddFailsIInv, AddCrashesIInv, RegisterIInv, UnlockMutexIInv, ReturnSessionIInv
    DEF OpenStep
  <2>4. ASSUME NEW t \in Threads, CommandStep(t) PROVE IInv'
    BY <2>1, <2>4, InvokeIInv, InvokeCrashesIInv, client_store_acquireIInv, AcquireFailsIInv, AcquireCrashesIInv, client_store_releaseIInv
    DEF CommandStep
  <2>5. CASE Exit
    BY <2>1, <2>5, ExitIInv
  <2>6. CASE ExitStep
    BY <2>1, <2>6, client_shutdownIInv, ta_sa_closeIInv, FreeContextIInv, client_store_global_shutdownIInv, ShutdownStoreIInv, SetFlagIInv, ExitedIInv
    DEF ExitStep
  <2>7. QED
    BY <1>2, <2>2, <2>3, <2>4, <2>5, <2>6 DEF Next
<1>3. QED
  BY <1>1, <1>2

(* IInv is an inductive invariant.                                           *)
THEOREM Invariance == Spec => []IInv
<1>1. QED
  BY InitIInv, NextIInv, PTL DEF Spec

(* Double-checked locking opens one session: a session is opened under the    *)
(* mutex when there is none (OpeningOK), and what is live is the session      *)
(* (LiveIsSession), although the exiting thread resets it without the mutex.  *)
THEOREM One == Spec => []OneSession
<1>1. ASSUME IInv PROVE OneSession
  <2>1. {c \in Contexts : context[c] = "live"} \subseteq {session}
    BY <1>1 DEF IInv, LiveIsSession
  <2>2. IsFiniteSet({session}) /\ Cardinality({session}) = 1
    BY FS_Singleton
  <2>3. Cardinality({c \in Contexts : context[c] = "live"}) <= 1
    BY <2>1, <2>2, FS_Subset
  <2>4. QED
    BY <2>3 DEF OneSession
<1>2. QED
  BY Invariance, <1>1, PTL

(* A command keeps its client until it is done: ta_sa_close and the shutdown  *)
(* of the client store wait for the references, which are counted exactly     *)
(* (UsersCounted).                                                            *)
THEOREM ClientKept == Spec => []ClientOutlivesCommand
<1>1. ASSUME IInv, NEW t \in Threads, pc[t] = "work"
      PROVE  client[my[t]] = "live" /\ store # "freed"
  <2>1. my[t] \in Contexts /\ t \in Users(my[t])
    BY <1>1 DEF IInv, OpeningOK, Users
  <2>2. client[my[t]] = "live"
    BY <1>1, <2>1 DEF IInv, UsersCounted
  <2>3. QED
    BY <1>1, <2>1, <2>2 DEF IInv, ExitOK
<1>2. IInv => ClientOutlivesCommand
  BY <1>1 DEF ClientOutlivesCommand
<1>3. QED
  BY Invariance, <1>2, PTL

-----------------------------------------------------------------------------
(* With the calls ended before the exit, QuietInv is inductive under IInv.    *)

LEMMA InitQuiet == Init => QuietInv
BY DEF Init, QuietInv, RunningOK, ExitingOK

(* The lists of handlers that there are *)
LEMMA Lists ==
  /\ <<>> # <<"ta">> /\ <<>> # <<"ta", "client">> /\ <<"ta">> # <<"ta", "client">>
  /\ Append(<<"ta">>, "client") = <<"ta", "client">>
  /\ SubSeq(<<"ta", "client">>, 1, Len(<<"ta", "client">>) - 1) = <<"ta">>
<1>1. <<>> # <<"ta">> /\ <<>> # <<"ta", "client">> /\ <<"ta">> # <<"ta", "client">>
  OBVIOUS
<1>2. \A i, h \in {"ta", "client"} : Append(<<i>>, h) = <<i, h>>
  BY AppendToOne
<1>3. \A i, h \in {"ta", "client"} : SubSeq(<<i, h>>, 1, Len(<<i, h>>) - 1) = <<i>>
  BY FirstOfTwo
<1>4. QED
  BY <1>1, <1>2, <1>3

(* While an application that is quiet has a call, it runs.                    *)
LEMMA CallsRun ==
  ASSUME QuietInv, quiet, NEW t \in Threads, pc[t] # "idle"
  PROVE  exit = "running"
BY DEF QuietInv, ExitingOK

LEMMA client_sessionQuiet ==
  ASSUME IInv, QuietInv, UNCHANGED quiet, NEW t \in Threads, client_session(t)
  PROVE  QuietInv'
<1> USE NullAssumption DEF client_session, Goto, lists, taState
<1> SUFFICES ASSUME quiet PROVE RunningOK' /\ ExitingOK'
  BY DEF QuietInv
<1>1. exit = "running" /\ exit' = "running"
  BY CallsRun
<1>2. RunningOK
  BY <1>1 DEF QuietInv
<1>3. RunningOK'
  BY <1>1, <1>2 DEF IInv, TypeOK, OpeningOK, LiveIsSession, UsersCounted, ExitOK, RunningOK
<1>4. ExitingOK'
  BY <1>1 DEF ExitingOK
<1>5. QED
  BY <1>3, <1>4

LEMMA LockMutexQuiet ==
  ASSUME IInv, QuietInv, UNCHANGED quiet, NEW t \in Threads, LockMutex(t)
  PROVE  QuietInv'
<1> USE NullAssumption DEF LockMutex, Goto, lists, taState
<1> SUFFICES ASSUME quiet PROVE RunningOK' /\ ExitingOK'
  BY DEF QuietInv
<1>1. exit = "running" /\ exit' = "running"
  BY CallsRun
<1>2. RunningOK
  BY <1>1 DEF QuietInv
<1>3. RunningOK'
  BY <1>1, <1>2 DEF IInv, TypeOK, OpeningOK, LiveIsSession, UsersCounted, ExitOK, RunningOK
<1>4. ExitingOK'
  BY <1>1 DEF ExitingOK
<1>5. QED
  BY <1>3, <1>4

LEMMA RecheckQuiet ==
  ASSUME IInv, QuietInv, UNCHANGED quiet, NEW t \in Threads, Recheck(t)
  PROVE  QuietInv'
<1> USE NullAssumption DEF Recheck, Goto, lists, taState
<1> SUFFICES ASSUME quiet PROVE RunningOK' /\ ExitingOK'
  BY DEF QuietInv
<1>1. exit = "running" /\ exit' = "running"
  BY CallsRun
<1>2. RunningOK
  BY <1>1 DEF QuietInv
<1>3. RunningOK'
  BY <1>1, <1>2 DEF IInv, TypeOK, OpeningOK, LiveIsSession, UsersCounted, ExitOK, RunningOK
<1>4. ExitingOK'
  BY <1>1 DEF ExitingOK
<1>5. QED
  BY <1>3, <1>4

LEMMA OpenFailsQuiet ==
  ASSUME IInv, QuietInv, UNCHANGED quiet, NEW t \in Threads, OpenFails(t)
  PROVE  QuietInv'
<1> USE NullAssumption DEF OpenFails, Goto, lists, taState
<1> SUFFICES ASSUME quiet PROVE RunningOK' /\ ExitingOK'
  BY DEF QuietInv
<1>1. exit = "running" /\ exit' = "running"
  BY CallsRun
<1>2. RunningOK
  BY <1>1 DEF QuietInv
<1>3. RunningOK'
  BY <1>1, <1>2 DEF IInv, TypeOK, OpeningOK, LiveIsSession, UsersCounted, ExitOK, RunningOK
<1>4. ExitingOK'
  BY <1>1 DEF ExitingOK
<1>5. QED
  BY <1>3, <1>4

LEMMA OpenQuiet ==
  ASSUME IInv, QuietInv, UNCHANGED quiet, NEW t \in Threads, Open(t)
  PROVE  QuietInv'
<1> USE NullAssumption DEF Open, Goto, lists, taState
<1> SUFFICES ASSUME quiet PROVE RunningOK' /\ ExitingOK'
  BY DEF QuietInv
<1>1. exit = "running" /\ exit' = "running"
  BY CallsRun
<1>2. RunningOK
  BY <1>1 DEF QuietInv
<1>3. RunningOK'
  BY <1>1, <1>2 DEF IInv, TypeOK, OpeningOK, LiveIsSession, UsersCounted, ExitOK, RunningOK
<1>4. ExitingOK'
  BY <1>1 DEF ExitingOK
<1>5. QED
  BY <1>3, <1>4

LEMMA OpenFirstQuiet ==
  ASSUME IInv, QuietInv, UNCHANGED quiet, NEW t \in Threads, OpenFirst(t)
  PROVE  QuietInv'
<1> USE NullAssumption DEF OpenFirst, Goto, Atexit, lists, taState
<1> SUFFICES ASSUME quiet PROVE RunningOK' /\ ExitingOK'
  BY DEF QuietInv
<1>1. exit = "running" /\ exit' = "running"
  BY CallsRun
<1>2. RunningOK
  BY <1>1 DEF QuietInv
<1>6. handlers' = <<"ta">> /\ registered' = {"ta"}
  <2>1. CASE handlers = <<>>
    <3>1. registered = {}
      BY <1>1, <1>2, <2>1, Lists DEF RunningOK
    <3>2. QED
      BY <2>1, <3>1
  <2>2. CASE handlers = <<"ta">>
    <3>1. registered = {"ta"}
      BY <1>1, <1>2, <2>2, Lists DEF RunningOK
    <3>2. QED
      BY <2>2, <3>1
  <2>3. QED
    BY <1>1, <1>2, <2>1, <2>2 DEF RunningOK
<1>3. RunningOK'
  BY <1>1, <1>2, <1>6, Lists DEF IInv, TypeOK, OpeningOK, LiveIsSession, UsersCounted, ExitOK, RunningOK
<1>4. ExitingOK'
  BY <1>1 DEF ExitingOK
<1>5. QED
  BY <1>3, <1>4

LEMMA CreateStoreQuiet ==
  ASSUME IInv, QuietInv, UNCHANGED quiet, NEW t \in Threads, CreateStore(t)
  PROVE  QuietInv'
<1> USE NullAssumption DEF CreateStore, Goto, lists, taState
<1> SUFFICES ASSUME quiet PROVE RunningOK' /\ ExitingOK'
  BY DEF QuietInv
<1>1. exit = "running" /\ exit' = "running"
  BY CallsRun
<1>2. RunningOK
  BY <1>1 DEF QuietInv
<1>3. RunningOK'
  BY <1>1, <1>2 DEF IInv, TypeOK, OpeningOK, LiveIsSession, UsersCounted, ExitOK, RunningOK
<1>4. ExitingOK'
  BY <1>1 DEF ExitingOK
<1>5. QED
  BY <1>3, <1>4

LEMMA AddQuiet ==
  ASSUME IInv, QuietInv, UNCHANGED quiet, NEW t \in Threads, NEW s \in Contexts, Add(t, s)
  PROVE  QuietInv'
<1> USE NullAssumption DEF Add, Goto, lists, taState
<1> SUFFICES ASSUME quiet PROVE RunningOK' /\ ExitingOK'
  BY DEF QuietInv
<1>1. exit = "running" /\ exit' = "running"
  BY CallsRun
<1>2. RunningOK
  BY <1>1 DEF QuietInv
<1>3. RunningOK'
  BY <1>1, <1>2 DEF IInv, TypeOK, OpeningOK, LiveIsSession, UsersCounted, ExitOK, RunningOK
<1>4. ExitingOK'
  BY <1>1 DEF ExitingOK
<1>5. QED
  BY <1>3, <1>4

LEMMA AddFailsQuiet ==
  ASSUME IInv, QuietInv, UNCHANGED quiet, NEW t \in Threads, AddFails(t)
  PROVE  QuietInv'
<1> USE NullAssumption DEF AddFails, Goto, lists, taState
<1> SUFFICES ASSUME quiet PROVE RunningOK' /\ ExitingOK'
  BY DEF QuietInv
<1>1. exit = "running" /\ exit' = "running"
  BY CallsRun
<1>2. RunningOK
  BY <1>1 DEF QuietInv
<1>3. RunningOK'
  BY <1>1, <1>2 DEF IInv, TypeOK, OpeningOK, LiveIsSession, UsersCounted, ExitOK, RunningOK
<1>4. ExitingOK'
  BY <1>1 DEF ExitingOK
<1>5. QED
  BY <1>3, <1>4

LEMMA AddCrashesQuiet ==
  ASSUME IInv, QuietInv, UNCHANGED quiet, NEW t \in Threads, AddCrashes(t)
  PROVE  QuietInv'
<1> USE NullAssumption DEF AddCrashes, Goto, lists, taState
<1> SUFFICES ASSUME quiet PROVE RunningOK' /\ ExitingOK'
  BY DEF QuietInv
<1>1. exit = "running" /\ exit' = "running"
  BY CallsRun
<1>2. RunningOK
  BY <1>1 DEF QuietInv
<1>3. RunningOK'
  BY <1>1, <1>2 DEF IInv, TypeOK, OpeningOK, LiveIsSession, UsersCounted, ExitOK, RunningOK
<1>4. ExitingOK'
  BY <1>1 DEF ExitingOK
<1>5. QED
  BY <1>3, <1>4

LEMMA RegisterQuiet ==
  ASSUME IInv, QuietInv, UNCHANGED quiet, NEW t \in Threads, Register(t)
  PROVE  QuietInv'
<1> USE NullAssumption DEF Register, Goto, Atexit, lists, taState
<1> SUFFICES ASSUME quiet PROVE RunningOK' /\ ExitingOK'
  BY DEF QuietInv
<1>1. exit = "running" /\ exit' = "running"
  BY CallsRun
<1>2. RunningOK
  BY <1>1 DEF QuietInv
<1>6. handlers \in {<<"ta">>, <<"ta", "client">>} /\ store = "open"
  BY <1>1, <1>2 DEF RunningOK
<1>7. handlers' = <<"ta", "client">> /\ registered' = {"ta", "client"}
  <2>1. CASE handlers = <<"ta">>
    <3>1. registered = {"ta"}
      BY <1>1, <1>2, <2>1, Lists DEF RunningOK
    <3>2. QED
      BY <2>1, <3>1, Lists
  <2>2. CASE handlers = <<"ta", "client">>
    <3>1. registered = {"ta", "client"}
      BY <1>1, <1>2, <2>2, Lists DEF RunningOK
    <3>2. QED
      BY <2>2, <3>1
  <2>3. QED
    BY <1>6, <2>1, <2>2
<1>8. \A u \in Threads : pc'[u] # "register" /\ (pc'[u] = "crashed" => pc[u] = "crashed")
  BY DEF IInv, TypeOK, OpeningOK
<1>3. RunningOK'
  BY <1>1, <1>2, <1>6, <1>7, <1>8, Lists DEF IInv, TypeOK, OpeningOK, LiveIsSession, UsersCounted, ExitOK, RunningOK
<1>4. ExitingOK'
  BY <1>1 DEF ExitingOK
<1>5. QED
  BY <1>3, <1>4

LEMMA UnlockMutexQuiet ==
  ASSUME IInv, QuietInv, UNCHANGED quiet, NEW t \in Threads, UnlockMutex(t)
  PROVE  QuietInv'
<1> USE NullAssumption DEF UnlockMutex, Goto, lists, taState
<1> SUFFICES ASSUME quiet PROVE RunningOK' /\ ExitingOK'
  BY DEF QuietInv
<1>1. exit = "running" /\ exit' = "running"
  BY CallsRun
<1>2. RunningOK
  BY <1>1 DEF QuietInv
<1>3. RunningOK'
  BY <1>1, <1>2 DEF IInv, TypeOK, OpeningOK, LiveIsSession, UsersCounted, ExitOK, RunningOK
<1>4. ExitingOK'
  BY <1>1 DEF ExitingOK
<1>5. QED
  BY <1>3, <1>4

LEMMA ReturnSessionQuiet ==
  ASSUME IInv, QuietInv, UNCHANGED quiet, NEW t \in Threads, ReturnSession(t)
  PROVE  QuietInv'
<1> USE NullAssumption DEF ReturnSession, Goto, lists, taState
<1> SUFFICES ASSUME quiet PROVE RunningOK' /\ ExitingOK'
  BY DEF QuietInv
<1>1. exit = "running" /\ exit' = "running"
  BY CallsRun
<1>2. RunningOK
  BY <1>1 DEF QuietInv
<1>3. RunningOK'
  BY <1>1, <1>2 DEF IInv, TypeOK, OpeningOK, LiveIsSession, UsersCounted, ExitOK, RunningOK
<1>4. ExitingOK'
  BY <1>1 DEF ExitingOK
<1>5. QED
  BY <1>3, <1>4

LEMMA InvokeQuiet ==
  ASSUME IInv, QuietInv, UNCHANGED quiet, NEW t \in Threads, Invoke(t)
  PROVE  QuietInv'
<1> USE NullAssumption DEF Invoke, Goto, lists, taState
<1> SUFFICES ASSUME quiet PROVE RunningOK' /\ ExitingOK'
  BY DEF QuietInv
<1>1. exit = "running" /\ exit' = "running"
  BY CallsRun
<1>2. RunningOK
  BY <1>1 DEF QuietInv
<1>3. RunningOK'
  BY <1>1, <1>2 DEF IInv, TypeOK, OpeningOK, LiveIsSession, UsersCounted, ExitOK, RunningOK
<1>4. ExitingOK'
  BY <1>1 DEF ExitingOK
<1>5. QED
  BY <1>3, <1>4

LEMMA InvokeCrashesQuiet ==
  ASSUME IInv, QuietInv, UNCHANGED quiet, NEW t \in Threads, InvokeCrashes(t)
  PROVE  QuietInv'
<1> USE NullAssumption DEF InvokeCrashes, Goto, lists, taState
<1> SUFFICES ASSUME quiet PROVE RunningOK' /\ ExitingOK'
  BY DEF QuietInv
<1>1. exit = "running" /\ exit' = "running"
  BY CallsRun
<1>2. RunningOK
  BY <1>1 DEF QuietInv
<1>3. RunningOK'
  BY <1>1, <1>2 DEF IInv, TypeOK, OpeningOK, LiveIsSession, UsersCounted, ExitOK, RunningOK
<1>4. ExitingOK'
  BY <1>1 DEF ExitingOK
<1>5. QED
  BY <1>3, <1>4

LEMMA client_store_acquireQuiet ==
  ASSUME IInv, QuietInv, UNCHANGED quiet, NEW t \in Threads, client_store_acquire(t)
  PROVE  QuietInv'
<1> USE NullAssumption DEF client_store_acquire, Goto, lists, taState
<1> SUFFICES ASSUME quiet PROVE RunningOK' /\ ExitingOK'
  BY DEF QuietInv
<1>1. exit = "running" /\ exit' = "running"
  BY CallsRun
<1>2. RunningOK
  BY <1>1 DEF QuietInv
<1>3. RunningOK'
  BY <1>1, <1>2 DEF IInv, TypeOK, OpeningOK, LiveIsSession, UsersCounted, ExitOK, RunningOK
<1>4. ExitingOK'
  BY <1>1 DEF ExitingOK
<1>5. QED
  BY <1>3, <1>4

LEMMA AcquireFailsQuiet ==
  ASSUME IInv, QuietInv, UNCHANGED quiet, NEW t \in Threads, AcquireFails(t)
  PROVE  QuietInv'
<1> USE NullAssumption DEF AcquireFails, Goto, EndCall, lists, taState
<1> SUFFICES ASSUME quiet PROVE RunningOK' /\ ExitingOK'
  BY DEF QuietInv
<1>1. exit = "running" /\ exit' = "running"
  BY CallsRun
<1>2. RunningOK
  BY <1>1 DEF QuietInv
<1>3. RunningOK'
  BY <1>1, <1>2 DEF IInv, TypeOK, OpeningOK, LiveIsSession, UsersCounted, ExitOK, RunningOK
<1>4. ExitingOK'
  BY <1>1 DEF ExitingOK
<1>5. QED
  BY <1>3, <1>4

LEMMA AcquireCrashesQuiet ==
  ASSUME IInv, QuietInv, UNCHANGED quiet, NEW t \in Threads, AcquireCrashes(t)
  PROVE  QuietInv'
<1> USE NullAssumption DEF AcquireCrashes, Goto, lists, taState
<1> SUFFICES ASSUME quiet PROVE RunningOK' /\ ExitingOK'
  BY DEF QuietInv
<1>1. exit = "running" /\ exit' = "running"
  BY CallsRun
<1>2. RunningOK
  BY <1>1 DEF QuietInv
<1>3. RunningOK'
  BY <1>1, <1>2 DEF IInv, TypeOK, OpeningOK, LiveIsSession, UsersCounted, ExitOK, RunningOK
<1>4. ExitingOK'
  BY <1>1 DEF ExitingOK
<1>5. QED
  BY <1>3, <1>4

LEMMA client_store_releaseQuiet ==
  ASSUME IInv, QuietInv, UNCHANGED quiet, NEW t \in Threads, client_store_release(t)
  PROVE  QuietInv'
<1> USE NullAssumption DEF client_store_release, Goto, EndCall, lists, taState
<1> SUFFICES ASSUME quiet PROVE RunningOK' /\ ExitingOK'
  BY DEF QuietInv
<1>1. exit = "running" /\ exit' = "running"
  BY CallsRun
<1>2. RunningOK
  BY <1>1 DEF QuietInv
<1>3. RunningOK'
  BY <1>1, <1>2 DEF IInv, TypeOK, OpeningOK, LiveIsSession, UsersCounted, ExitOK, RunningOK
<1>4. ExitingOK'
  BY <1>1 DEF ExitingOK
<1>5. QED
  BY <1>3, <1>4

LEMMA ExitQuiet ==
  ASSUME IInv, QuietInv, UNCHANGED quiet, Exit
  PROVE  QuietInv'
<1> USE NullAssumption DEF Exit, lists, taState
<1> SUFFICES ASSUME quiet PROVE RunningOK' /\ ExitingOK'
  BY DEF QuietInv
<1>1. RunningOK /\ ExitingOK
  BY DEF QuietInv
<1>2. RunningOK'
  BY DEF RunningOK
<1>3. ExitingOK'
  BY <1>1 DEF IInv, TypeOK, OpeningOK, LiveIsSession, UsersCounted, ExitOK, RunningOK, ExitingOK
<1>4. QED
  BY <1>2, <1>3

LEMMA client_shutdownQuiet ==
  ASSUME IInv, QuietInv, UNCHANGED quiet, client_shutdown
  PROVE  QuietInv'
<1> USE NullAssumption DEF client_shutdown, lists, taState
<1> SUFFICES ASSUME quiet PROVE RunningOK' /\ ExitingOK'
  BY DEF QuietInv
<1>1. RunningOK /\ ExitingOK
  BY DEF QuietInv
<1>2. RunningOK'
  BY DEF RunningOK
<1>5. handlers = <<"ta", "client">> /\ handlers' = <<"ta">>
  <2>1. handlers \in {<<"ta">>, <<"ta", "client">>} /\ handlers[Len(handlers)] = "client"
    BY <1>1 DEF RunHandler, ExitingOK
  <2>2. handlers # <<"ta">>
    BY <2>1
  <2>3. SubSeq(<<"ta", "client">>, 1, Len(<<"ta", "client">>) - 1) = <<"ta">>
    BY Lists
  <2>4. QED
    BY <2>1, <2>2, <2>3 DEF RunHandler
<1>6. exit = "handlers"
  BY DEF RunHandler
<1>3. ExitingOK'
  BY <1>1, <1>5, <1>6 DEF IInv, TypeOK, OpeningOK, LiveIsSession, UsersCounted, ExitOK, RunningOK, ExitingOK
<1>4. QED
  BY <1>2, <1>3

LEMMA ta_sa_closeQuiet ==
  ASSUME IInv, QuietInv, UNCHANGED quiet, ta_sa_close
  PROVE  QuietInv'
<1> USE NullAssumption DEF ta_sa_close, lists, taState
<1> SUFFICES ASSUME quiet PROVE RunningOK' /\ ExitingOK'
  BY DEF QuietInv
<1>1. RunningOK /\ ExitingOK
  BY DEF QuietInv
<1>2. RunningOK'
  BY DEF RunningOK
<1>3. ExitingOK'
  BY <1>1 DEF IInv, TypeOK, OpeningOK, LiveIsSession, UsersCounted, ExitOK, RunningOK, ExitingOK
<1>4. QED
  BY <1>2, <1>3

LEMMA FreeContextQuiet ==
  ASSUME IInv, QuietInv, UNCHANGED quiet, FreeContext
  PROVE  QuietInv'
<1> USE NullAssumption DEF FreeContext, lists, taState
<1> SUFFICES ASSUME quiet PROVE RunningOK' /\ ExitingOK'
  BY DEF QuietInv
<1>1. RunningOK /\ ExitingOK
  BY DEF QuietInv
<1>2. RunningOK'
  BY DEF RunningOK
<1>3. ExitingOK'
  BY <1>1, Lists DEF IInv, TypeOK, OpeningOK, LiveIsSession, UsersCounted, ExitOK, RunningOK, ExitingOK
<1>4. QED
  BY <1>2, <1>3

LEMMA client_store_global_shutdownQuiet ==
  ASSUME IInv, QuietInv, UNCHANGED quiet, client_store_global_shutdown
  PROVE  QuietInv'
<1> USE NullAssumption DEF client_store_global_shutdown, lists, taState
<1> SUFFICES ASSUME quiet PROVE RunningOK' /\ ExitingOK'
  BY DEF QuietInv
<1>1. RunningOK /\ ExitingOK
  BY DEF QuietInv
<1>2. RunningOK'
  BY DEF RunningOK
<1>5. handlers = <<"ta">> /\ handlers' = <<>>
  <2>1. handlers \in {<<"ta">>, <<"ta", "client">>} /\ handlers[Len(handlers)] = "ta"
    BY <1>1 DEF RunHandler, ExitingOK
  <2>2. handlers # <<"ta", "client">>
    BY <2>1
  <2>3. QED
    BY <2>1, <2>2 DEF RunHandler
<1>6. exit = "handlers"
  BY DEF RunHandler
<1>3. ExitingOK'
  BY <1>1, <1>5, <1>6 DEF IInv, TypeOK, OpeningOK, LiveIsSession, UsersCounted, ExitOK, RunningOK, ExitingOK
<1>4. QED
  BY <1>2, <1>3

LEMMA ShutdownStoreQuiet ==
  ASSUME IInv, QuietInv, UNCHANGED quiet, ShutdownStore
  PROVE  QuietInv'
<1> USE NullAssumption DEF ShutdownStore, lists, taState
<1> SUFFICES ASSUME quiet PROVE RunningOK' /\ ExitingOK'
  BY DEF QuietInv
<1>1. RunningOK /\ ExitingOK
  BY DEF QuietInv
<1>2. RunningOK'
  BY DEF RunningOK
<1>3. ExitingOK'
  BY <1>1 DEF IInv, TypeOK, OpeningOK, LiveIsSession, UsersCounted, ExitOK, RunningOK, ExitingOK
<1>4. QED
  BY <1>2, <1>3

LEMMA SetFlagQuiet ==
  ASSUME IInv, QuietInv, UNCHANGED quiet, SetFlag
  PROVE  QuietInv'
<1> USE NullAssumption DEF SetFlag, lists, taState
<1> SUFFICES ASSUME quiet PROVE RunningOK' /\ ExitingOK'
  BY DEF QuietInv
<1>1. RunningOK /\ ExitingOK
  BY DEF QuietInv
<1>2. RunningOK'
  BY DEF RunningOK
<1>3. ExitingOK'
  BY <1>1 DEF IInv, TypeOK, OpeningOK, LiveIsSession, UsersCounted, ExitOK, RunningOK, ExitingOK
<1>4. QED
  BY <1>2, <1>3

LEMMA ExitedQuiet ==
  ASSUME IInv, QuietInv, UNCHANGED quiet, Exited
  PROVE  QuietInv'
<1> USE NullAssumption DEF Exited, lists, taState
<1> SUFFICES ASSUME quiet PROVE RunningOK' /\ ExitingOK'
  BY DEF QuietInv
<1>1. RunningOK /\ ExitingOK
  BY DEF QuietInv
<1>2. RunningOK'
  BY DEF RunningOK
<1>3. ExitingOK'
  BY <1>1 DEF IInv, TypeOK, OpeningOK, LiveIsSession, UsersCounted, ExitOK, RunningOK, ExitingOK
<1>4. QED
  BY <1>2, <1>3

LEMMA NextQuiet == IInv /\ QuietInv /\ [Next]_vars => QuietInv'
<1> SUFFICES ASSUME IInv /\ QuietInv, [Next]_vars PROVE QuietInv'
  OBVIOUS
<1>1. CASE UNCHANGED vars
  BY <1>1 DEF vars, lists, taState, QuietInv, RunningOK, ExitingOK
<1>2. ASSUME Next PROVE QuietInv'
  <2>1. UNCHANGED quiet /\ Running
    BY <1>2 DEF Next
  <2>2. CASE \E t \in Threads : client_session(t)
    BY <2>1, <2>2, client_sessionQuiet
  <2>3. ASSUME NEW t \in Threads, OpenStep(t) PROVE QuietInv'
    BY <2>1, <2>3, LockMutexQuiet, RecheckQuiet, OpenFailsQuiet, OpenQuiet, OpenFirstQuiet, CreateStoreQuiet, AddQuiet, AddFailsQuiet, AddCrashesQuiet, RegisterQuiet, UnlockMutexQuiet, ReturnSessionQuiet
    DEF OpenStep
  <2>4. ASSUME NEW t \in Threads, CommandStep(t) PROVE QuietInv'
    BY <2>1, <2>4, InvokeQuiet, InvokeCrashesQuiet, client_store_acquireQuiet, AcquireFailsQuiet, AcquireCrashesQuiet, client_store_releaseQuiet
    DEF CommandStep
  <2>5. CASE Exit
    BY <2>1, <2>5, ExitQuiet
  <2>6. CASE ExitStep
    BY <2>1, <2>6, client_shutdownQuiet, ta_sa_closeQuiet, FreeContextQuiet, client_store_global_shutdownQuiet, ShutdownStoreQuiet, SetFlagQuiet, ExitedQuiet
    DEF ExitStep
  <2>7. QED
    BY <1>2, <2>2, <2>3, <2>4, <2>5, <2>6 DEF Next
<1>3. QED
  BY <1>1, <1>2

(* An application that ends its calls before it exits crashes nowhere and      *)
(* exits with no session, client or client store left: each handler finds what *)
(* it takes down, in the order of the atexit list.                             *)
THEOREM Clean == Spec => []CleanExit
<1>1. ASSUME IInv, QuietInv PROVE CleanExit
  <2> SUFFICES ASSUME quiet
               PROVE  /\ NoUseAfterFree
                      /\ exit = "exited" =>
                           /\ \A c \in Contexts : context[c] # "live" /\ client[c] # "live"
                           /\ store \in {"none", "freed"}
    BY DEF CleanExit
  <2>1. RunningOK /\ ExitingOK
    BY <1>1 DEF QuietInv
  <2>2. NoUseAfterFree
    BY <2>1 DEF RunningOK, ExitingOK, NoUseAfterFree
  <2>3. ASSUME exit = "exited"
        PROVE  /\ \A c \in Contexts : context[c] # "live" /\ client[c] # "live"
               /\ store \in {"none", "freed"}
    <3>1. session = NULL /\ store \in {"none", "freed"}
      BY <2>1, <2>3 DEF ExitingOK
    <3>2. QED
      BY <1>1, <3>1, NullAssumption DEF IInv, LiveIsSession
  <2>4. QED
    BY <2>2, <2>3
<1>2. QED
  BY Invariance, InitQuiet, NextQuiet, <1>1, PTL DEF Spec
=============================================================================
