----------------------- MODULE SessionContexts_proofs -----------------------
(***************************************************************************)
(* Proofs about SessionContexts, for any finite set of sessions, any uids  *)
(* and any number of requests.                                             *)
(***************************************************************************)
EXTENDS SessionContexts, TLAPS

\* The environment of a session is its own, and an unattached thread works on
\* an object of its own session.
EnvOwned == \A p \in Session : mEnv[p] # None => mEnv[p].of = p
ObjOwned ==
  \A c \in Session : mAttached[c] = None /\ obj[c] # None => obj[c].of = c

\* Past "install" there is an environment; what a thread is about to add is an
\* element, and the provider is added by the constructor only.
EnvStored ==
  \A c \in Session : pc[c] \in {"construct", "publish", "insert"} =>
    mEnv[obj[c].of] # None
AddsElement  == \A c \in Session : pc[c] = "add" => obj[c].uid \in Uid
ProviderLast ==
  \A c \in Session : ctor[c] # "done" => mCtx[c]["EnvProvider"] = None

\* The inductive invariant.
IInv ==
  /\ TypeOK /\ OneAnswer /\ Isolation
  /\ EnvOwned /\ ObjOwned /\ EnvStored /\ AddsElement /\ ProviderLast

-----------------------------------------------------------------------------
\* What the three kinds of objects belong to; none of them is null.
LEMMA ObjectFacts ==
  /\ \A c \in Session : Provider(c) \in Object /\ Provider(c).of = c
  /\ \A c, t \in Session : Env(c, t) \in Object /\ Env(c, t).of = c
  /\ \A e \in Object, u \in Uid :
        /\ Element(e, u) \in Object
        /\ Element(e, u).of = e.of /\ Element(e, u).uid = u
  /\ \A e \in Object : e # None /\ e.of \in Session
BY NullAssumption DEF Provider, Env, Element, Object

\* IInv holds initially.
LEMMA InitInvariant == Init => IInv
<1> SUFFICES ASSUME Init PROVE IInv
  OBVIOUS
<1> USE DEF Init
<1>1. TypeOK
  BY ConstantsAssumption DEF TypeOK, Message, NoMessage, Reply, Error, Locations,
     CreatingEnv
<1>2. OneAnswer /\ Isolation
  BY DEF OneAnswer, Isolation, Handle
<1>3. EnvOwned /\ ObjOwned /\ EnvStored /\ AddsElement /\ ProviderLast
  BY DEF EnvOwned, ObjOwned, EnvStored, AddsElement, ProviderLast, Handle
<1> QED
  BY <1>1, <1>2, <1>3 DEF IInv

\* A map of maps with one entry replaced.
LEMMA EntryReplaced ==
  ASSUME NEW V, NEW m \in [Session -> [Handle -> V]],
         NEW p \in Session, NEW k \in Handle, NEW x \in V
  PROVE  /\ [m EXCEPT ![p][k] = x] \in [Session -> [Handle -> V]]
         /\ \A d \in Session, h \in Handle :
              [m EXCEPT ![p][k] = x][d][h] = IF d = p /\ h = k THEN x ELSE m[d][h]
OBVIOUS

\* The one step that changes each part of the state, by thread c.
ThreadSteps(c) ==
  \/ StartThread(c) \/ AddProvider(c) \/ ThreadStep(c)

\* A step is one of a thread, or changes nothing but the life of the process.
LEMMA NextCases ==
  ASSUME [Next]_vars
  PROVE  \/ \E c \in Session : ThreadSteps(c)
         \/ UNCHANGED <<shared, local>>
BY DEF Next, Stopped, MapFault, vars, ThreadSteps

-----------------------------------------------------------------------------
(* Every step preserves the types: those of the shared state, those of the
   threads' own.                                                           *)

SharedOK ==
  /\ ctor \in [Session -> {"none", "running", "done"}]
  /\ mCtx \in [Session -> [Handle -> Object \cup {None}]]
  /\ mEnv \in [Session -> Object \cup {None}]
  /\ mAttached \in [Session -> Session \cup {None}]
  /\ built \subseteq Object
  /\ visited \subseteq Session
  /\ lost \subseteq Session

LocalOK ==
  /\ pc \in [Session -> Locations]
  /\ req \in [Session -> Message]
  /\ obj \in [Session -> Object \cup {None}]
  /\ \A c \in Session : pc[c] \in {"call", "add"} \cup CreatingEnv => obj[c] # None
  /\ res \in [Session -> Reply]
  /\ asked \in [Session -> 0 .. MaxRequests]
  /\ answered \in [Session -> Nat]
  /\ told \in [Session -> SUBSET Handle]

\* The type invariant in its two parts.
LEMMA TypeParts == TypeOK <=> up \in BOOLEAN /\ SharedOK /\ LocalOK
BY DEF TypeOK, SharedOK, LocalOK

\* A step leaves the process alive or ends it.
LEMMA UpStep == ASSUME TypeOK, [Next]_vars PROVE up' \in BOOLEAN
<1>1. up \in BOOLEAN
  BY DEF TypeOK
<1>2. CASE up' \in {up, FALSE}
  BY <1>1, <1>2
<1>3. ASSUME NEW c \in Session, NEW p \in Session, CallProvider(c, p)
      PROVE  up' = up
  BY <1>3 DEF CallProvider, GetEnv, GetId, BadCall, CheckEnv, InstallEnv, ConstructEnv,
     PublishEnv, AttachEnv
<1>4. ASSUME NEW c \in Session, ThreadStep(c)
      PROVE  up' \in {up, FALSE}
  BY <1>3, <1>4 DEF ThreadStep, Receive, Lookup, CallModel, CreateEnvThrows,
     InsertEnv, AddContext, Send
<1>5. ASSUME NEW c \in Session, StartThread(c) \/ AddProvider(c)
      PROVE  up' = up
  BY <1>5 DEF StartThread, AddProvider
<1> QED
  BY <1>2, <1>4, <1>5 DEF Next, Stopped, MapFault, vars

\* Every step of a thread preserves the types of the shared state.
LEMMA SharedStep ==
  ASSUME IInv, NEW c \in Session, ThreadSteps(c)
  PROVE  SharedOK'
<1>1. SharedOK
  BY TypeParts DEF IInv
<1>2. CASE UNCHANGED shared
  BY <1>1, <1>2 DEF shared, SharedOK
<1>3. CASE StartThread(c)
  BY <1>1, <1>3 DEF StartThread, SharedOK
<1>4. CASE AddProvider(c)
  <2>1. Provider(c) \in Object \cup {None} /\ "EnvProvider" \in Handle
    BY ObjectFacts DEF Handle
  <2>2. mCtx' = [mCtx EXCEPT ![c]["EnvProvider"] = Provider(c)]
    BY <1>4 DEF AddProvider
  <2>3. mCtx' \in [Session -> [Handle -> Object \cup {None}]]
    BY <1>1, <2>1, <2>2, EntryReplaced DEF SharedOK
  <2> QED
    BY <1>1, <1>4, <2>3 DEF AddProvider, SharedOK
<1>5. CASE AddContext(c)
  <2>1. CASE mCtx' = mCtx
    BY <1>1, <1>5, <2>1 DEF AddContext, SharedOK
  <2>2. CASE mCtx' # mCtx
    <3>1. mCtx' = [mCtx EXCEPT ![c][obj[c].uid] = obj[c]] /\ pc[c] = "add"
      BY <1>5, <2>2 DEF AddContext
    <3>2. obj[c].uid \in Handle /\ obj[c] \in Object \cup {None}
      BY <3>1, TypeParts DEF IInv, AddsElement, Handle, LocalOK
    <3>3. mCtx' \in [Session -> [Handle -> Object \cup {None}]]
      BY <1>1, <3>1, <3>2, EntryReplaced DEF SharedOK
    <3> QED
      BY <1>1, <1>5, <3>3 DEF AddContext, SharedOK
  <2> QED
    BY <2>1, <2>2
<1>6. ASSUME NEW p \in Session, InstallEnv(c, p)
      PROVE  SharedOK'
  BY <1>1, <1>6, ObjectFacts DEF InstallEnv, SharedOK
<1>7. ASSUME NEW p \in Session, ConstructEnv(c, p)
      PROVE  SharedOK'
  <2>1. mEnv[p] # None
    BY <1>7, ObjectFacts DEF ConstructEnv, IInv, EnvStored
  <2> QED
    BY <1>1, <1>7, <2>1 DEF ConstructEnv, SharedOK
<1>8. CASE InsertEnv(c)
  <2> DEFINE p == obj[c].of
             x == IF mCtx[p]["MEnv#0"] = None THEN obj[c] ELSE mCtx[p]["MEnv#0"]
  <2>1. "MEnv#0" \in Handle
    BY DEF Handle
  <2>2. mCtx' = [mCtx EXCEPT ![p]["MEnv#0"] = x]
    BY <1>8 DEF InsertEnv
  <2>3. obj[c] \in Object /\ p \in Session
    <3>1. pc[c] = "insert"
      BY <1>8 DEF InsertEnv
    <3>2. obj[c] \in Object \cup {None} /\ obj[c] # None
      BY <3>1, TypeParts DEF IInv, LocalOK, CreatingEnv
    <3> QED
      BY <3>2, ObjectFacts
  <2>4. x \in Object \cup {None}
    BY <1>1, <2>1, <2>3 DEF SharedOK
  <2>5. mCtx' \in [Session -> [Handle -> Object \cup {None}]]
    <3> HIDE DEF x, p
    <3> QED
      BY <1>1, <2>1, <2>2, <2>3, <2>4, EntryReplaced DEF SharedOK
  <2> QED
    BY <1>1, <1>8, <2>5 DEF InsertEnv, SharedOK
<1>9. ASSUME NEW p \in Session, NEW d \in Session, AttachEnv(c, p, d)
      PROVE  SharedOK'
  BY <1>1, <1>9 DEF AttachEnv, SharedOK
<1>10. CASE CreateEnvThrows(c)
  <2>1. pc[c] = "construct" => obj[c].of \in Session
    <3>1. pc[c] = "construct" => obj[c] \in Object \cup {None} /\ obj[c] # None
      BY TypeParts DEF IInv, LocalOK, CreatingEnv
    <3> QED
      BY <3>1, ObjectFacts
  <2>2. lost' \subseteq Session
    BY <1>1, <1>10, <2>1 DEF CreateEnvThrows, SharedOK
  <2> QED
    BY <1>1, <1>10, <2>2 DEF CreateEnvThrows, SharedOK
<1> QED
  BY <1>2, <1>3, <1>4, <1>5, <1>6, <1>7, <1>8, <1>9, <1>10
  DEF ThreadSteps, ThreadStep, CallProvider, Receive, Lookup, CallModel,
      Send, GetEnv, GetId, BadCall, CheckEnv, PublishEnv

\* A thread that moves on with an object and a reply, and changes nothing else
\* of its own.
LEMMA LocalMove ==
  ASSUME LocalOK, NEW c \in Session, NEW l \in Locations,
         NEW o \in Object \cup {None}, NEW r \in Reply,
         l \in {"call", "add"} \cup CreatingEnv => o # None,
         pc' = [pc EXCEPT ![c] = l],
         obj' = [obj EXCEPT ![c] = o],
         res' = [res EXCEPT ![c] = r],
         UNCHANGED <<req, asked, answered, told>>
  PROVE  LocalOK'
BY DEF LocalOK

\* The same, when it keeps its object and its reply.
LEMMA LocalGoto ==
  ASSUME LocalOK, NEW c \in Session, NEW l \in Locations,
         l \in {"call", "add"} \cup CreatingEnv => obj[c] # None,
         pc' = [pc EXCEPT ![c] = l],
         UNCHANGED <<req, obj, res, asked, answered, told>>
  PROVE  LocalOK'
BY DEF LocalOK

\* A thread that ends its handling.
LEMMA LocalFinish ==
  ASSUME LocalOK, NEW c \in Session, NEW r \in Reply, Finish(c, r),
         UNCHANGED <<req, obj, asked, answered, told>>
  PROVE  LocalOK'
<1>1. obj' = [obj EXCEPT ![c] = obj[c]] /\ obj[c] \in Object \cup {None}
  BY DEF LocalOK
<1>2. "reply" \in Locations /\ "reply" \notin {"call", "add"} \cup CreatingEnv
  BY DEF Locations, CreatingEnv
<1>3. pc' = [pc EXCEPT ![c] = "reply"] /\ res' = [res EXCEPT ![c] = r]
  BY DEF Finish, Goto
<1> QED
  BY <1>1, <1>2, <1>3, LocalMove

\* The answers of the handlers are replies.
LEMMA Replies == Error \in Reply /\ Ok \in Reply /\ \A h \in Handle : Gives(h) \in Reply
BY DEF Error, Ok, Gives, Reply

\* Every step of a thread preserves the types of the threads' own variables.
LEMMA LocalStep ==
  ASSUME IInv, NEW c \in Session, ThreadSteps(c)
  PROVE  LocalOK'
<1>1. LocalOK /\ SharedOK
  BY TypeParts DEF IInv
<1>2. CASE UNCHANGED local
  BY <1>1, <1>2 DEF local, LocalOK
<1>3. CASE Receive(c)
  <2>1. PICK m \in Message : req' = [req EXCEPT ![c] = m]
    BY <1>3 DEF Receive
  <2>2. asked[c] + 1 \in 0 .. MaxRequests
    BY <1>1, <1>3, ConstantsAssumption DEF Receive, LocalOK
  <2>3. "lookup" \in Locations \ ({"call", "add"} \cup CreatingEnv)
    BY DEF Locations, CreatingEnv
  <2>4. /\ pc' = [pc EXCEPT ![c] = "lookup"] /\ asked' = [asked EXCEPT ![c] = asked[c] + 1]
        /\ UNCHANGED <<obj, res, answered, told>>
    BY <1>3 DEF Receive, Goto
  <2> QED
    BY <1>1, <2>1, <2>2, <2>3, <2>4 DEF LocalOK
<1>4. CASE Lookup(c)
  <2>1. CASE LookupFails(c)
    BY <1>1, <1>4, <2>1, LocalFinish, Replies DEF Lookup
  <2>2. CASE ~LookupFails(c)
    <3> DEFINE o == mCtx[Scope(c)][req[c].ctx]
    <3>1. /\ obj' = [obj EXCEPT ![c] = o] /\ pc' = [pc EXCEPT ![c] = "call"]
          /\ UNCHANGED <<req, res, asked, answered, told>>
      BY <1>4, <2>2 DEF Lookup, Goto
    <3>2. o # None /\ req[c].ctx # None
      BY <2>2 DEF LookupFails
    <3>3. o \in Object \cup {None}
      <4>1. req[c].ctx \in Handle
        BY <1>1, <3>2 DEF LocalOK, Message
      <4>2. Scope(c) \in Session
        BY <1>1 DEF Scope, SharedOK
      <4> QED
        BY <1>1, <4>1, <4>2 DEF SharedOK
    <3>4. res' = [res EXCEPT ![c] = res[c]] /\ res[c] \in Reply
      BY <1>1, <3>1 DEF LocalOK
    <3>5. "call" \in Locations
      BY DEF Locations
    <3> HIDE DEF o
    <3> QED
      BY <1>1, <3>1, <3>2, <3>3, <3>4, <3>5, LocalMove
  <2> QED
    BY <2>1, <2>2
<1>5. CASE CallModel(c)
  <2>1. CASE UNCHANGED obj
    <3>1. CASE \E r \in {Ok, Error} : Finish(c, r)
      BY <1>1, <1>5, <2>1, <3>1, LocalFinish, Replies DEF CallModel
    <3>2. CASE Goto(c, "add") /\ UNCHANGED res
      <4>1. "add" \in Locations /\ obj[c] # None
        BY <1>1, <1>5 DEF Locations, CallModel, LocalOK
      <4> QED
        BY <1>1, <1>5, <2>1, <3>2, <4>1, LocalGoto DEF CallModel, Goto
    <3> QED
      BY <1>5, <3>1, <3>2 DEF CallModel
  <2>2. CASE ~UNCHANGED obj
    <3>1. PICK u \in Uid : obj' = [obj EXCEPT ![c] = Element(obj[c], u)]
      BY <1>5, <2>2 DEF CallModel
    <3>2. /\ pc' = [pc EXCEPT ![c] = "add"] /\ pc[c] = "call"
          /\ UNCHANGED <<req, res, asked, answered, told>>
      BY <1>5, <2>2 DEF CallModel, Goto
    <3>3. obj[c] \in Object
      BY <1>1, <3>2 DEF LocalOK
    <3>4. Element(obj[c], u) \in Object /\ Element(obj[c], u) # None
      BY <3>3, ObjectFacts
    <3>5. res' = [res EXCEPT ![c] = res[c]] /\ res[c] \in Reply
      BY <1>1, <3>2 DEF LocalOK
    <3>6. "add" \in Locations
      BY DEF Locations
    <3> QED
      BY <1>1, <3>1, <3>2, <3>4, <3>5, <3>6, LocalMove
  <2> QED
    BY <2>1, <2>2
<1>6. CASE CreateEnvThrows(c)
  BY <1>1, <1>6, LocalFinish, Replies DEF CreateEnvThrows
<1>7. CASE AddContext(c)
  <2>1. CASE UNCHANGED <<pc, res>>
    BY <1>1, <1>7, <2>1 DEF AddContext, LocalOK
  <2>2. CASE Finish(c, Gives(obj[c].uid))
    <3>1. obj[c].uid \in Handle
      BY <1>7 DEF AddContext, IInv, AddsElement, Handle
    <3>2. Gives(obj[c].uid) \in Reply
      BY <3>1, Replies
    <3> QED
      BY <1>1, <1>7, <2>2, <3>2, LocalFinish DEF AddContext
  <2> QED
    BY <1>7, <2>1, <2>2 DEF AddContext
<1>8. CASE Send(c)
  <2>1. /\ "recv" \in Locations \ ({"call", "add"} \cup CreatingEnv)
        /\ NoMessage \in Message /\ Error \in Reply
    BY Replies DEF Locations, CreatingEnv, NoMessage, Message
  <2>2. /\ pc' = [pc EXCEPT ![c] = "recv"] /\ req' = [req EXCEPT ![c] = NoMessage]
        /\ obj' = [obj EXCEPT ![c] = None] /\ res' = [res EXCEPT ![c] = Error]
        /\ asked' = asked
    BY <1>8 DEF Send, Goto
  <2>3. answered' \in [Session -> Nat]
    BY <1>1, <1>8 DEF Send, LocalOK
  <2>4. told' \in [Session -> SUBSET Handle]
    <3>1. res[c].handle \in Handle \cup {None}
      BY <1>1 DEF LocalOK, Reply
    <3>2. told' = [told EXCEPT ![c] = told[c] \cup ({res[c].handle} \ {None})]
      BY <1>8 DEF Send
    <3> QED
      BY <1>1, <3>1, <3>2 DEF LocalOK
  <2> QED
    BY <1>1, <2>1, <2>2, <2>3, <2>4 DEF LocalOK
<1>9. ASSUME NEW p \in Session, CallProvider(c, p)
      PROVE  LocalOK'
  <2>1. CASE CheckEnv(c, p)
    <3>1. CASE mEnv[p] # None
      BY <1>1, <2>1, <3>1, LocalFinish, Replies DEF CheckEnv
    <3>2. CASE mEnv[p] = None
      <4>1. "install" \in Locations /\ obj[c] # None
        BY <1>1, <2>1 DEF Locations, CreatingEnv, CheckEnv, Calls, LocalOK
      <4> QED
        BY <1>1, <2>1, <3>2, <4>1, LocalGoto DEF CheckEnv, Goto
    <3> QED
      BY <3>1, <3>2
  <2>2. CASE InstallEnv(c, p) \/ ConstructEnv(c, p)
    <3>1. {"construct", "publish"} \subseteq Locations
      BY DEF Locations, CreatingEnv
    <3>2. obj[c] # None
      BY <2>2, ObjectFacts DEF InstallEnv, ConstructEnv
    <3> QED
      BY <1>1, <2>2, <3>1, <3>2, LocalGoto DEF InstallEnv, ConstructEnv, Goto
  <2>3. CASE PublishEnv(c, p)
    <3>1. CASE mCtx[p]["MEnv#0"] # None
      BY <1>1, <2>3, <3>1, LocalFinish, Replies DEF PublishEnv
    <3>2. CASE mCtx[p]["MEnv#0"] = None
      <4>1. /\ pc[c] = "publish" /\ obj[c] = Provider(p) /\ pc' = [pc EXCEPT ![c] = "insert"]
            /\ obj' = [obj EXCEPT ![c] = mEnv[p]]
            /\ UNCHANGED <<req, res, asked, answered, told>>
        BY <2>3, <3>2 DEF PublishEnv, Goto
      <4>2. mEnv[p] # None /\ mEnv[p] \in Object \cup {None}
        BY <1>1, <4>1, ObjectFacts DEF IInv, EnvStored, SharedOK
      <4>3. "insert" \in Locations
        BY DEF Locations, CreatingEnv
      <4>4. res' = [res EXCEPT ![c] = res[c]] /\ res[c] \in Reply
        BY <1>1, <4>1 DEF LocalOK
      <4> QED
        BY <1>1, <4>1, <4>2, <4>3, <4>4, LocalMove
    <3> QED
      BY <3>1, <3>2
  <2>4. CASE GetEnv(c, p)
    <3>1. PICK r \in Reply : Finish(c, r)
      <4>1. "MEnv#0" \in Handle
        BY DEF Handle
      <4> QED
        BY <2>4, <4>1, Replies DEF GetEnv
    <3> QED
      BY <1>1, <2>4, <3>1, LocalFinish DEF GetEnv
  <2>5. CASE GetId(c, p) \/ BadCall(c, p) \/ \E d \in Session : AttachEnv(c, p, d)
    BY <1>1, <2>5, LocalFinish, Replies DEF GetId, BadCall, AttachEnv
  <2> QED
    BY <1>9, <2>1, <2>2, <2>3, <2>4, <2>5 DEF CallProvider
<1>10. CASE InsertEnv(c)
  <2>1. Gives("MEnv#0") \in Reply
    BY Replies DEF Handle
  <2> QED
    BY <1>1, <1>10, <2>1, LocalFinish DEF InsertEnv
<1> QED
  BY <1>2, <1>3, <1>4, <1>5, <1>6, <1>7, <1>8, <1>9, <1>10
  DEF ThreadSteps, ThreadStep, StartThread, AddProvider

\* Every step preserves the type invariant.
LEMMA TypeStep == ASSUME IInv, [Next]_vars PROVE TypeOK'
<1>1. up' \in BOOLEAN
  BY UpStep DEF IInv
<1>2. ASSUME NEW c \in Session, ThreadSteps(c)
      PROVE  TypeOK'
  BY <1>1, <1>2, SharedStep, LocalStep, TypeParts DEF TypeOK, SharedOK, LocalOK
<1>3. CASE UNCHANGED <<shared, local>>
  BY <1>1, <1>3 DEF IInv, TypeOK, shared, local
<1> QED
  BY <1>2, <1>3, NextCases

-----------------------------------------------------------------------------
(* Every step preserves the rest of the invariant.                         *)

\* A request is counted when it is received, its answer when it is sent, and
\* no other step leaves "recv" or comes back to it.
LEMMA AnswerStep ==
  ASSUME IInv, NEW c \in Session, ThreadSteps(c)
  PROVE  OneAnswer'
<1>1. /\ LocalOK /\ OneAnswer
  BY TypeParts DEF IInv
<1>2. CASE UNCHANGED local
  BY <1>1, <1>2 DEF local, OneAnswer
<1>3. CASE Receive(c)
  <2>1. /\ pc[c] = "recv" /\ pc' = [pc EXCEPT ![c] = "lookup"]
        /\ asked' = [asked EXCEPT ![c] = asked[c] + 1] /\ answered' = answered
    BY <1>3 DEF Receive, Goto
  <2> QED
    BY <1>1, <2>1 DEF LocalOK, OneAnswer
<1>4. CASE Send(c)
  <2>1. /\ pc[c] = "reply" /\ pc' = [pc EXCEPT ![c] = "recv"]
        /\ answered' = [answered EXCEPT ![c] = answered[c] + 1] /\ asked' = asked
    BY <1>4 DEF Send, Goto
  <2> QED
    BY <1>1, <2>1 DEF LocalOK, OneAnswer
<1>5. ASSUME NEW l, pc' = [pc EXCEPT ![c] = l], pc[c] # "recv", l # "recv",
             UNCHANGED <<asked, answered>>
      PROVE  OneAnswer'
  BY <1>1, <1>5 DEF LocalOK, OneAnswer
<1>6. CASE Lookup(c) \/ CallModel(c) \/ CreateEnvThrows(c) \/ InsertEnv(c)
  BY <1>5, <1>6 DEF Lookup, CallModel, CreateEnvThrows, InsertEnv, Goto, Finish
<1>7. CASE AddContext(c)
  BY <1>1, <1>5, <1>7 DEF AddContext, Goto, Finish, OneAnswer
<1>8. ASSUME NEW p \in Session, CallProvider(c, p)
      PROVE  OneAnswer'
  BY <1>5, <1>8 DEF CallProvider, GetEnv, GetId, BadCall, CheckEnv, InstallEnv,
     ConstructEnv, PublishEnv, AttachEnv, Calls, Goto, Finish
<1> QED
  BY <1>2, <1>3, <1>4, <1>6, <1>7, <1>8
  DEF ThreadSteps, ThreadStep, StartThread, AddProvider

Owned == Isolation /\ EnvOwned /\ ObjOwned /\ EnvStored /\ AddsElement /\ ProviderLast

\* A step that leaves the maps, the environments and the attachments alone
\* preserves Owned if what the thread goes to work on, o, may be worked on at
\* the place it goes to, l.
LEMMA OwnedMove ==
  ASSUME IInv, NEW c \in Session, UNCHANGED <<ctor, mCtx, mEnv, mAttached>>,
         NEW l, pc' = [pc EXCEPT ![c] = l],
         NEW o, obj' = [obj EXCEPT ![c] = o],
         mAttached[c] = None /\ o # None => o.of = c,
         l \in {"construct", "publish", "insert"} => mEnv[o.of] # None,
         l = "add" => o.uid \in Uid
  PROVE  Owned'
<1>1. /\ LocalOK /\ SharedOK /\ Owned
  BY TypeParts DEF IInv, Owned
<1>2. /\ Isolation' /\ EnvOwned' /\ ProviderLast'
  BY <1>1 DEF Owned, Isolation, EnvOwned, ProviderLast
<1>3. ObjOwned'
  BY <1>1 DEF Owned, ObjOwned, LocalOK
<1>4. EnvStored' /\ AddsElement'
  BY <1>1 DEF Owned, EnvStored, AddsElement, LocalOK
<1> QED
  BY <1>2, <1>3, <1>4 DEF Owned

\* A step that ends the handling of a thread, and changes no map.
LEMMA OwnedFinish ==
  ASSUME IInv, NEW c \in Session, NEW r, Finish(c, r),
         UNCHANGED <<ctor, mCtx, mEnv, mAttached, obj>>
  PROVE  Owned'
<1>1. LocalOK /\ ObjOwned
  BY TypeParts DEF IInv
<1>2. /\ pc' = [pc EXCEPT ![c] = "reply"] /\ obj' = [obj EXCEPT ![c] = obj[c]]
      /\ mAttached[c] = None /\ obj[c] # None => obj[c].of = c
  BY <1>1 DEF Finish, Goto, LocalOK, ObjOwned
<1>3. /\ "reply" \in {"construct", "publish", "insert"} => mEnv[obj[c].of] # None
      /\ "reply" = "add" => obj[c].uid \in Uid
      /\ UNCHANGED <<ctor, mCtx, mEnv, mAttached>>
  OBVIOUS
<1> QED
  BY <1>2, <1>3, OwnedMove

\* A step that writes one entry of a map, not the provider's, with an object
\* of the session the map belongs to, and ends the handling.
LEMMA OwnedWrite ==
  ASSUME IInv, NEW c \in Session, NEW p \in Session,
         NEW k \in Handle \ {"EnvProvider"}, NEW x \in Object \cup {None},
         mAttached[p] = None /\ x # None => x.of = p,
         mCtx' = [mCtx EXCEPT ![p][k] = x],
         pc' = [pc EXCEPT ![c] = "reply"],
         UNCHANGED <<ctor, mEnv, mAttached, obj>>
  PROVE  Owned'
<1>1. /\ LocalOK /\ SharedOK /\ Owned
  BY TypeParts DEF IInv, Owned
<1>2. /\ \A d \in Session, h \in Handle :
           mCtx'[d][h] = IF d = p /\ h = k THEN x ELSE mCtx[d][h]
      /\ "EnvProvider" \in Handle
  BY <1>1, EntryReplaced DEF SharedOK, Handle
<1>3. Isolation'
  BY <1>1, <1>2 DEF Owned, Isolation
<1>4. EnvOwned' /\ ObjOwned' /\ ProviderLast'
  BY <1>1, <1>2 DEF Owned, EnvOwned, ObjOwned, ProviderLast
<1>5. EnvStored' /\ AddsElement'
  BY <1>1 DEF Owned, EnvStored, AddsElement, LocalOK
<1> QED
  BY <1>3, <1>4, <1>5 DEF Owned

\* Every step of a session keeps what belongs to it apart from what belongs to
\* the others.
LEMMA OwnedStep ==
  ASSUME IInv, NEW c \in Session, ThreadSteps(c)
  PROVE  Owned'
<1>1. /\ LocalOK /\ SharedOK /\ Owned
  BY TypeParts DEF IInv, Owned
<1>2. CASE StartThread(c)
  <2>1. /\ UNCHANGED <<mCtx, mEnv, mAttached, pc, obj>>
        /\ ctor[c] = "none" /\ ctor' = [ctor EXCEPT ![c] = "running"]
    BY <1>2 DEF StartThread, local
  <2>2. ProviderLast'
    BY <1>1, <2>1 DEF Owned, ProviderLast, SharedOK
  <2>3. Isolation' /\ EnvOwned' /\ ObjOwned' /\ EnvStored' /\ AddsElement'
    BY <1>1, <2>1 DEF Owned, Isolation, EnvOwned, ObjOwned, EnvStored, AddsElement
  <2> QED
    BY <2>2, <2>3 DEF Owned
<1>3. CASE AddProvider(c)
  <2>1. /\ UNCHANGED <<mEnv, mAttached, pc, obj>>
        /\ mCtx' = [mCtx EXCEPT ![c]["EnvProvider"] = Provider(c)]
        /\ ctor' = [ctor EXCEPT ![c] = "done"]
    BY <1>3 DEF AddProvider, local
  <2>2. /\ Provider(c) \in Object \cup {None} /\ Provider(c).of = c
        /\ "EnvProvider" \in Handle
    BY ObjectFacts DEF Handle
  <2>3. \A d \in Session, h \in Handle :
          mCtx'[d][h] = IF d = c /\ h = "EnvProvider" THEN Provider(c) ELSE mCtx[d][h]
    BY <1>1, <2>1, <2>2, EntryReplaced DEF SharedOK
  <2>4. Isolation'
    BY <1>1, <2>1, <2>2, <2>3 DEF Owned, Isolation
  <2>5. ProviderLast'
    BY <1>1, <2>1, <2>2, <2>3 DEF Owned, ProviderLast, SharedOK
  <2>6. EnvOwned' /\ ObjOwned' /\ EnvStored' /\ AddsElement'
    BY <1>1, <2>1 DEF Owned, EnvOwned, ObjOwned, EnvStored, AddsElement
  <2> QED
    BY <2>4, <2>5, <2>6 DEF Owned
<1>4. CASE Receive(c) \/ Send(c)
  <2>1. PICK l \in {"lookup", "recv"} : pc' = [pc EXCEPT ![c] = l]
    BY <1>4 DEF Receive, Send, Goto
  <2>2. PICK o \in {obj[c], None} : obj' = [obj EXCEPT ![c] = o]
    BY <1>1, <1>4 DEF Receive, Send, LocalOK
  <2>3. UNCHANGED <<ctor, mCtx, mEnv, mAttached>>
    BY <1>4 DEF Receive, Send, shared
  <2>4. mAttached[c] = None /\ o # None => o.of = c
    BY <1>1, <2>2 DEF Owned, ObjOwned
  <2> QED
    BY <2>1, <2>2, <2>3, <2>4, OwnedMove
<1>5. CASE Lookup(c)
  <2>1. CASE LookupFails(c)
    BY <1>5, <2>1, OwnedFinish DEF Lookup, shared
  <2>2. CASE ~LookupFails(c)
    <3> DEFINE o == mCtx[Scope(c)][req[c].ctx]
    <3>1. /\ obj' = [obj EXCEPT ![c] = o] /\ pc' = [pc EXCEPT ![c] = "call"]
          /\ UNCHANGED <<ctor, mCtx, mEnv, mAttached>>
      BY <1>5, <2>2 DEF Lookup, Goto, shared
    <3>2. req[c].ctx \in Handle
      BY <1>1, <2>2 DEF LookupFails, LocalOK, Message
    <3>3. mAttached[c] = None /\ o # None => o.of = c
      BY <1>1, <3>2 DEF Scope, Owned, Isolation
    <3>4. /\ "call" \in {"construct", "publish", "insert"} => mEnv[o.of] # None
          /\ "call" = "add" => o.uid \in Uid
      OBVIOUS
    <3> HIDE DEF o
    <3> QED
      BY <3>1, <3>3, <3>4, OwnedMove
  <2> QED
    BY <2>1, <2>2
<1>6. CASE CallModel(c)
  <2>1. CASE \E r \in {Ok, Error} : Finish(c, r) /\ UNCHANGED obj
    BY <1>6, <2>1, OwnedFinish DEF CallModel, shared
  <2>2. CASE /\ \E u \in Uid : obj' = [obj EXCEPT ![c] = Element(obj[c], u)]
             /\ Goto(c, "add")
    <3>1. PICK u \in Uid : obj' = [obj EXCEPT ![c] = Element(obj[c], u)]
      BY <2>2
    <3>2. /\ pc' = [pc EXCEPT ![c] = "add"] /\ pc[c] = "call"
          /\ UNCHANGED <<ctor, mCtx, mEnv, mAttached>>
      BY <1>6, <2>2 DEF CallModel, Goto, shared
    <3>3. obj[c] \in Object /\ obj[c] # None
      BY <1>1, <3>2 DEF LocalOK
    <3>4. Element(obj[c], u).of = obj[c].of /\ Element(obj[c], u).uid \in Uid
      BY <3>3, ObjectFacts
    <3>5. mAttached[c] = None => Element(obj[c], u).of = c
      BY <1>1, <3>3, <3>4 DEF Owned, ObjOwned
    <3>6. "add" \in {"construct", "publish", "insert"} =>
            mEnv[Element(obj[c], u).of] # None
      OBVIOUS
    <3> DEFINE o == Element(obj[c], u)
    <3>7. /\ obj' = [obj EXCEPT ![c] = o] /\ o.uid \in Uid
          /\ mAttached[c] = None /\ o # None => o.of = c
          /\ "add" \in {"construct", "publish", "insert"} => mEnv[o.of] # None
      BY <3>1, <3>4, <3>5, <3>6
    <3> HIDE DEF o
    <3> QED
      BY <3>2, <3>7, OwnedMove
  <2> QED
    BY <1>6, <2>1, <2>2 DEF CallModel
<1>7. CASE CreateEnvThrows(c)
  BY <1>7, OwnedFinish DEF CreateEnvThrows, shared
<1>8. CASE AddContext(c)
  <2>1. CASE UNCHANGED <<mCtx, pc>>
    BY <1>1, <1>8, <2>1 DEF AddContext, Owned, Isolation, EnvOwned, ObjOwned,
       EnvStored, AddsElement, ProviderLast
  <2>2. CASE /\ mCtx' = [mCtx EXCEPT ![c][obj[c].uid] = obj[c]]
             /\ Finish(c, Gives(obj[c].uid))
    <3>1. /\ pc' = [pc EXCEPT ![c] = "reply"] /\ pc[c] = "add"
          /\ UNCHANGED <<ctor, mEnv, mAttached, obj>>
      BY <1>8, <2>2 DEF AddContext, Finish, Goto
    <3>2. obj[c].uid \in Handle \ {"EnvProvider"}
      BY <1>1, <3>1, ConstantsAssumption DEF Owned, AddsElement, Handle
    <3>3. obj[c] \in Object \cup {None}
      BY <1>1 DEF LocalOK
    <3>4. mAttached[c] = None /\ obj[c] # None => obj[c].of = c
      BY <1>1 DEF Owned, ObjOwned
    <3> QED
      BY <2>2, <3>1, <3>2, <3>3, <3>4, OwnedWrite
  <2> QED
    BY <1>8, <2>1, <2>2 DEF AddContext
<1>9. ASSUME NEW p \in Session, CallProvider(c, p)
      PROVE  Owned'
  <2>1. ASSUME NEW l, Goto(c, l), obj[c] = Provider(p), UNCHANGED obj,
               UNCHANGED <<ctor, mCtx, mEnv, mAttached>>,
               l \in {"construct", "publish", "insert"} => mEnv[p] # None,
               l # "add"
        PROVE  Owned'
    <3>1. /\ pc' = [pc EXCEPT ![c] = l] /\ obj' = [obj EXCEPT ![c] = obj[c]]
          /\ obj[c].of = p
      BY <1>1, <2>1, ObjectFacts DEF Goto, LocalOK
    <3>2. mAttached[c] = None /\ obj[c] # None => obj[c].of = c
      BY <1>1 DEF Owned, ObjOwned
    <3>3. UNCHANGED <<ctor, mCtx, mEnv, mAttached>>
      BY <2>1
    <3>4. l \in {"construct", "publish", "insert"} => mEnv[obj[c].of] # None
      BY <2>1, <3>1
    <3> QED
      BY <2>1, <3>1, <3>2, <3>3, <3>4, OwnedMove
  <2>2. ASSUME pc[c] \in {"construct", "publish", "insert"}, obj[c] = Provider(p)
        PROVE  mEnv[p] # None /\ mEnv[p].of = p
    <3>1. mEnv[p] # None
      BY <1>1, <2>2, ObjectFacts DEF Owned, EnvStored
    <3> QED
      BY <1>1, <3>1 DEF Owned, EnvOwned
  <2>3. CASE GetEnv(c, p) \/ GetId(c, p) \/ BadCall(c, p)
    BY <2>3, OwnedFinish DEF GetEnv, GetId, BadCall, shared
  <2>4. CASE CheckEnv(c, p)
    BY <2>1, <2>4, OwnedFinish DEF CheckEnv, Calls, shared
  <2>5. CASE InstallEnv(c, p)
    <3>1. /\ pc' = [pc EXCEPT ![c] = "construct"] /\ obj[c] = Provider(p)
          /\ mEnv' = [mEnv EXCEPT ![p] = Env(p, c)]
          /\ UNCHANGED <<ctor, mCtx, mAttached, obj>>
      BY <2>5 DEF InstallEnv, Goto
    <3>2. Provider(p).of = p /\ Env(p, c) # None /\ Env(p, c).of = p
      BY ObjectFacts
    <3>3. EnvOwned' /\ EnvStored'
      BY <1>1, <3>1, <3>2 DEF Owned, EnvOwned, EnvStored, SharedOK, LocalOK
    <3>4. Isolation' /\ ObjOwned' /\ AddsElement' /\ ProviderLast'
      BY <1>1, <3>1 DEF Owned, Isolation, ObjOwned, AddsElement, ProviderLast, LocalOK
    <3> QED
      BY <3>3, <3>4 DEF Owned
  <2>6. CASE ConstructEnv(c, p)
    BY <2>1, <2>2, <2>6 DEF ConstructEnv
  <2>7. CASE PublishEnv(c, p)
    <3>1. CASE mCtx[p]["MEnv#0"] # None
      BY <2>7, <3>1, OwnedFinish DEF PublishEnv, shared
    <3>2. CASE mCtx[p]["MEnv#0"] = None
      <4>1. PICK o : o = mEnv[p]
        OBVIOUS
      <4>2. /\ pc[c] = "publish" /\ obj[c] = Provider(p)
            /\ pc' = [pc EXCEPT ![c] = "insert"] /\ obj' = [obj EXCEPT ![c] = o]
            /\ UNCHANGED <<ctor, mCtx, mEnv, mAttached>>
        BY <2>7, <3>2, <4>1 DEF PublishEnv, Goto, shared
      <4>3. o # None /\ o.of = p /\ mEnv[o.of] # None
        BY <2>2, <4>1, <4>2
      <4>4. mAttached[c] = None => p = c
        BY <1>1, <4>2, ObjectFacts DEF Owned, ObjOwned
      <4>5. /\ mAttached[c] = None /\ o # None => o.of = c
            /\ "insert" \in {"construct", "publish", "insert"} => mEnv[o.of] # None
            /\ "insert" = "add" => o.uid \in Uid
        BY <4>3, <4>4
      <4>6. /\ UNCHANGED <<ctor, mCtx, mEnv, mAttached>>
            /\ pc' = [pc EXCEPT ![c] = "insert"] /\ obj' = [obj EXCEPT ![c] = o]
        BY <4>2
      <4> QED
        BY <4>5, <4>6, OwnedMove
    <3> QED
      BY <3>1, <3>2
  <2>9. ASSUME NEW d \in Session, AttachEnv(c, p, d)
        PROVE  Owned'
    <3>1. /\ pc' = [pc EXCEPT ![c] = "reply"] /\ d # None
          /\ mAttached' = [mAttached EXCEPT ![p] = d]
          /\ UNCHANGED <<ctor, mCtx, mEnv, obj>>
      BY <2>9, ConstantsAssumption DEF AttachEnv, Finish, Goto
    <3>2. Isolation' /\ ObjOwned'
      BY <1>1, <3>1 DEF Owned, Isolation, ObjOwned, SharedOK
    <3>3. EnvOwned' /\ EnvStored' /\ AddsElement' /\ ProviderLast'
      BY <1>1, <3>1 DEF Owned, EnvOwned, EnvStored, AddsElement, ProviderLast, LocalOK
    <3> QED
      BY <3>2, <3>3 DEF Owned
  <2> QED
    BY <1>9, <2>3, <2>4, <2>5, <2>6, <2>7, <2>9 DEF CallProvider
<1>10. CASE InsertEnv(c)
  <2> DEFINE p == obj[c].of
             x == IF mCtx[p]["MEnv#0"] = None THEN obj[c] ELSE mCtx[p]["MEnv#0"]
  <2>1. "MEnv#0" \in Handle \ {"EnvProvider"}
    BY DEF Handle
  <2>2. /\ mCtx' = [mCtx EXCEPT ![p]["MEnv#0"] = x]
        /\ pc' = [pc EXCEPT ![c] = "reply"] /\ pc[c] = "insert"
        /\ UNCHANGED <<ctor, mEnv, mAttached, obj>>
    BY <1>10 DEF InsertEnv, Finish, Goto
  <2>3. obj[c] \in Object /\ p \in Session
    <3>1. obj[c] \in Object \cup {None} /\ obj[c] # None
      BY <1>1, <2>2 DEF LocalOK, CreatingEnv
    <3> QED
      BY <3>1, ObjectFacts
  <2>4. x \in Object \cup {None}
    BY <1>1, <2>1, <2>3 DEF SharedOK
  <2>5. mAttached[p] = None /\ x # None => x.of = p
    BY <1>1, <2>1, <2>3 DEF Owned, Isolation
  <2> HIDE DEF x, p
  <2> QED
    BY <2>1, <2>2, <2>3, <2>4, <2>5, OwnedWrite
<1> QED
  BY <1>2, <1>3, <1>4, <1>5, <1>6, <1>7, <1>8, <1>9, <1>10 DEF ThreadSteps, ThreadStep

-----------------------------------------------------------------------------
\* IInv is inductive.
LEMMA InvariantStep == ASSUME IInv, [Next]_vars PROVE IInv'
<1>1. TypeOK'
  BY TypeStep
<1>2. ASSUME NEW c \in Session, ThreadSteps(c)
      PROVE  OneAnswer' /\ Owned'
  BY <1>2, AnswerStep, OwnedStep
<1>3. CASE UNCHANGED <<shared, local>>
  <2>1. /\ ctor' = ctor /\ mCtx' = mCtx /\ mEnv' = mEnv /\ mAttached' = mAttached
        /\ pc' = pc /\ obj' = obj /\ asked' = asked /\ answered' = answered
    BY <1>3 DEF shared, local
  <2>2. OneAnswer'
    BY <2>1 DEF IInv, OneAnswer
  <2>3. Isolation' /\ EnvOwned' /\ ObjOwned'
    BY <2>1 DEF IInv, Isolation, EnvOwned, ObjOwned
  <2>4. EnvStored' /\ AddsElement' /\ ProviderLast'
    BY <2>1 DEF IInv, EnvStored, AddsElement, ProviderLast
  <2> QED
    BY <1>1, <2>2, <2>3, <2>4 DEF IInv
<1> QED
  BY <1>1, <1>2, <1>3, NextCases DEF IInv, Owned

\* IInv is an invariant.
LEMMA InvariantHolds == Spec => []IInv
BY InitInvariant, InvariantStep, PTL DEF Spec

\* The types of the session's maps, of the environments and of the threads'
\* own variables are what the declarations in sclient.h say; a thread that
\* calls, adds or creates has an object to do it with.
THEOREM ContextsTypeCorrect == Spec => []TypeOK
<1>1. IInv => TypeOK
  BY DEF IInv
<1> QED
  BY <1>1, InvariantHolds, PTL

\* HandleMessage answers every request once, whichever of its returns, its
\* exception handler or its last line it leaves by.
THEOREM AnswersOnce == Spec => []OneAnswer
<1>1. IInv => OneAnswer
  BY DEF IInv
<1> QED
  BY <1>1, InvariantHolds, PTL

\* However many sessions run and attach to each other, the handles of a
\* session that is not attached lead to objects of that session.
THEOREM SessionsIsolated == Spec => []Isolation
<1>1. IInv => Isolation
  BY DEF IInv
<1> QED
  BY <1>1, InvariantHolds, PTL

\* One step changes no handle that leads to something: AddContext tests the
\* entry, InsertEnv writes it only when it is empty, and the constructor comes
\* to the provider's before anything is there.
LEMMA HandleKept ==
  ASSUME IInv, NEW c \in Session, ThreadSteps(c), NEW d \in Session, NEW h \in Handle,
         mCtx[d][h] # None
  PROVE  mCtx'[d][h] = mCtx[d][h]
<1>1. /\ LocalOK /\ SharedOK /\ Owned
  BY TypeParts DEF IInv, Owned
<1>2. ASSUME NEW p \in Session, NEW k \in Handle, NEW x \in Object \cup {None},
             mCtx' = [mCtx EXCEPT ![p][k] = x],
             mCtx[p][k] = None \/ x = mCtx[p][k]
      PROVE  mCtx'[d][h] = mCtx[d][h]
  BY <1>1, <1>2, EntryReplaced DEF SharedOK
<1>3. CASE UNCHANGED mCtx
  BY <1>3
<1>4. CASE AddProvider(c)
  <2>1. /\ mCtx' = [mCtx EXCEPT ![c]["EnvProvider"] = Provider(c)]
        /\ mCtx[c]["EnvProvider"] = None
    BY <1>1, <1>4 DEF AddProvider, Owned, ProviderLast
  <2>2. "EnvProvider" \in Handle /\ Provider(c) \in Object \cup {None}
    BY ObjectFacts DEF Handle
  <2> QED
    BY <1>2, <2>1, <2>2
<1>5. CASE AddContext(c)
  <2>1. CASE UNCHANGED mCtx
    BY <2>1
  <2>2. CASE ~UNCHANGED mCtx
    <3>1. /\ mCtx' = [mCtx EXCEPT ![c][obj[c].uid] = obj[c]]
          /\ pc[c] = "add" /\ mCtx[c][obj[c].uid] = None
      BY <1>5, <2>2 DEF AddContext
    <3>2. obj[c].uid \in Handle /\ obj[c] \in Object \cup {None}
      BY <1>1, <3>1 DEF LocalOK, Owned, AddsElement, Handle
    <3> QED
      BY <1>2, <3>1, <3>2
  <2> QED
    BY <2>1, <2>2
<1>6. CASE InsertEnv(c)
  <2> DEFINE p == obj[c].of
             x == IF mCtx[p]["MEnv#0"] = None THEN obj[c] ELSE mCtx[p]["MEnv#0"]
  <2>1. "MEnv#0" \in Handle
    BY DEF Handle
  <2>2. mCtx' = [mCtx EXCEPT ![p]["MEnv#0"] = x] /\ pc[c] = "insert"
    BY <1>6 DEF InsertEnv
  <2>3. obj[c] \in Object /\ p \in Session
    BY <1>1, <2>2, ObjectFacts DEF LocalOK, CreatingEnv
  <2>4. x \in Object \cup {None} /\ (mCtx[p]["MEnv#0"] = None \/ x = mCtx[p]["MEnv#0"])
    BY <1>1, <2>1, <2>3 DEF SharedOK
  <2> HIDE DEF x, p
  <2> QED
    BY <1>2, <2>1, <2>2, <2>3, <2>4
<1> QED
  BY <1>3, <1>4, <1>5, <1>6
  DEF ThreadSteps, ThreadStep, CallProvider, StartThread, Receive, Lookup, CallModel,
      CreateEnvThrows, Send, GetEnv, GetId, BadCall, CheckEnv, InstallEnv, ConstructEnv,
      PublishEnv, AttachEnv, shared

\* A handle leads to the same object as long as the session lives, whichever
\* thread registers contexts in it.
THEOREM HandlesAreStable == Spec => HandlesStable
<1>1. ASSUME IInv, [Next]_vars
      PROVE  [\A c \in Session, h \in Handle :
                mCtx[c][h] # None => mCtx'[c][h] = mCtx[c][h]]_vars
  <2>1. CASE UNCHANGED <<shared, local>>
    BY <2>1 DEF shared
  <2>2. ASSUME NEW c \in Session, ThreadSteps(c)
        PROVE  \A d \in Session, h \in Handle :
                 mCtx[d][h] # None => mCtx'[d][h] = mCtx[d][h]
    BY <1>1, <2>2, HandleKept
  <2> QED
    BY <1>1, <2>1, <2>2, NextCases
<1> QED
  BY <1>1, InvariantHolds, PTL DEF Spec, HandlesStable

-----------------------------------------------------------------------------
(* Whom a step concerns.                                                   *)

\* A thread changes nothing of another thread's own.
LEMMA OthersKept ==
  ASSUME LocalOK, NEW c \in Session, ThreadSteps(c), NEW d \in Session, d # c
  PROVE  pc'[d] = pc[d] /\ obj'[d] = obj[d] /\ res'[d] = res[d] /\ told'[d] = told[d]
<1>1. CASE StartThread(c) \/ AddProvider(c)
  BY <1>1 DEF StartThread, AddProvider, local
<1>2. CASE Receive(c) \/ Send(c)
  BY <1>2 DEF Receive, Send, Goto, LocalOK
<1>3. CASE Lookup(c) \/ CallModel(c)
  BY <1>3 DEF Lookup, CallModel, Finish, Goto, LocalOK
<1>4. CASE CreateEnvThrows(c) \/ InsertEnv(c) \/ AddContext(c)
  BY <1>4 DEF CreateEnvThrows, InsertEnv, AddContext, Finish, Goto, LocalOK
<1>5. ASSUME NEW p \in Session, CallProvider(c, p)
      PROVE  pc'[d] = pc[d] /\ obj'[d] = obj[d] /\ res'[d] = res[d] /\ told'[d] = told[d]
  <2>1. CASE GetEnv(c, p) \/ GetId(c, p) \/ BadCall(c, p) \/ \E e \in Session : AttachEnv(c, p, e)
    BY <2>1 DEF GetEnv, GetId, BadCall, AttachEnv, Finish, Goto, LocalOK
  <2>2. CASE CheckEnv(c, p) \/ PublishEnv(c, p)
    BY <2>2 DEF CheckEnv, PublishEnv, Finish, Goto, LocalOK
  <2>3. CASE InstallEnv(c, p) \/ ConstructEnv(c, p)
    BY <2>3 DEF InstallEnv, ConstructEnv, Finish, Goto, LocalOK
  <2> QED
    BY <1>5, <2>1, <2>2, <2>3 DEF CallProvider
<1> QED
  BY <1>1, <1>2, <1>3, <1>4, <1>5 DEF ThreadSteps, ThreadStep

\* Sessions are attached and never detached, to sessions that are then visited.
LEMMA AttachmentsGrow ==
  ASSUME SharedOK, NEW c \in Session, ThreadSteps(c)
  PROVE  /\ visited \subseteq visited'
         /\ \A d \in Session : \/ mAttached'[d] = mAttached[d]
                               \/ mAttached'[d] # None /\ mAttached'[d] \in visited'
<1>1. ASSUME NEW p \in Session, NEW e \in Session, AttachEnv(c, p, e)
      PROVE  /\ visited \subseteq visited'
             /\ \A d \in Session : \/ mAttached'[d] = mAttached[d]
                                   \/ mAttached'[d] # None /\ mAttached'[d] \in visited'
  BY <1>1, ConstantsAssumption DEF AttachEnv, SharedOK
<1>2. CASE UNCHANGED <<mAttached, visited>>
  BY <1>2
<1> QED
  BY <1>1, <1>2
  DEF ThreadSteps, ThreadStep, CallProvider, StartThread, AddProvider, Receive, Lookup,
      CallModel, CreateEnvThrows, AddContext, Send, GetEnv, GetId, BadCall, CheckEnv,
      InstallEnv, ConstructEnv, PublishEnv, InsertEnv, shared

\* A thread that is creating an environment has just checked, constructed or
\* read the pointer, or was doing so before.
LEMMA CreateSteps ==
  ASSUME LocalOK, NEW c \in Session, ThreadSteps(c), pc'[c] \in {"install", "publish", "insert"}
  PROVE  \/ UNCHANGED <<mEnv, built, local>>
         \/ \E q \in Session : /\ obj[c] = Provider(q) /\ mEnv[q] = None
                               /\ pc'[c] = "install" /\ UNCHANGED <<mEnv, built, obj>>
         \/ \E q \in Session : /\ obj[c] = Provider(q) /\ built' = built \cup {mEnv[q]}
                               /\ pc'[c] = "publish" /\ UNCHANGED <<mEnv, obj>>
         \/ \E q \in Session : /\ obj[c] = Provider(q) /\ obj'[c] = mEnv[q]
                               /\ pc[c] = "publish" /\ pc'[c] = "insert"
                               /\ UNCHANGED <<mEnv, built>>
<1>1. ASSUME NEW l, Goto(c, l), l \notin {"install", "publish", "insert"} PROVE FALSE
  BY <1>1 DEF Goto, LocalOK
<1>2. ASSUME NEW r, Finish(c, r) PROVE FALSE
  BY <1>1, <1>2 DEF Finish
<1>3. CASE StartThread(c) \/ AddProvider(c)
  BY <1>3 DEF StartThread, AddProvider
<1>4. ASSUME Receive(c) \/ Send(c) PROVE FALSE
  BY <1>1, <1>4 DEF Receive, Send
<1>5. ASSUME Lookup(c) \/ CallModel(c) \/ CreateEnvThrows(c) \/ InsertEnv(c) PROVE FALSE
  BY <1>1, <1>2, <1>5 DEF Lookup, CallModel, CreateEnvThrows, InsertEnv
<1>6. CASE AddContext(c)
  BY <1>2, <1>6 DEF AddContext, LocalOK
<1>7. ASSUME NEW p \in Session, CallProvider(c, p)
      PROVE  \/ \E q \in Session : /\ obj[c] = Provider(q) /\ mEnv[q] = None
                                   /\ pc'[c] = "install" /\ UNCHANGED <<mEnv, built, obj>>
             \/ \E q \in Session : /\ obj[c] = Provider(q) /\ built' = built \cup {mEnv[q]}
                                   /\ pc'[c] = "publish" /\ UNCHANGED <<mEnv, obj>>
             \/ \E q \in Session : /\ obj[c] = Provider(q) /\ obj'[c] = mEnv[q]
                                   /\ pc[c] = "publish" /\ pc'[c] = "insert"
                                   /\ UNCHANGED <<mEnv, built>>
  <2>1. CASE CheckEnv(c, p)
    BY <1>2, <2>1 DEF CheckEnv, Calls, Goto, LocalOK, shared
  <2>2. CASE ConstructEnv(c, p)
    BY <2>2 DEF ConstructEnv, Goto, LocalOK
  <2>3. CASE PublishEnv(c, p)
    BY <1>2, <2>3 DEF PublishEnv, Goto, LocalOK, shared
  <2>4. ASSUME \/ GetEnv(c, p) \/ GetId(c, p) \/ BadCall(c, p)
               \/ \E d \in Session : AttachEnv(c, p, d)
        PROVE  FALSE
    BY <1>2, <2>4 DEF GetEnv, GetId, BadCall, AttachEnv
  <2>5. ASSUME InstallEnv(c, p) PROVE FALSE
    BY <1>1, <2>5 DEF InstallEnv
  <2> QED
    BY <1>7, <2>1, <2>2, <2>3, <2>4, <2>5 DEF CallProvider
<1> QED
  BY <1>3, <1>4, <1>5, <1>6, <1>7 DEF ThreadSteps, ThreadStep

\* Only InstallEnv changes the environment of a session, and only ConstructSystem
\* what was constructed.
LEMMA EnvWrites ==
  ASSUME LocalOK, SharedOK, NEW c \in Session, ThreadSteps(c), NEW p \in Session
  PROVE  /\ built \subseteq built'
         /\ mEnv'[p] # mEnv[p] =>
              pc[c] = "install" /\ obj[c] = Provider(p) /\ pc'[c] = "construct" /\ obj' = obj
<1>1. CASE UNCHANGED <<mEnv, built>>
  BY <1>1
<1>2. ASSUME NEW q \in Session, InstallEnv(c, q)
      PROVE  /\ built \subseteq built'
             /\ mEnv'[p] # mEnv[p] =>
                  pc[c] = "install" /\ obj[c] = Provider(p) /\ pc'[c] = "construct" /\ obj' = obj
  BY <1>2 DEF InstallEnv, Goto, LocalOK, SharedOK
<1>3. ASSUME NEW q \in Session, ConstructEnv(c, q)
      PROVE  built \subseteq built' /\ mEnv' = mEnv
  BY <1>3 DEF ConstructEnv
<1> QED
  BY <1>1, <1>2, <1>3
  DEF ThreadSteps, ThreadStep, CallProvider, StartThread, AddProvider, Receive, Lookup,
      CallModel, CreateEnvThrows, AddContext, Send, GetEnv, GetId, BadCall, CheckEnv,
      PublishEnv, InsertEnv, AttachEnv, shared

-----------------------------------------------------------------------------
(* The race of two creators ends.                                          *)

\* Once a session has an environment and no thread is between CreateEnv's test
\* and its assignment, no step changes the environment or brings a thread there:
\* the test of whoever comes later fails.  This holds of every session, attached
\* to or not.
THEOREM EnvironmentSettles == Spec => EnvSettles
<1>1. ASSUME IInv, [Next]_vars
      PROVE  [\A p \in Session : Settled(p) => Settled(p)' /\ mEnv'[p] = mEnv[p]]_vars
  <2>1. CASE UNCHANGED <<shared, local>>
    BY <2>1 DEF shared, local, Settled, Provider
  <2>2. ASSUME NEW c \in Session, ThreadSteps(c), NEW p \in Session, Settled(p)
        PROVE  Settled(p)' /\ mEnv'[p] = mEnv[p]
    <3>1. LocalOK /\ SharedOK
      BY <1>1, TypeParts DEF IInv
    <3>2. mEnv[p] # None /\ \A d \in Session : pc[d] = "install" => obj[d] # Provider(p)
      BY <2>2 DEF Settled
    <3>3. mEnv'[p] = mEnv[p]
      BY <2>2, <3>1, <3>2, EnvWrites
    <3>4. ASSUME NEW d \in Session, pc'[d] = "install", obj'[d] = Provider(p)
          PROVE  FALSE
      <4>1. CASE d # c
        BY <2>2, <3>1, <3>2, <3>4, <4>1, OthersKept
      <4>2. CASE d = c
        <5>1. CASE UNCHANGED local
          BY <3>2, <3>4, <5>1 DEF local
        <5>2. ASSUME NEW q \in Session, obj[c] = Provider(q), mEnv[q] = None, UNCHANGED obj
              PROVE  FALSE
          <6>1. q = p
            BY <3>4, <4>2, <5>2, ObjectFacts
          <6> QED
            BY <3>2, <5>2, <6>1
        <5> QED
          BY <2>2, <3>1, <3>4, <4>2, <5>1, <5>2, CreateSteps
      <4> QED
        BY <4>1, <4>2
    <3> QED
      BY <3>2, <3>3, <3>4 DEF Settled, Provider
  <2> QED
    BY <1>1, <2>1, <2>2, NextCases
<1> QED
  BY <1>1, InvariantHolds, PTL DEF Spec, EnvSettles

-----------------------------------------------------------------------------
(* What a client was given leads to something.                             *)

\* The handle is registered, or on its way there or lost, before the reply that
\* gives it is sent.
ReplyResolves ==
  \A c \in Session : mAttached[c] = None /\ pc[c] = "reply" /\ res[c].handle # None =>
    Resolves(c, res[c].handle)

\* The environment of a session, and so what GetEnv answers, was registered,
\* failed to construct or is in the hands of a thread.
EnvTraced == \A p \in Session : mEnv[p] # None => Resolves(p, "MEnv#0")

\* A thread that has stored an environment goes on with it, throws or leaves its
\* handle registered.
LEMMA CreatorStep ==
  ASSUME IInv, NEW c \in Session, ThreadSteps(c), NEW d \in Session, c \in Creators(d)
  PROVE  c \in Creators(d)' \/ d \in lost' \/ mCtx'[d]["MEnv#0"] # None
<1>1. LocalOK /\ SharedOK /\ Owned
  BY TypeParts DEF IInv, Owned
<1>2. /\ pc[c] \in {"construct", "publish", "insert"} /\ obj[c].of = d
      /\ obj[c] \in Object /\ obj[c] # None
  BY <1>1 DEF Creators, LocalOK, CreatingEnv
<1>3. CASE UNCHANGED local
  BY <1>2, <1>3 DEF local, Creators
<1>4. CASE CreateEnvThrows(c)
  BY <1>2, <1>4 DEF CreateEnvThrows
<1>5. CASE InsertEnv(c)
  <2>1. PICK x : x = IF mCtx[d]["MEnv#0"] = None THEN obj[c] ELSE mCtx[d]["MEnv#0"]
    OBVIOUS
  <2>2. mCtx' = [mCtx EXCEPT ![d]["MEnv#0"] = x]
    BY <1>2, <1>5, <2>1 DEF InsertEnv
  <2>3. "MEnv#0" \in Handle /\ x # None
    BY <1>2, <2>1 DEF Handle
  <2>4. x \in Object \cup {None}
    BY <1>1, <1>2, <2>1, <2>3 DEF SharedOK
  <2> QED
    BY <1>1, <2>2, <2>3, <2>4, EntryReplaced DEF SharedOK
<1>6. ASSUME NEW p \in Session, ConstructEnv(c, p)
      PROVE  c \in Creators(d)'
  BY <1>1, <1>2, <1>6 DEF ConstructEnv, Goto, LocalOK, Creators
<1>7. ASSUME NEW p \in Session, PublishEnv(c, p)
      PROVE  c \in Creators(d)' \/ mCtx'[d]["MEnv#0"] # None
  <2>1. pc[c] = "publish" /\ p = d /\ mCtx' = mCtx
    BY <1>2, <1>7, ObjectFacts DEF PublishEnv, shared
  <2>2. CASE mCtx[p]["MEnv#0"] # None
    BY <2>1, <2>2
  <2>3. CASE mCtx[p]["MEnv#0"] = None
    <3>1. pc'[c] = "insert" /\ obj'[c] = mEnv[d]
      BY <1>1, <1>7, <2>1, <2>3 DEF PublishEnv, Goto, LocalOK
    <3>2. mEnv[d].of = d
      BY <1>1, <1>2 DEF Owned, EnvStored, EnvOwned
    <3> QED
      BY <3>1, <3>2 DEF Creators
  <2> QED
    BY <2>2, <2>3
<1>8. ASSUME pc[c] \notin {"construct", "publish", "insert"} PROVE FALSE
  BY <1>2, <1>8
<1> QED
  BY <1>3, <1>4, <1>5, <1>6, <1>7, <1>8
  DEF ThreadSteps, ThreadStep, CallProvider, StartThread, AddProvider, Receive, Lookup,
      CallModel, AddContext, Send, GetEnv, GetId, BadCall, CheckEnv, InstallEnv,
      AttachEnv, Calls

\* What fails to construct is remembered.
LEMMA LostGrows == ASSUME NEW c \in Session, ThreadSteps(c) PROVE lost \subseteq lost'
<1>1. CASE CreateEnvThrows(c)
  BY <1>1 DEF CreateEnvThrows
<1>2. CASE UNCHANGED lost
  BY <1>2
<1> QED
  BY <1>1, <1>2
  DEF ThreadSteps, ThreadStep, CallProvider, StartThread, AddProvider, Receive, Lookup,
      CallModel, AddContext, Send, GetEnv, GetId, BadCall, CheckEnv, InstallEnv,
      ConstructEnv, PublishEnv, InsertEnv, AttachEnv, shared

\* What could be said of a handle can be said of it still.
LEMMA ResolvesKept ==
  ASSUME IInv, NEW c \in Session, ThreadSteps(c), NEW d \in Session, NEW h \in Handle,
         Resolves(d, h)
  PROVE  Resolves(d, h)'
<1>1. LocalOK
  BY TypeParts DEF IInv
<1>2. CASE mCtx[d][h] # None
  BY <1>2, HandleKept DEF Resolves
<1>3. CASE h = "MEnv#0" /\ d \in lost
  BY <1>3, LostGrows DEF Resolves
<1>4. CASE h = "MEnv#0" /\ Creators(d) # {}
  <2>1. PICK t \in Session : t \in Creators(d)
    BY <1>4 DEF Creators
  <2>2. CASE t = c
    BY <1>4, <2>1, <2>2, CreatorStep DEF Resolves
  <2>3. CASE t # c
    <3>1. t \in Creators(d)'
      BY <1>1, <2>1, <2>3, OthersKept DEF Creators
    <3> QED
      BY <1>4, <3>1 DEF Resolves
  <2> QED
    BY <2>2, <2>3
<1> QED
  BY <1>2, <1>3, <1>4 DEF Resolves

\* An environment stored by a step is in the hands of the thread that stored it.
LEMMA EnvTracedStep ==
  ASSUME IInv, EnvTraced, NEW c \in Session, ThreadSteps(c)
  PROVE  EnvTraced'
<1> SUFFICES ASSUME NEW p \in Session, mEnv'[p] # None PROVE Resolves(p, "MEnv#0")'
  BY DEF EnvTraced
<1>1. LocalOK /\ SharedOK /\ "MEnv#0" \in Handle
  BY TypeParts DEF IInv, Handle
<1>2. CASE mEnv'[p] = mEnv[p]
  BY <1>1, <1>2, ResolvesKept DEF EnvTraced
<1>3. CASE mEnv'[p] # mEnv[p]
  <2>1. obj'[c].of = p /\ pc'[c] = "construct"
    BY <1>1, <1>3, EnvWrites, ObjectFacts
  <2>2. c \in Creators(p)'
    BY <2>1 DEF Creators
  <2> QED
    BY <2>2 DEF Resolves
<1> QED
  BY <1>2, <1>3

\* The reply that a thread is going to send gives a handle only when it has
\* registered it, in its own session if that is not attached, or found an
\* environment there.
LEMMA RepliesStep ==
  ASSUME IInv, ReplyResolves, EnvTraced, NEW c \in Session, ThreadSteps(c),
         mAttached'[c] = None, pc'[c] = "reply", NEW g, g = res'[c].handle, g # None
  PROVE  Resolves(c, g)'
<1>1. LocalOK /\ SharedOK /\ Owned
  BY TypeParts DEF IInv, Owned
<1>2. mAttached[c] = None
  BY <1>1, AttachmentsGrow
<1>3. CASE UNCHANGED local
  <2>1. pc[c] = "reply" /\ res[c].handle # None /\ g = res[c].handle
    BY <1>3 DEF local
  <2>2. g \in Handle
    BY <1>1, <2>1 DEF LocalOK, Reply
  <2>3. Resolves(c, g)
    BY <1>2, <2>1 DEF ReplyResolves
  <2> QED
    BY <2>2, <2>3, ResolvesKept
<1>4. ASSUME Finish(c, Error) \/ Finish(c, Ok) PROVE FALSE
  BY <1>1, <1>4 DEF Finish, LocalOK, Error, Ok
<1>5. ASSUME NEW l, l # "reply", Goto(c, l) PROVE FALSE
  BY <1>1, <1>5 DEF Goto, LocalOK
<1>6. ASSUME NEW h, Finish(c, Gives(h)) PROVE g = h
  BY <1>1, <1>6 DEF Finish, LocalOK, Gives
<1>7. CASE AddContext(c)
  <2>1. pc[c] = "add" /\ obj[c].uid \in Handle /\ obj[c] \in Object \cup {None} /\ obj[c] # None
    BY <1>1, <1>7 DEF AddContext, Owned, AddsElement, Handle, LocalOK
  <2>2. /\ mCtx' = [mCtx EXCEPT ![c][obj[c].uid] = obj[c]]
        /\ Finish(c, Gives(obj[c].uid))
    BY <1>1, <1>7, <2>1 DEF AddContext, LocalOK
  <2>3. mCtx'[c][obj[c].uid] = obj[c]
    BY <1>1, <2>1, <2>2, EntryReplaced DEF SharedOK
  <2> QED
    BY <1>6, <2>1, <2>2, <2>3 DEF Resolves
<1>8. CASE InsertEnv(c)
  <2>1. pc[c] = "insert" /\ Finish(c, Gives("MEnv#0"))
    BY <1>8 DEF InsertEnv
  <2>2. obj[c] # None /\ obj[c].of = c
    BY <1>1, <1>2, <2>1 DEF LocalOK, CreatingEnv, Owned, ObjOwned
  <2>3. c \in Creators(c)
    BY <2>1, <2>2 DEF Creators
  <2>4. c \notin Creators(c)'
    BY DEF Creators
  <2>5. g = "MEnv#0"
    BY <1>6, <2>1
  <2> QED
    BY <2>3, <2>4, <2>5, CreatorStep DEF Resolves
<1>9. ASSUME NEW p \in Session, GetEnv(c, p)
      PROVE  Resolves(c, g)'
  <2>1. CASE mEnv[p] = None
    BY <1>4, <1>9, <2>1 DEF GetEnv
  <2>2. CASE mEnv[p] # None
    <3>1. g = "MEnv#0" /\ obj[c] = Provider(p)
      BY <1>6, <1>9, <2>2 DEF GetEnv, Calls
    <3>2. p = c
      BY <1>1, <1>2, <3>1, ObjectFacts DEF Owned, ObjOwned
    <3>3. Resolves(c, "MEnv#0") /\ "MEnv#0" \in Handle
      BY <2>2, <3>2 DEF EnvTraced, Handle
    <3>4. Resolves(c, "MEnv#0")'
      BY <3>3, ResolvesKept
    <3> QED
      BY <3>1, <3>4
  <2> QED
    BY <2>1, <2>2
<1> QED
  BY <1>3, <1>4, <1>5, <1>7, <1>8, <1>9
  DEF ThreadSteps, ThreadStep, CallProvider, StartThread, AddProvider, Receive, Lookup,
      CallModel, CreateEnvThrows, Send, GetId, BadCall, CheckEnv, InstallEnv,
      ConstructEnv, PublishEnv, AttachEnv

\* What a client was told stays registered, and what it is told now is.
LEMMA ResolveStep ==
  ASSUME IInv, HandlesResolve, ReplyResolves, EnvTraced, [Next]_vars
  PROVE  HandlesResolve' /\ ReplyResolves' /\ EnvTraced'
<1>1. LocalOK /\ SharedOK
  BY TypeParts DEF IInv
<1>2. CASE UNCHANGED <<shared, local>>
  BY <1>2 DEF shared, local, HandlesResolve, ReplyResolves, EnvTraced, Resolves, Creators
<1>3. ASSUME NEW c \in Session, ThreadSteps(c)
      PROVE  HandlesResolve' /\ ReplyResolves' /\ EnvTraced'
  <2>1. \A d \in Session : mAttached'[d] = None => mAttached[d] = None
    BY <1>1, <1>3, AttachmentsGrow
  <2>2. ASSUME NEW d \in Session, NEW h \in Handle, Resolves(d, h)
        PROVE  Resolves(d, h)'
    BY <1>3, <2>2, ResolvesKept
  <2>3. \A d \in Session : told[d] \subseteq Handle
    BY <1>1 DEF LocalOK
  <2>4. ASSUME NEW d \in Session, mAttached'[d] = None, NEW h \in told'[d]
        PROVE  Resolves(d, h)'
    <3>1. CASE h \in told[d]
      BY <2>1, <2>2, <2>3, <2>4, <3>1 DEF HandlesResolve
    <3>2. CASE h \notin told[d]
      <4>1. d = c
        BY <1>1, <1>3, <2>4, <3>2, OthersKept
      <4>2. Send(c) \/ UNCHANGED told
        BY <1>3 DEF ThreadSteps, ThreadStep, CallProvider, StartThread, AddProvider,
           Receive, Lookup, CallModel, CreateEnvThrows, AddContext, GetEnv, GetId, BadCall,
           CheckEnv, InstallEnv, ConstructEnv, PublishEnv, InsertEnv, AttachEnv, local
      <4>3. Send(c)
        BY <2>4, <3>2, <4>2
      <4>4. /\ pc[c] = "reply"
            /\ told' = [told EXCEPT ![c] = told[c] \cup ({res[c].handle} \ {None})]
        BY <4>3 DEF Send
      <4>5. h = res[c].handle /\ h # None
        BY <1>1, <2>4, <3>2, <4>1, <4>4 DEF LocalOK
      <4>6. h \in Handle /\ Resolves(d, h)
        BY <1>1, <2>1, <2>4, <4>1, <4>4, <4>5 DEF ReplyResolves, LocalOK, Reply
      <4> QED
        BY <2>2, <4>6
    <3> QED
      BY <3>1, <3>2
  <2>5. ASSUME NEW d \in Session, mAttached'[d] = None, pc'[d] = "reply",
               NEW g, g = res'[d].handle, g # None
        PROVE  Resolves(d, g)'
    <3>1. CASE d = c
      BY <1>3, <2>5, <3>1, RepliesStep
    <3>2. CASE d # c
      <4>1. pc[d] = "reply" /\ g = res[d].handle
        BY <1>1, <1>3, <2>5, <3>2, OthersKept
      <4>2. g \in Handle /\ Resolves(d, g)
        BY <1>1, <2>1, <2>5, <4>1 DEF LocalOK, Reply, ReplyResolves
      <4> QED
        BY <2>2, <4>2
    <3> QED
      BY <3>1, <3>2
  <2>6. HandlesResolve'
    BY <2>4 DEF HandlesResolve
  <2>7. ReplyResolves'
    BY <2>5 DEF ReplyResolves
  <2> QED
    BY <1>3, <2>6, <2>7, EnvTracedStep
<1> QED
  BY <1>2, <1>3, NextCases

\* A handle that was given to the client of a session that is not attached
\* leads to something for as long as the session is not: it is in the map before
\* the reply is sent, and nothing is taken out of the map.  That of an environment
\* which GetEnv has answered early is on its way there, whichever thread creates
\* it, unless ConstructSystem threw.
THEOREM GivenHandlesResolve == Spec => []HandlesResolve
<1> DEFINE HInv == HandlesResolve /\ ReplyResolves /\ EnvTraced
<1>1. Init => HInv
  BY DEF Init, HandlesResolve, ReplyResolves, EnvTraced
<1>2. IInv /\ HInv /\ [Next]_vars => HInv'
  BY ResolveStep
<1>3. HInv => HandlesResolve
  OBVIOUS
<1> HIDE DEF HInv
<1> QED
  BY <1>1, <1>2, <1>3, InvariantHolds, PTL DEF Spec

-----------------------------------------------------------------------------
(* What other sessions can reach of a session: nothing before one of them  *)
(* has attached to it.                                                     *)

\* A session that another one is attached to counts as visited; what a session
\* has in its map, and what its thread works on, is its own or that of a visited
\* one.
Reach ==
  /\ \A c \in Session : mAttached[c] # None => mAttached[c] \in visited
  /\ \A c \in Session, h \in Handle :
       mCtx[c][h] # None => mCtx[c][h].of \in {c} \cup visited
  /\ \A c \in Session : obj[c] # None => obj[c].of \in {c} \cup visited

\* What such a thread found, that there is no environment, still holds when it
\* stores one; the environment is constructed before it is published, and what
\* is inserted is that environment.
CheckedHolds ==
  \A p \in Session \ visited :
    pc[p] = "install" /\ obj[p] = Provider(p) => mEnv[p] = None
BuiltFirst ==
  \A p \in Session \ visited :
    /\ pc[p] = "publish" /\ obj[p] = Provider(p) => mEnv[p] \in built
    /\ pc[p] = "insert" /\ obj[p].of = p => obj[p] = mEnv[p] /\ mEnv[p] \in built

\* The inductive invariant of a session that is not visited.
Private == Reach /\ PrivateEnv /\ CheckedHolds /\ BuiltFirst

\* The three places that write a map, and what they write.
LEMMA MapWrites ==
  ASSUME IInv, NEW c \in Session, ThreadSteps(c), NEW d \in Session, NEW h \in Handle,
         mCtx'[d][h] # mCtx[d][h]
  PROVE  \/ d = c /\ h = "EnvProvider" /\ mCtx'[d][h] = Provider(c)
         \/ d = c /\ h \in Uid /\ mCtx'[d][h] = obj[c]
         \/ /\ pc[c] = "insert" /\ obj[c] # None /\ obj[c].of = d /\ h = "MEnv#0"
            /\ mCtx'[d][h] = obj[c] /\ mEnv' = mEnv
<1>1. LocalOK /\ SharedOK /\ Owned
  BY TypeParts DEF IInv, Owned
<1>2. ASSUME NEW p \in Session, NEW k \in Handle, NEW x \in Object \cup {None},
             mCtx' = [mCtx EXCEPT ![p][k] = x]
      PROVE  d = p /\ h = k /\ mCtx'[d][h] = x
  BY <1>1, <1>2, EntryReplaced DEF SharedOK
<1>3. CASE AddProvider(c)
  <2>1. mCtx' = [mCtx EXCEPT ![c]["EnvProvider"] = Provider(c)]
    BY <1>3 DEF AddProvider
  <2>2. "EnvProvider" \in Handle /\ Provider(c) \in Object \cup {None}
    BY ObjectFacts DEF Handle
  <2> QED
    BY <1>2, <2>1, <2>2
<1>4. CASE AddContext(c)
  <2>1. mCtx' = [mCtx EXCEPT ![c][obj[c].uid] = obj[c]] /\ pc[c] = "add"
    BY <1>4 DEF AddContext
  <2>2. obj[c].uid \in Uid /\ obj[c].uid \in Handle /\ obj[c] \in Object \cup {None}
    BY <1>1, <2>1 DEF LocalOK, Owned, AddsElement, Handle
  <2>3. d = c /\ h = obj[c].uid /\ mCtx'[d][h] = obj[c]
    BY <1>2, <2>1, <2>2
  <2> QED
    BY <2>2, <2>3
<1>5. ASSUME InsertEnv(c)
      PROVE  /\ pc[c] = "insert" /\ obj[c] # None /\ obj[c].of = d /\ h = "MEnv#0"
             /\ mCtx'[d][h] = obj[c] /\ mEnv' = mEnv
  <2>1. PICK p : p = obj[c].of
    OBVIOUS
  <2>2. PICK x : x = IF mCtx[p]["MEnv#0"] = None THEN obj[c] ELSE mCtx[p]["MEnv#0"]
    OBVIOUS
  <2>3. /\ pc[c] = "insert" /\ mEnv' = mEnv
        /\ mCtx' = [mCtx EXCEPT ![p]["MEnv#0"] = x]
    BY <1>5, <2>1, <2>2 DEF InsertEnv
  <2>4. "MEnv#0" \in Handle
    BY DEF Handle
  <2>5. obj[c] \in Object /\ obj[c] # None /\ p \in Session
    BY <1>1, <2>1, <2>3, ObjectFacts DEF LocalOK, CreatingEnv
  <2>6. x \in Object \cup {None}
    BY <1>1, <2>2, <2>4, <2>5 DEF SharedOK
  <2>7. d = p /\ h = "MEnv#0" /\ mCtx'[d][h] = x
    BY <1>2, <2>3, <2>4, <2>5, <2>6
  <2>8. x = obj[c]
    BY <2>2, <2>7
  <2> QED
    BY <2>1, <2>3, <2>5, <2>7, <2>8
<1>6. ASSUME UNCHANGED mCtx PROVE FALSE
  BY <1>6
<1> QED
  BY <1>3, <1>4, <1>5, <1>6
  DEF ThreadSteps, ThreadStep, CallProvider, StartThread, Receive, Lookup, CallModel,
      CreateEnvThrows, Send, GetEnv, GetId, BadCall, CheckEnv, InstallEnv, ConstructEnv,
      PublishEnv, AttachEnv, shared

\* Nothing of a session that is not visited comes into the map or into the hands
\* of another one.
LEMMA ReachStep ==
  ASSUME IInv, Reach, NEW c \in Session, ThreadSteps(c)
  PROVE  Reach'
<1>1. LocalOK /\ SharedOK /\ Owned
  BY TypeParts DEF IInv, Owned
<1>2. /\ visited \subseteq visited'
      /\ \A d \in Session : \/ mAttached'[d] = mAttached[d]
                            \/ mAttached'[d] # None /\ mAttached'[d] \in visited'
  BY <1>1, AttachmentsGrow
<1>3. \A d \in Session : mAttached'[d] # None => mAttached'[d] \in visited'
  BY <1>2 DEF Reach
<1>4. ASSUME NEW d \in Session, NEW h \in Handle, mCtx'[d][h] # None
      PROVE  mCtx'[d][h].of \in {d} \cup visited'
  <2>1. CASE mCtx'[d][h] = mCtx[d][h]
    BY <1>2, <1>4, <2>1 DEF Reach
  <2>2. CASE d = c /\ mCtx'[d][h] = Provider(c)
    BY <2>2, ObjectFacts
  <2>3. CASE d = c /\ mCtx'[d][h] = obj[c]
    BY <1>2, <1>4, <2>3 DEF Reach
  <2>4. CASE mCtx'[d][h] = obj[c] /\ obj[c].of = d
    BY <2>4
  <2> QED
    BY <2>1, <2>2, <2>3, <2>4, MapWrites
<1>5. ASSUME NEW o, obj'[c] = o, o = None \/ o = obj[c], o # None
      PROVE  obj'[c].of \in {c} \cup visited'
  BY <1>2, <1>5 DEF Reach
<1>6. ASSUME obj'[c] # None
      PROVE  obj'[c].of \in {c} \cup visited'
  <2>1. CASE Send(c)
    BY <1>1, <1>6, <2>1 DEF Send, LocalOK
  <2>2. CASE Lookup(c)
    <3>1. CASE LookupFails(c)
      BY <1>5, <1>6, <2>2, <3>1 DEF Lookup
    <3>2. CASE ~LookupFails(c)
      <4>1. PICK s \in Session : s = Scope(c) /\ s \in {c} \cup visited
        BY <1>1 DEF Scope, Reach, SharedOK
      <4>2. PICK h \in Handle : h = req[c].ctx
        BY <1>1, <3>2 DEF LookupFails, LocalOK, Message
      <4>3. obj'[c] = mCtx[s][h]
        BY <1>1, <2>2, <3>2, <4>1, <4>2 DEF Lookup, LocalOK
      <4>4. mCtx[s][h].of \in {s} \cup visited
        BY <1>6, <4>3 DEF Reach
      <4> QED
        BY <1>2, <4>1, <4>3, <4>4
    <3> QED
      BY <3>1, <3>2
  <2>3. CASE CallModel(c)
    <3>1. CASE UNCHANGED obj
      BY <1>5, <1>6, <3>1
    <3>2. CASE \E u \in Uid : obj' = [obj EXCEPT ![c] = Element(obj[c], u)]
      <4>1. PICK u \in Uid : obj'[c] = Element(obj[c], u)
        BY <1>1, <3>2 DEF LocalOK
      <4>2. obj[c] \in Object /\ obj[c] # None
        BY <1>1, <2>3 DEF CallModel, LocalOK
      <4>3. obj'[c].of = obj[c].of
        BY <4>1, <4>2, ObjectFacts
      <4> QED
        BY <1>2, <4>2, <4>3 DEF Reach
    <3> QED
      BY <2>3, <3>1, <3>2 DEF CallModel
  <2>4. CASE UNCHANGED obj
    BY <1>5, <1>6, <2>4
  <2>5. ASSUME NEW p \in Session, PublishEnv(c, p), ~UNCHANGED obj
        PROVE  obj'[c].of \in {c} \cup visited'
    <3>1. pc[c] = "publish" /\ obj[c] = Provider(p) /\ obj'[c] = mEnv[p]
      BY <1>1, <2>5 DEF PublishEnv, LocalOK
    <3>2. obj[c].of = p /\ obj[c] # None
      BY <3>1, ObjectFacts
    <3>3. mEnv[p].of = p
      BY <1>1, <3>1, <3>2 DEF Owned, EnvStored, EnvOwned
    <3> QED
      BY <1>2, <3>1, <3>2, <3>3 DEF Reach
  <2> QED
    BY <2>1, <2>2, <2>3, <2>4, <2>5
    DEF ThreadSteps, ThreadStep, CallProvider, StartThread, AddProvider, Receive,
        CreateEnvThrows, AddContext, GetEnv, GetId, BadCall, CheckEnv, InstallEnv,
        ConstructEnv, PublishEnv, InsertEnv, AttachEnv, local
<1>7. ASSUME NEW d \in Session, obj'[d] # None
      PROVE  obj'[d].of \in {d} \cup visited'
  <2>1. CASE d = c
    BY <1>6, <1>7, <2>1
  <2>2. CASE d # c
    BY <1>1, <1>2, <1>7, <2>2, OthersKept DEF Reach
  <2> QED
    BY <2>1, <2>2
<1> QED
  BY <1>3, <1>4, <1>7 DEF Reach

\* Only the thread of a session that is not visited calls its provider, or inserts
\* its environment.
LEMMA OwnProvider ==
  ASSUME Reach, NEW c \in Session, NEW p \in Session \ visited,
         obj[c] # None, obj[c].of = p
  PROVE  c = p
BY DEF Reach

\* What the thread of a session that is not visited has found out about its
\* environment stays true: no other thread creates or publishes one in it.
LEMMA PrivateThreadStep ==
  ASSUME IInv, Private, NEW c \in Session, ThreadSteps(c)
  PROVE  Private'
<1>1. LocalOK /\ SharedOK /\ Owned /\ Reach
  BY TypeParts DEF IInv, Owned, Private
<1>2. Reach'
  BY <1>1, ReachStep
<1>3. visited \subseteq visited'
  BY <1>1, AttachmentsGrow
<1>5. ASSUME NEW p \in Session \ visited', mEnv'[p] # mEnv[p]
      PROVE  /\ c = p /\ obj[p] = Provider(p) /\ pc[p] = "install" /\ pc'[p] = "construct"
             /\ mEnv[p] = None
  <2>1. pc[c] = "install" /\ obj[c] = Provider(p) /\ pc'[c] = "construct"
    BY <1>1, <1>5, EnvWrites
  <2>2. c = p
    BY <1>1, <1>3, <2>1, OwnProvider, ObjectFacts
  <2> QED
    BY <1>3, <2>1, <2>2 DEF Private, CheckedHolds
<1>6. built \subseteq built' /\ None \notin built
  BY <1>1, EnvWrites, NullAssumption DEF SharedOK
<1>7. PrivateEnv'
  <2> SUFFICES ASSUME NEW p \in Session \ visited', mCtx'[p]["MEnv#0"] # None
               PROVE  mCtx'[p]["MEnv#0"] = mEnv'[p] /\ mEnv'[p] \in built'
    BY DEF PrivateEnv
  <2>1. "MEnv#0" \in Handle /\ p \in Session \ visited
    BY <1>3 DEF Handle
  <2>2. CASE mCtx[p]["MEnv#0"] # None
    <3>1. mCtx'[p]["MEnv#0"] = mCtx[p]["MEnv#0"]
      BY <2>1, <2>2, HandleKept
    <3>2. mCtx[p]["MEnv#0"] = mEnv[p] /\ mEnv[p] \in built /\ mEnv[p] # None
      BY <1>6, <2>1, <2>2 DEF Private, PrivateEnv
    <3>3. mEnv'[p] = mEnv[p]
      BY <1>5, <3>2
    <3> QED
      BY <1>6, <3>1, <3>2, <3>3
  <2>3. CASE mCtx[p]["MEnv#0"] = None
    <3>1. /\ pc[c] = "insert" /\ obj[c] # None /\ obj[c].of = p
          /\ mCtx'[p]["MEnv#0"] = obj[c] /\ mEnv' = mEnv
      BY <2>1, <2>3, MapWrites, ConstantsAssumption
    <3>2. c = p
      BY <1>1, <2>1, <3>1, OwnProvider
    <3>3. obj[p] = mEnv[p] /\ mEnv[p] \in built
      BY <2>1, <3>1, <3>2 DEF Private, BuiltFirst
    <3> QED
      BY <1>6, <3>1, <3>2, <3>3
  <2> QED
    BY <2>2, <2>3
<1>8. CheckedHolds'
  <2> SUFFICES ASSUME NEW p \in Session \ visited', pc'[p] = "install", obj'[p] = Provider(p)
               PROVE  mEnv'[p] = None
    BY DEF CheckedHolds, Provider
  <2>1. mEnv'[p] = mEnv[p]
    BY <1>5
  <2>2. ASSUME pc[p] = "install", obj[p] = Provider(p) PROVE mEnv[p] = None
    BY <1>3, <2>2 DEF Private, CheckedHolds
  <2>3. CASE c # p
    BY <1>1, <2>1, <2>2, <2>3, OthersKept
  <2>4. CASE c = p
    <3>1. CASE UNCHANGED local
      BY <2>1, <2>2, <3>1 DEF local
    <3>2. ASSUME NEW q \in Session, obj[c] = Provider(q), mEnv[q] = None, UNCHANGED obj
          PROVE  mEnv[p] = None
      <4>1. q = p
        BY <2>4, <3>2, ObjectFacts
      <4> QED
        BY <3>2, <4>1
    <3> QED
      BY <1>1, <2>1, <2>4, <3>1, <3>2, CreateSteps
  <2> QED
    BY <2>3, <2>4
<1>9. BuiltFirst'
  <2>1. ASSUME NEW p \in Session \ visited', pc'[p] \in {"publish", "insert"}
        PROVE  mEnv'[p] = mEnv[p]
    BY <1>5, <2>1
  <2>2. ASSUME NEW p \in Session \ visited', pc'[p] = "publish", obj'[p] = Provider(p)
        PROVE  mEnv[p] \in built'
    <3>1. ASSUME pc[p] = "publish", obj[p] = Provider(p) PROVE mEnv[p] \in built
      BY <1>3, <3>1 DEF Private, BuiltFirst
    <3>2. CASE c # p
      BY <1>1, <1>6, <2>2, <3>1, <3>2, OthersKept
    <3>3. CASE c = p
      <4>1. CASE UNCHANGED local
        BY <1>6, <2>2, <3>1, <4>1 DEF local
      <4>2. ASSUME NEW q \in Session, obj[c] = Provider(q), built' = built \cup {mEnv[q]},
                   UNCHANGED obj
            PROVE  mEnv[p] \in built'
        <5>1. q = p
          BY <2>2, <3>3, <4>2, ObjectFacts
        <5> QED
          BY <4>2, <5>1
      <4> QED
        BY <1>1, <2>2, <3>3, <4>1, <4>2, CreateSteps
    <3> QED
      BY <3>2, <3>3
  <2>3. ASSUME NEW p \in Session \ visited', pc'[p] = "insert", obj'[p].of = p
        PROVE  obj'[p] = mEnv[p] /\ mEnv[p] \in built'
    <3>1. ASSUME pc[p] = "insert", obj[p].of = p PROVE obj[p] = mEnv[p] /\ mEnv[p] \in built
      BY <1>3, <3>1 DEF Private, BuiltFirst
    <3>2. CASE c # p
      BY <1>1, <1>6, <2>3, <3>1, <3>2, OthersKept
    <3>3. CASE c = p
      <4>1. CASE UNCHANGED local
        BY <1>6, <2>3, <3>1, <4>1 DEF local
      <4>2. ASSUME NEW q \in Session, obj[c] = Provider(q), obj'[c] = mEnv[q],
                   pc[c] = "publish"
            PROVE  obj'[p] = mEnv[p] /\ mEnv[p] \in built'
        <5>1. obj[c].of = q /\ obj[c] # None /\ q \in Session
          BY <4>2, ObjectFacts
        <5>2. mEnv[q].of = q
          BY <1>1, <4>2, <5>1 DEF Owned, EnvStored, EnvOwned
        <5>3. q = p
          BY <2>3, <3>3, <4>2, <5>2
        <5>4. mEnv[p] \in built
          BY <1>3, <3>3, <4>2, <5>3 DEF Private, BuiltFirst
        <5> QED
          BY <1>6, <3>3, <4>2, <5>3, <5>4
      <4> QED
        BY <1>1, <2>3, <3>3, <4>1, <4>2, CreateSteps
    <3> QED
      BY <3>2, <3>3
  <2> QED
    BY <2>1, <2>2, <2>3 DEF BuiltFirst, Provider
<1> QED
  BY <1>2, <1>7, <1>8, <1>9 DEF Private

\* The same for every step.
LEMMA PrivateStep == IInv /\ Private /\ [Next]_vars => Private'
<1> SUFFICES ASSUME IInv, Private, [Next]_vars PROVE Private'
  OBVIOUS
<1>1. CASE UNCHANGED <<shared, local>>
  <2>1. UNCHANGED <<mCtx, mEnv, mAttached, built, visited, pc, obj>>
    BY <1>1 DEF shared, local
  <2>2. Reach'
    BY <2>1 DEF Private, Reach
  <2>3. PrivateEnv' /\ BuiltFirst'
    BY <2>1 DEF Private, PrivateEnv, BuiltFirst, Provider
  <2>4. CheckedHolds'
    BY <2>1 DEF Private, CheckedHolds, Provider
  <2> QED
    BY <2>2, <2>3, <2>4 DEF Private
<1> QED
  BY <1>1, NextCases, PrivateThreadStep

\* A session that no other one has attached to is private in every reachable
\* state.
LEMMA PrivateHolds == Spec => []Private
<1>1. Init => Private
  BY ConstantsAssumption DEF Init, Private, Reach, PrivateEnv, CheckedHolds,
     BuiltFirst, Handle
<1> QED
  BY <1>1, PrivateStep, InvariantHolds, PTL DEF Spec

\* The handle of the environment of a session that no other one has attached to
\* leads to that environment, and it was constructed first.
THEOREM EnvIsPrivate == Spec => []PrivateEnv
<1>1. Private => PrivateEnv
  BY DEF Private
<1> QED
  BY <1>1, PrivateHolds, PTL
=============================================================================
