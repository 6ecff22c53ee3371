-------------------------- MODULE SessionContexts --------------------------
(***************************************************************************)
(* What a session answers: HandleMessage of server/sclient.cpp, the        *)
(* contexts (handles) of each session, its environment and the attachment  *)
(* of one session to another.                                              *)
(*                                                                         *)
(* A session thread works on the maps and the environment of its own       *)
(* session and, once attached, on those of another one, with no lock: each *)
(* access to them is a step of its own.  The table of sessions and the     *)
(* sockets are the subject of SessionRegistry.                             *)
(***************************************************************************)
EXTENDS Integers, FiniteSets

CONSTANTS
  Session,      \* the SessionClient objects
  Uid,          \* the uids of model elements, as Uid() computes them
  None,         \* the null pointer
  MaxRequests   \* bound: requests one session handles

ASSUME ConstantsAssumption ==
  /\ IsFiniteSet(Session) /\ None \notin Session
  /\ MaxRequests \in Nat
  /\ None \notin Uid /\ "EnvProvider" \notin Uid /\ "MEnv#0" \notin Uid

Handle == {"EnvProvider", "MEnv#0"} \cup Uid

\* The methods of the provider, and one it does not have.  A call of an
\* environment or of an element is decided by code that is not here.
Method  == {"GetEnv", "CreateEnv", "GetId", "AttachEnv", "Unknown"}
Message == [ctx : Handle \cup {None}, spec : Method \cup {None}]

\* The C++ objects a handle can lead to.  An environment is told from others
\* by the thread that created it: a thread creates at most one per session.
Provider(c)   == [type |-> "provider", of |-> c, by |-> None, uid |-> None]
Env(c, t)     == [type |-> "env", of |-> c, by |-> t, uid |-> None]
Element(e, u) == [type |-> "element", of |-> e.of, by |-> e.by, uid |-> u]

Object == [type : {"provider", "env", "element"}, of : Session,
           by : Session \cup {None}, uid : Uid \cup {None}]

ASSUME NullAssumption == None \notin Object

VARIABLES
  up,        \* the server process is alive
  ctor,      \* how far the accepting thread is in the constructor
  mCtx,      \* SessionClient::mCtx: what each handle leads to, None if absent
  mEnv,      \* SessionClient::mEnv
  mAttached, \* SessionClient::mAttached
  built,     \* the environments whose ConstructSystem has returned
  pc,        \* where each session thread is
  req,       \* the message it is handling
  obj,       \* the context it has looked up, then the one Call returned
  res,       \* the reply it is about to send
  asked,     \* requests received
  answered,  \* replies sent
  told,      \* the handles the client was given by CreateEnv and by calls
  visited,   \* history: the sessions that were ever attached to
  lost       \* history: the sessions in which a ConstructSystem threw

local  == <<pc, req, obj, res, asked, answered, told>>
shared == <<ctor, mCtx, mEnv, mAttached, built, visited, lost>>
vars   == <<up, shared, local>>

NoMessage == [ctx |-> None, spec |-> None]
Error     == [ok |-> FALSE, handle |-> None]
Ok        == [ok |-> TRUE, handle |-> None]
Gives(h)  == [ok |-> TRUE, handle |-> h]
Reply     == [ok : BOOLEAN, handle : Handle \cup {None}]

CreatingEnv == {"install", "construct", "publish", "insert"}
Locations   == {"recv", "lookup", "call", "add", "reply"} \cup CreatingEnv

\* Slip: one map for all sessions.
ScopeStatic(c) == CHOOSE d \in Session : TRUE

\* The session whose map GetContext of thread c reads.
Scope(c) == IF mAttached[c] = None THEN c ELSE mAttached[c]

Goto(c, location) == pc' = [pc EXCEPT ![c] = location]

\* Thread c ends its handling with reply r.
Finish(c, r) ==
  /\ res' = [res EXCEPT ![c] = r]
  /\ Goto(c, "reply")
-----------------------------------------------------------------------------
Init ==
  /\ up = TRUE
  /\ ctor = [c \in Session |-> "none"]
  /\ mCtx = [c \in Session |-> [h \in Handle |-> None]]
  /\ mEnv = [c \in Session |-> None]
  /\ mAttached = [c \in Session |-> None]
  /\ built = {}
  /\ pc = [c \in Session |-> "recv"]
  /\ req = [c \in Session |-> NoMessage]
  /\ obj = [c \in Session |-> None]
  /\ res = [c \in Session |-> Error]
  /\ asked = [c \in Session |-> 0]
  /\ answered = [c \in Session |-> 0]
  /\ told = [c \in Session |-> {}]
  /\ visited = {}
  /\ lost = {}

\* The constructor starts the session thread, then registers the provider;
\* the accepting thread runs one constructor at a time.
StartThread(c) ==
  /\ ctor[c] = "none"
  /\ \A d \in Session : ctor[d] # "running"
  /\ ctor' = [ctor EXCEPT ![c] = "running"]
  /\ UNCHANGED <<up, mCtx, mEnv, mAttached, built, visited, lost, local>>

AddProvider(c) ==
  /\ ctor[c] = "running"
  /\ ctor' = [ctor EXCEPT ![c] = "done"]
  /\ mCtx' = [mCtx EXCEPT ![c]["EnvProvider"] = Provider(c)]
  /\ UNCHANGED <<up, mEnv, mAttached, built, visited, lost, local>>

Receive(c) ==
  /\ ctor[c] # "none"
  /\ pc[c] = "recv"
  /\ asked[c] < MaxRequests
  /\ \E m \in Message : req' = [req EXCEPT ![c] = m]
  /\ asked' = [asked EXCEPT ![c] = @ + 1]
  /\ Goto(c, "lookup")
  /\ UNCHANGED <<up, shared, obj, res, answered, told>>

\* Slip: the context found is not tested.
LookupFailsLess(c) == req[c].ctx = None \/ req[c].spec = None

\* HandleMessage up to the call: no context, an unknown context or no call
\* specification is answered at once.
LookupFails(c) ==
  \/ req[c].ctx = None
  \/ mCtx[Scope(c)][req[c].ctx] = None
  \/ req[c].spec = None

Lookup(c) ==
  /\ pc[c] = "lookup"
  /\ IF LookupFails(c)
     THEN Finish(c, Error) /\ UNCHANGED obj
     ELSE /\ obj' = [obj EXCEPT ![c] = mCtx[Scope(c)][req[c].ctx]]
          /\ Goto(c, "call")
          /\ UNCHANGED res
  /\ UNCHANGED <<up, shared, req, asked, answered, told>>
-----------------------------------------------------------------------------
(* Calls of the provider of session p.                                     *)

Calls(c, p, method) ==
  /\ pc[c] = "call"
  /\ obj[c] = Provider(p)
  /\ req[c].spec = method

\* GetEnv answers the handle of the environment, registered or not, or nothing.
GetEnv(c, p) ==
  /\ Calls(c, p, "GetEnv")
  /\ Finish(c, IF mEnv[p] = None THEN Ok ELSE Gives("MEnv#0"))
  /\ UNCHANGED <<up, shared, req, obj, asked, answered, told>>

GetId(c, p) ==
  /\ Calls(c, p, "GetId")
  /\ Finish(c, Ok)
  /\ UNCHANGED <<up, shared, req, obj, asked, answered, told>>

\* No such method or, for the known ones, the wrong number of arguments.
BadCall(c, p) ==
  /\ \E m \in Method \ {"GetEnv"} : Calls(c, p, m)
  /\ Finish(c, Error)
  /\ UNCHANGED <<up, shared, req, obj, asked, answered, told>>

\* Slip: the session attached gives up its own contexts.
AttachEnvClearing(c, p, d) ==
  /\ Calls(c, p, "AttachEnv")
  /\ ctor[d] # "none"
  /\ mAttached' = [mAttached EXCEPT ![p] = d]
  /\ mCtx' = [mCtx EXCEPT ![p] = [h \in Handle |-> None]]
  /\ visited' = visited \cup {d}
  /\ Finish(c, Ok)
  /\ UNCHANGED <<up, ctor, mEnv, built, lost, req, obj, asked, answered, told>>

\* The id in the call names session d; when it names none, BadCall.
AttachEnv(c, p, d) ==
  /\ Calls(c, p, "AttachEnv")
  /\ ctor[d] # "none"
  /\ mAttached' = [mAttached EXCEPT ![p] = d]
  /\ visited' = visited \cup {d}
  /\ Finish(c, Ok)
  /\ UNCHANGED <<up, ctor, mCtx, mEnv, built, lost, req, obj, asked, answered,
                 told>>

\* Slip: no check.
CheckEnvSkipped(c, p) ==
  /\ Calls(c, p, "CreateEnv")
  /\ Goto(c, "install")
  /\ UNCHANGED <<up, shared, req, obj, res, asked, answered, told>>

\* CreateEnv: the check, and the environment it creates...
CheckEnv(c, p) ==
  /\ Calls(c, p, "CreateEnv")
  /\ IF mEnv[p] # None
     THEN Finish(c, Error)
     ELSE Goto(c, "install") /\ UNCHANGED res
  /\ UNCHANGED <<up, shared, req, obj, asked, answered, told>>

\* Slip: the environment is published without ConstructSystem.
InstallEnvUnbuilt(c, p) ==
  /\ pc[c] = "install"
  /\ obj[c] = Provider(p)
  /\ mEnv' = [mEnv EXCEPT ![p] = Env(p, c)]
  /\ Goto(c, "publish")
  /\ UNCHANGED <<up, ctor, mCtx, mAttached, built, visited, lost, req, obj,
                 res, asked, answered, told>>

\* ... is stored in the session only when its constructor has returned.
InstallEnv(c, p) ==
  /\ pc[c] = "install"
  /\ obj[c] = Provider(p)
  /\ mEnv' = [mEnv EXCEPT ![p] = Env(p, c)]
  /\ Goto(c, "construct")
  /\ UNCHANGED <<up, ctor, mCtx, mAttached, built, visited, lost, req, obj,
                 res, asked, answered, told>>

\* ConstructSystem of what mEnv points to by now.
ConstructEnv(c, p) ==
  /\ pc[c] = "construct"
  /\ obj[c] = Provider(p)
  /\ built' = built \cup {mEnv[p]}
  /\ Goto(c, "publish")
  /\ UNCHANGED <<up, ctor, mCtx, mEnv, mAttached, visited, lost, req, obj,
                 res, asked, answered, told>>

\* Slip: the handler of the exception sends the answer and does not return.
CreateEnvThrowsOn(c) ==
  /\ pc[c] \in {"install", "construct"}
  /\ lost' = IF pc[c] = "construct" THEN lost \cup {obj[c].of} ELSE lost
  /\ Finish(c, Error)
  /\ answered' = [answered EXCEPT ![c] = @ + 1]
  /\ UNCHANGED <<up, ctor, mCtx, mEnv, mAttached, built, visited, req, obj,
                 asked, told>>

\* An exception of Env's constructor, or of ConstructSystem, becomes the
\* answer; mEnv keeps the environment if it was stored.
CreateEnvThrows(c) ==
  /\ pc[c] \in {"install", "construct"}
  /\ lost' = IF pc[c] = "construct" THEN lost \cup {obj[c].of} ELSE lost
  /\ Finish(c, Error)
  /\ UNCHANGED <<up, ctor, mCtx, mEnv, mAttached, built, visited, req, obj,
                 asked, answered, told>>

\* AddContext("MEnv#0", menv): the pointer read from mEnv and the count that
\* throws when there is an entry.  They are one step, as an entry stays: what
\* is absent at the count was absent when the pointer was read...
PublishEnv(c, p) ==
  /\ pc[c] = "publish"
  /\ obj[c] = Provider(p)
  /\ IF mCtx[p]["MEnv#0"] # None
     THEN Finish(c, Error) /\ UNCHANGED obj
     ELSE /\ obj' = [obj EXCEPT ![c] = mEnv[p]]
          /\ Goto(c, "insert")
          /\ UNCHANGED res
  /\ UNCHANGED <<up, shared, req, asked, answered, told>>

\* Slip: the handle is answered but not inserted.
InsertEnvForgotten(c) ==
  /\ pc[c] = "insert"
  /\ Finish(c, Gives("MEnv#0"))
  /\ UNCHANGED <<up, shared, req, obj, asked, answered, told>>

\* ... and the insert of that pointer, which leaves an existing entry alone.
InsertEnv(c) ==
  /\ pc[c] = "insert"
  /\ mCtx' = [mCtx EXCEPT ![obj[c].of]["MEnv#0"] = IF @ = None THEN obj[c] ELSE @]
  /\ Finish(c, Gives("MEnv#0"))
  /\ UNCHANGED <<up, ctor, mEnv, mAttached, built, visited, lost, req, obj,
                 asked, answered, told>>
-----------------------------------------------------------------------------
(* Calls of an environment or of an element: the model core answers a      *)
(* text, raises an exception or returns an element of the same model.      *)

CallModel(c) ==
  /\ pc[c] = "call"
  /\ obj[c].type # "provider"
  /\ \/ /\ \E r \in {Ok, Error} : Finish(c, r)
        /\ UNCHANGED obj
     \/ /\ \E u \in Uid : obj' = [obj EXCEPT ![c] = Element(obj[c], u)]
        /\ Goto(c, "add")
        /\ UNCHANGED res
  /\ UNCHANGED <<up, shared, req, asked, answered, told>>

\* AddContext(uid, new_ctx) is outside the try block of HandleMessage: its
\* exception, that of a uid the session already has, ends the process.
AddContext(c) ==
  /\ pc[c] = "add"
  /\ LET uid == obj[c].uid IN
       IF mCtx[c][uid] # None
       THEN up' = FALSE /\ UNCHANGED <<mCtx, pc, res>>
       ELSE /\ mCtx' = [mCtx EXCEPT ![c][uid] = obj[c]]
            /\ Finish(c, Gives(uid))
            /\ UNCHANGED up
  /\ UNCHANGED <<ctor, mEnv, mAttached, built, visited, lost, req, obj, asked,
                 answered, told>>

\* The locals of HandleMessage are gone when it returns.
Send(c) ==
  /\ pc[c] = "reply"
  /\ answered' = [answered EXCEPT ![c] = @ + 1]
  /\ told' = [told EXCEPT ![c] = @ \cup ({res[c].handle} \ {None})]
  /\ req' = [req EXCEPT ![c] = NoMessage]
  /\ obj' = [obj EXCEPT ![c] = None]
  /\ res' = [res EXCEPT ![c] = Error]
  /\ Goto(c, "recv")
  /\ UNCHANGED <<up, shared, asked>>
-----------------------------------------------------------------------------
(* std::map is not synchronised: when a thread is about to write the map   *)
(* of session m and another one is about to read or write it, the access   *)
(* may go through a tree that is being rebalanced, and fault.              *)

Reads(m)  == {c \in Session : \/ /\ pc[c] = "lookup" /\ req[c].ctx # None
                                 /\ Scope(c) = m
                              \/ pc[c] = "publish" /\ obj[c].of = m}
Writes(m) == {c \in Session : \/ pc[c] = "insert" /\ obj[c].of = m
                              \/ pc[c] = "add" /\ m = c}

Racing(m) ==
  \/ \E w \in Writes(m) : Reads(m) \cup Writes(m) # {w}
  \/ ctor[m] = "running" /\ Reads(m) \cup Writes(m) # {}

MapFault ==
  /\ \E m \in Session : Racing(m)
  /\ up' = FALSE
  /\ UNCHANGED <<shared, local>>

CallProvider(c, p) ==
  \/ GetEnv(c, p) \/ GetId(c, p) \/ BadCall(c, p) \/ CheckEnv(c, p)
  \/ InstallEnv(c, p) \/ ConstructEnv(c, p) \/ PublishEnv(c, p)
  \/ \E d \in Session : AttachEnv(c, p, d)

ThreadStep(c) ==
  \/ Receive(c) \/ Lookup(c) \/ CallModel(c) \/ CreateEnvThrows(c)
  \/ InsertEnv(c) \/ AddContext(c) \/ Send(c)
  \/ \E p \in Session : CallProvider(c, p)

Stopped ==
  /\ ~up \/ \A c \in Session :
              ctor[c] = "done" /\ pc[c] = "recv" /\ asked[c] = MaxRequests
  /\ UNCHANGED vars

Next ==
  \/ up /\ \E c \in Session : StartThread(c) \/ AddProvider(c) \/ ThreadStep(c)
  \/ up /\ MapFault
  \/ Stopped

Spec == Init /\ [][Next]_vars
-----------------------------------------------------------------------------
TypeOK ==
  /\ up \in BOOLEAN
  /\ ctor \in [Session -> {"none", "running", "done"}]
  /\ mCtx \in [Session -> [Handle -> Object \cup {None}]]
  /\ mEnv \in [Session -> Object \cup {None}]
  /\ mAttached \in [Session -> Session \cup {None}]
  /\ built \subseteq Object
  /\ pc \in [Session -> Locations]
  /\ req \in [Session -> Message]
  /\ obj \in [Session -> Object \cup {None}]
  /\ \A c \in Session : pc[c] \in {"call", "add"} \cup CreatingEnv => obj[c] # None
  /\ res \in [Session -> Reply]
  /\ asked \in [Session -> 0 .. MaxRequests]
  /\ answered \in [Session -> Nat]
  /\ told \in [Session -> SUBSET Handle]
  /\ visited \subseteq Session
  /\ lost \subseteq Session

\* HandleMessage answers each message once, on every path through its error
\* returns, its exception handler and its result.
OneAnswer ==
  \A c \in Session :
    asked[c] = IF pc[c] = "recv" THEN answered[c] ELSE answered[c] + 1

\* What a session that is not attached can name belongs to itself, whatever
\* the sessions attached to it create in it.
Isolation ==
  \A c \in Session : mAttached[c] = None =>
    \A h \in Handle : mCtx[c][h] # None => mCtx[c][h].of = c

\* The threads that have stored an environment in session p and not yet
\* registered it there.
Creators(p) ==
  {c \in Session : pc[c] \in {"construct", "publish", "insert"} /\ obj[c].of = p}

\* A handle given to the client of a session that is not attached leads to
\* something.  The exception is that of an environment GetEnv answers: it may
\* be under construction, by any thread, or have failed to construct.
Resolves(c, h) ==
  \/ mCtx[c][h] # None
  \/ h = "MEnv#0" /\ (c \in lost \/ Creators(c) # {})

HandlesResolve ==
  \A c \in Session : mAttached[c] = None => \A h \in told[c] : Resolves(c, h)

\* The environment that the handle of a session leads to is the session's,
\* and was constructed, unless another session came to attach to it.
PrivateEnv ==
  \A c \in Session \ visited : mCtx[c]["MEnv#0"] # None =>
    mCtx[c]["MEnv#0"] = mEnv[c] /\ mEnv[c] \in built

\* A handle leads to the same object for as long as the session lives.
HandlesStable ==
  [][\A c \in Session, h \in Handle :
       mCtx[c][h] # None => mCtx'[c][h] = mCtx[c][h]]_vars

\* Two threads may both find that a session has no environment and create one.
\* The race ends: from the moment that one is stored and no thread is between
\* the test and the assignment, it is the environment of the session for good,
\* whoever attaches to the session and whatever fails.
Settled(p) ==
  /\ mEnv[p] # None
  /\ \A c \in Session : pc[c] = "install" => obj[c] # Provider(p)

EnvSettles ==
  [][\A p \in Session : Settled(p) => Settled(p)' /\ mEnv'[p] = mEnv[p]]_vars
-----------------------------------------------------------------------------
(* What the code, its tests and its design say, and the code does not do.  *)

\* "Env already created": a session has no environment when CreateEnv, which
\* has tested that, comes to store one.
CheckStillHolds ==
  \A p, c \in Session : pc[c] = "install" /\ obj[c] = Provider(p) => mEnv[p] = None

\* "server keeps mapping parts_handle - to - pointer_to_part": the handle of
\* the environment that GetEnv answers is one of the session's contexts when
\* no thread is creating it.
EnvIsPublished ==
  \A p \in Session : mEnv[p] # None /\ Creators(p) = {} =>
    mCtx[p]["MEnv#0"] # None

\* "Client uses unique node identificator in request to server in order to
\* specify what node this request relates to": the handle of an element that is
\* being answered is one that a request of the same session finds.
AnsweredHandleResolves ==
  \A c \in Session : pc[c] = "reply" /\ res[c].handle \in Uid =>
    mCtx[Scope(c)][res[c].handle] # None

\* "even if we request the object that already exists within the mapping": a
\* repeated object is no error.
RepeatIsHarmless ==
  \A c \in Session : pc[c] = "add" => mCtx[c][obj[c].uid] = None

\* The first request of the tests goes to "EnvProvider", which every session
\* has.
ProviderReady ==
  \A c \in Session : pc[c] = "lookup" /\ mAttached[c] = None =>
    mCtx[c]["EnvProvider"] # None
=============================================================================
