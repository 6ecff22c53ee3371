---------------------------- MODULE SharedAgent ----------------------------
(***************************************************************************)
(* Session threads attached to one environment use the same ARenv, and so  *)
(* the same BaseClient (dmas/renv.cpp, client/bclient.cpp) and the same    *)
(* proxies (dmas/melempx.cpp, dmas/daaproxy.cpp), without any lock.        *)
(*                                                                         *)
(* Their requests go one after the other into one connection, and whoever  *)
(* is in recv() gets what comes back.  Neither end frames its messages, so *)
(* requests that arrive together are one request to the server, which      *)
(* sends one reply for them, and replies that arrive together are one      *)
(* answer.  Messages fit the buffers here and the server lives: RpcWire is *)
(* about those that do not.  A uid is answered once: RemoteEnv is about    *)
(* what a second time does.                                                *)
(***************************************************************************)
EXTENDS Integers, FiniteSets, Sequences

CONSTANTS
  Thread,   \* the threads that use the agent
  Text,     \* names of elements
  MaxCalls  \* bound: calls they make altogether

ASSUME ThreadAssumption == IsFiniteSet(Thread) /\ Thread # {}
ASSUME BoundAssumption  == MaxCalls \in Nat
ASSUME TextAssumption   == Text \cap {"uid", "OK", "error"} = {}

\* Name keeps the answer as the name of the element, and returns a reference
\* to it; GetNode makes a proxy of the answer.
Op == {"Name", "GetNode"}

VARIABLES
  up,       \* the process of the agent is alive
  calls,    \* the number of calls made
  pc,       \* where each thread is
  op,       \* the last call of each: what it is,
  call,     \* ... its number,
  got,      \* ... what recv() returned for it: the replies in the buffer,
  name,     \* ... the name its caller has read,
  alone,    \* ... and whether it has overlapped with no other call
  mName,    \* the name that the proxy keeps: the replies taken for it
  mProxies, \* its cache of the proxies that GetNode has made
  toServer, \* requests on the way to the server
  chunk,    \* the requests that the session thread took for one
  toClient  \* replies on the way to the agent

shared == <<up, mName, mProxies>>
asked  == <<calls, op, call, alone>>
local  == <<asked, pc, got, name>>
wire   == <<toServer, chunk, toClient>>
vars   == <<shared, local, wire>>

\* A reply: the calls whose requests it answers, and what it says: a name, a
\* uid, "OK" for no object, or an error.
Reply == [to : Seq(1 .. MaxCalls), says : Text \cup {"uid", "OK", "error"}]

\* The text of an answer as a context: uids differ, and what else is answered
\* is the same context to whichever call.
Context(s) == [i \in DOMAIN s |->
                 IF s[i].says = "uid" THEN s[i] ELSE [s[i] EXCEPT !.to = <<>>]]

\* Request returns false if the first reply in the buffer is an error.
Succeeds(s) == s[1].says # "error"

\* A proxy: its context, and the call that made it.
Proxy == [of : Seq(Reply), by : 1 .. MaxCalls]

IsCached(c) == \E p \in mProxies : p.of = c

Goto(t, location) == pc' = [pc EXCEPT ![t] = location]

Waiting == {t \in Thread : pc[t] = "waiting"}   \* in recv()
Busy    == {t \in Thread : pc[t] # "idle"}
-----------------------------------------------------------------------------
Init ==
  /\ up = TRUE /\ mName = <<>> /\ mProxies = {}
  /\ calls = 0
  /\ pc = [t \in Thread |-> "idle"]
  /\ op = [t \in Thread |-> "Name"]
  /\ call = [t \in Thread |-> 0]
  /\ got = [t \in Thread |-> <<>>]
  /\ name = [t \in Thread |-> <<>>]
  /\ alone = [t \in Thread |-> FALSE]
  /\ toServer = <<>> /\ chunk = <<>> /\ toClient = <<>>

\* Request up to its recv(), for a call of a proxy, which hands it on to the
\* agent.
Send(t, o) ==
  /\ pc[t] = "idle" /\ calls < MaxCalls
  /\ calls' = calls + 1
  /\ op' = [op EXCEPT ![t] = o]
  /\ call' = [call EXCEPT ![t] = calls + 1]
  /\ got' = [got EXCEPT ![t] = <<>>]
  /\ name' = [name EXCEPT ![t] = <<>>]
  /\ alone' = [s \in Thread |-> IF s = t THEN Busy = {} ELSE alone[s] /\ s \notin Busy]
  /\ toServer' = Append(toServer, [call |-> calls + 1, op |-> o])
  /\ Goto(t, "waiting")
  /\ UNCHANGED <<shared, chunk, toClient>>

\* Where a call goes on with an answer, or without one.
Then(o, succeeds) ==
  IF o = "GetNode" THEN IF succeeds THEN "lookup" ELSE "idle"
                   ELSE IF succeeds THEN "store" ELSE "read"

\* Slip: the result of Request is not looked at.
RecvUntested(t) ==
  /\ pc[t] = "waiting"
  /\ \E n \in 1 .. Len(toClient) :
       /\ got' = [got EXCEPT ![t] = SubSeq(toClient, 1, n)]
       /\ toClient' = SubSeq(toClient, n + 1, Len(toClient))
  /\ Goto(t, Then(op[t], TRUE))
  /\ UNCHANGED <<shared, asked, name, toServer, chunk>>

\* recv() returns one or more of the replies that have come, whoever's they
\* are.
Recv(t) ==
  /\ pc[t] = "waiting"
  /\ \E n \in 1 .. Len(toClient) :
       /\ got' = [got EXCEPT ![t] = SubSeq(toClient, 1, n)]
       /\ toClient' = SubSeq(toClient, n + 1, Len(toClient))
  /\ Goto(t, Then(op[t], Succeeds(got'[t])))
  /\ UNCHANGED <<shared, asked, name, toServer, chunk>>
-----------------------------------------------------------------------------
(* Name goes on: the answer is kept, and read by way of the reference.     *)

\* Slip: a name that is there is not replaced.
StoreOnce(t) ==
  /\ pc[t] = "store"
  /\ mName' = IF mName = <<>> THEN got[t] ELSE mName
  /\ Goto(t, "read")
  /\ UNCHANGED <<up, mProxies, asked, got, name, wire>>

Store(t) ==
  /\ pc[t] = "store"
  /\ mName' = got[t]
  /\ Goto(t, "read")
  /\ UNCHANGED <<up, mProxies, asked, got, name, wire>>

Read(t) ==
  /\ pc[t] = "read"
  /\ name' = [name EXCEPT ![t] = mName]
  /\ Goto(t, "idle")
  /\ UNCHANGED <<shared, asked, got, wire>>
-----------------------------------------------------------------------------
(* GetNode goes on: IsCached, a new proxy or GetProxy, RegProxy.           *)

Lookup(t) ==
  /\ pc[t] = "lookup"
  /\ Goto(t, IF IsCached(Context(got[t])) THEN "idle" ELSE "create")
  /\ UNCHANGED <<shared, asked, got, name, wire>>

\* RegProxy asserts that the context of the new proxy has none yet.
AssertFails(t) == pc[t] = "create" /\ IsCached(Context(got[t]))

Assert(t) ==
  /\ pc[t] = "create"
  /\ IF AssertFails(t)
     THEN up' = FALSE /\ UNCHANGED pc
     ELSE Goto(t, "register") /\ UNCHANGED up
  /\ UNCHANGED <<mName, mProxies, asked, got, name, wire>>

\* Slip: the entry that is there is overwritten.
RegisterOver(t) ==
  /\ pc[t] = "register"
  /\ LET c == Context(got[t]) IN
       mProxies' = {p \in mProxies : p.of # c} \cup {[of |-> c, by |-> call[t]]}
  /\ Goto(t, "idle")
  /\ UNCHANGED <<up, mName, asked, got, name, wire>>

\* insert() leaves an entry alone that another thread has put there since.
Register(t) ==
  /\ pc[t] = "register"
  /\ LET c == Context(got[t]) IN
       mProxies' = IF IsCached(c) THEN mProxies
                   ELSE mProxies \cup {[of |-> c, by |-> call[t]]}
  /\ Goto(t, "idle")
  /\ UNCHANGED <<up, mName, asked, got, name, wire>>

\* Two threads are in the map, or in the string of the name, and one of them
\* writes: the process may fault.
Fault ==
  /\ \E s, t \in Thread :
       /\ s # t
       /\ \/ pc[s] = "register" /\ pc[t] \in {"lookup", "create", "register"}
          \/ pc[s] = "store" /\ pc[t] \in {"store", "read"}
  /\ up' = FALSE
  /\ UNCHANGED <<mName, mProxies, local, wire>>
-----------------------------------------------------------------------------
(* The session that the agent is connected to.                             *)

Receive ==
  /\ chunk = <<>>
  /\ \E n \in 1 .. Len(toServer) :
       /\ chunk' = SubSeq(toServer, 1, n)
       /\ toServer' = SubSeq(toServer, n + 1, Len(toServer))
  /\ UNCHANGED <<shared, local, toClient>>

\* What a session can say to what it took for a request.
Answers ==
  IF Len(chunk) > 1 THEN {"OK", "error"}
  ELSE IF chunk[1].op = "Name" THEN Text \cup {"error"} ELSE {"uid", "OK", "error"}

Replying(says) == [to |-> [i \in DOMAIN chunk |-> chunk[i].call], says |-> says]

\* Slips: each request is answered twice; what is not one request is not
\* answered.
HandleTwice ==
  /\ chunk # <<>>
  /\ \E a \in Answers : toClient' = toClient \o <<Replying(a), Replying(a)>>
  /\ chunk' = <<>>
  /\ UNCHANGED <<shared, local, toServer>>
HandleOnlyWhole ==
  /\ chunk # <<>>
  /\ \E a \in Answers :
       toClient' = IF Len(chunk) = 1 THEN Append(toClient, Replying(a)) ELSE toClient
  /\ chunk' = <<>>
  /\ UNCHANGED <<shared, local, toServer>>

\* One reply for what one recv() returned.
Handle ==
  /\ chunk # <<>>
  /\ \E a \in Answers : toClient' = Append(toClient, Replying(a))
  /\ chunk' = <<>>
  /\ UNCHANGED <<shared, local, toServer>>

ServerStep == Receive \/ Handle
ThreadStep(t) ==
  Recv(t) \/ Store(t) \/ Read(t) \/ Lookup(t) \/ Assert(t) \/ Register(t)

\* Requests and replies that will, or did, make up an answer.
InFlight == Len(toServer) + Len(toClient) + (IF chunk = <<>> THEN 0 ELSE 1)

\* The process has ended, or the calls of the instance are made and nothing is
\* left to be received.
Stopped ==
  /\ \/ ~up
     \/ calls = MaxCalls /\ InFlight = 0 /\ Busy = Waiting
  /\ UNCHANGED vars

Next ==
  \/ up /\ \E t \in Thread, o \in Op : Send(t, o)
  \/ up /\ \E t \in Thread : ThreadStep(t)
  \/ up /\ Fault
  \/ up /\ ServerStep
  \/ Stopped

Spec == Init /\ [][Next]_vars

\* The session goes on, and of the threads that can go on one does.
FairSpec ==
  /\ Spec
  /\ WF_vars(up /\ ServerStep)
  /\ WF_vars(up /\ \E t \in Thread : ThreadStep(t))
-----------------------------------------------------------------------------
Request == [call : 1 .. MaxCalls, op : Op]

Locations ==
  {"idle", "waiting", "store", "read", "lookup", "create", "register"}

TypeOK ==
  /\ up \in BOOLEAN
  /\ mName \in Seq(Reply) /\ mProxies \subseteq Proxy
  /\ calls \in 0 .. MaxCalls
  /\ pc \in [Thread -> Locations]
  /\ op \in [Thread -> Op] /\ call \in [Thread -> 0 .. MaxCalls]
  /\ got \in [Thread -> Seq(Reply)] /\ name \in [Thread -> Seq(Reply)]
  /\ alone \in [Thread -> BOOLEAN]
  /\ \A t \in Thread : pc[t] \in {"store", "lookup", "create", "register"} =>
       got[t] # <<>> /\ Succeeds(got[t])
  /\ toServer \in Seq(Request) /\ chunk \in Seq(Request) /\ toClient \in Seq(Reply)

\* However requests and replies run together, there is never more on the way
\* than there are threads waiting: once no thread of the process is in
\* Request, nothing stale is left for the next call to receive.
AnswersForCallers == InFlight =< Cardinality(Waiting)

\* When all threads wait, one of them has an answer coming, although another
\* thread may have received what it waits for: they never all hang.
SomeAnswerComes == Waiting = Thread => InFlight > 0

\* A call that overlaps with no other gets the answer to its own request and
\* nothing else, whatever calls were mixed up before it.  The caller of Name,
\* who reads it through a reference to what other threads assign, then reads
\* that, or, after an error, a name that was answered before.
LoneCallGetsOwn ==
  \A t \in Thread : alone[t] /\ got[t] # <<>> =>
    /\ Len(got[t]) = 1 /\ got[t][1].to = <<call[t]>>
    /\ op[t] = "Name" /\ pc[t] = "idle" =>
         IF Succeeds(got[t]) THEN name[t] = got[t]
                             ELSE name[t] = <<>> \/ Succeeds(name[t])

\* The proxy cached for a context stays the one that IsCached and GetProxy
\* find, although threads test and insert in separate steps.
ProxiesKept == [][mProxies \subseteq mProxies']_vars

\* The threads do not stay all in recv().
AgentGoesOn == (up /\ Waiting = Thread) ~> (~up \/ Waiting # Thread)
-----------------------------------------------------------------------------
(* What the code and its design say, and the code does not do.             *)

\* "__ASSERT(!IsCached(aProxy->GetContext()))" in RegProxy, which GetNode has
\* tested before.
NothingRegisteredTwice == \A t \in Thread : ~AssertFails(t)

\* "server APIs is kind of remote procedure call": a call returns the answer
\* to its own request ...
CallGetsOwn ==
  \A t \in Thread : got[t] # <<>> => Len(got[t]) = 1 /\ got[t][1].to = <<call[t]>>

\* ... and returns at all.
CallReturns == \A t \in Thread : pc[t] = "waiting" ~> (pc[t] # "waiting" \/ ~up)
=============================================================================
