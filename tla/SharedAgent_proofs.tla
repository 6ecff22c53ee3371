------------------------- MODULE SharedAgent_proofs -------------------------
(* Proofs about threads that share an agent: types, and what the mixing of *)
(* their requests and replies cannot do.                                   *)
EXTENDS SharedAgent, FiniteSetTheorems, TLAPS

USE ThreadAssumption, BoundAssumption

\* A call has a number, and goes on as what it is.
CallsGoOn ==
  \A t \in Thread :
    /\ pc[t] # "idle" => call[t] \in 1 .. MaxCalls
    /\ pc[t] \in {"store", "read"} => op[t] = "Name"
    /\ pc[t] \in {"lookup", "create", "register"} => op[t] = "GetNode"

Types == TypeOK /\ CallsGoOn

-----------------------------------------------------------------------------
\* What recv() takes of a sequence, and what it leaves.
LEMMA Parts ==
  ASSUME NEW S, NEW s \in Seq(S), NEW n \in 1 .. Len(s)
  PROVE  /\ SubSeq(s, 1, n) \in Seq(S) /\ Len(SubSeq(s, 1, n)) = n
         /\ SubSeq(s, n + 1, Len(s)) \in Seq(S)
         /\ Len(SubSeq(s, n + 1, Len(s))) = Len(s) - n
         /\ SubSeq(s, 1, n)[1] = s[1] /\ s[1] \in S
  OBVIOUS

\* A reply answers the calls whose requests were taken together.
LEMMA ReplyType ==
  ASSUME TypeOK, chunk # <<>>, NEW a \in Answers
  PROVE  Replying(a) \in Reply
<1>1. chunk \in Seq(Request)
  BY DEF TypeOK
<1>2. a \in Text \cup {"uid", "OK", "error"}
  BY DEF Answers
<1>3. Len(chunk) \in Nat /\ DOMAIN chunk = 1 .. Len(chunk)
      /\ \A i \in 1 .. Len(chunk) : chunk[i].call \in 1 .. MaxCalls
  <2>1. Len(chunk) \in Nat /\ DOMAIN chunk = 1 .. Len(chunk)
        /\ \A i \in 1 .. Len(chunk) : chunk[i] \in Request
    BY <1>1
  <2>2. \A r \in Request : r.call \in 1 .. MaxCalls
    BY DEF Request
  <2> QED
    BY <2>1, <2>2
<1>4. [i \in 1 .. Len(chunk) |-> chunk[i].call] \in Seq(1 .. MaxCalls)
  BY <1>3
<1> QED
  BY <1>2, <1>3, <1>4 DEF Replying, Reply

\* The text of an answer, as a context, is made up like an answer.
LEMMA ContextIsReplies ==
  ASSUME NEW s \in Seq(Reply)
  PROVE  Context(s) \in Seq(Reply)
<1>1. Len(s) \in Nat /\ DOMAIN s = 1 .. Len(s) /\ \A i \in 1 .. Len(s) : s[i] \in Reply
  OBVIOUS
<1>2. ASSUME NEW r \in Reply PROVE [r EXCEPT !.to = <<>>] \in Reply
  <2>1. <<>> \in Seq(1 .. MaxCalls)
    OBVIOUS
  <2> QED
    BY <2>1 DEF Reply
<1>3. \A i \in 1 .. Len(s) :
        (IF s[i].says = "uid" THEN s[i] ELSE [s[i] EXCEPT !.to = <<>>]) \in Reply
  BY <1>1, <1>2
<1>4. Context(s) = [i \in 1 .. Len(s) |->
                     IF s[i].says = "uid" THEN s[i] ELSE [s[i] EXCEPT !.to = <<>>]]
  BY <1>1 DEF Context
<1> QED
  BY <1>1, <1>3, <1>4

\* The types hold when the threads begin.
LEMMA InitTypes == Init => Types
  BY DEF Init, Types, TypeOK, CallsGoOn, Locations, Op

-----------------------------------------------------------------------------
\* A step of the agent's side preserves the types.
LEMMA AgentTypes ==
  ASSUME Types, NEW t \in Thread,
         (\E o \in Op : Send(t, o)) \/ ThreadStep(t)
  PROVE  Types'
<1> USE DEF Types, TypeOK, CallsGoOn, Goto, shared, asked, local, wire, Op, Locations
<1>1. ASSUME NEW o \in Op, Send(t, o)
      PROVE  Types'
  <2>1. /\ pc[t] = "idle" /\ calls' = calls + 1 /\ calls + 1 \in 1 .. MaxCalls
        /\ op' = [op EXCEPT ![t] = o] /\ call' = [call EXCEPT ![t] = calls + 1]
        /\ got' = [got EXCEPT ![t] = <<>>] /\ name' = [name EXCEPT ![t] = <<>>]
        /\ pc' = [pc EXCEPT ![t] = "waiting"]
        /\ UNCHANGED <<up, mName, mProxies, chunk, toClient>>
    BY <1>1 DEF Send
  <2>2. alone' \in [Thread -> BOOLEAN]
    <3>1. \A s \in Thread : (IF s = t THEN Busy = {} ELSE alone[s] /\ s \notin Busy) \in BOOLEAN
      BY Zenon
    <3> QED
      BY <1>1, <3>1, Zenon DEF Send
  <2>3. toServer' \in Seq(Request)
    <3>1. [call |-> calls + 1, op |-> o] \in Request
      BY <2>1 DEF Request
    <3>2. toServer' = Append(toServer, [call |-> calls + 1, op |-> o])
      BY <1>1 DEF Send
    <3> QED
      BY <3>1, <3>2
  <2>4. /\ \A s \in Thread : pc'[s] \in {"store", "lookup", "create", "register"} =>
             got'[s] # <<>> /\ Succeeds(got'[s])
        /\ CallsGoOn'
    BY <2>1 DEF Succeeds
  <2>5. /\ calls' \in 0 .. MaxCalls /\ pc' \in [Thread -> Locations]
        /\ op' \in [Thread -> Op] /\ call' \in [Thread -> 0 .. MaxCalls]
    BY <2>1
  <2>6. got' \in [Thread -> Seq(Reply)] /\ name' \in [Thread -> Seq(Reply)]
    BY <2>1
  <2>7. /\ up' \in BOOLEAN /\ mName' \in Seq(Reply) /\ mProxies' \subseteq Proxy
        /\ chunk' \in Seq(Request) /\ toClient' \in Seq(Reply)
    BY <2>1
  <2> QED
    BY <2>2, <2>3, <2>4, <2>5, <2>6, <2>7, Zenon
<1>2. CASE Recv(t)
  <2>1. PICK n \in 1 .. Len(toClient) :
          /\ got' = [got EXCEPT ![t] = SubSeq(toClient, 1, n)]
          /\ toClient' = SubSeq(toClient, n + 1, Len(toClient))
    BY <1>2 DEF Recv
  <2>2. /\ SubSeq(toClient, 1, n) \in Seq(Reply) /\ SubSeq(toClient, 1, n) # <<>>
        /\ toClient' \in Seq(Reply)
    <3>1. toClient \in Seq(Reply)
      OBVIOUS
    <3>2. Len(SubSeq(toClient, 1, n)) = n /\ n # 0
      BY <3>1, Parts
    <3> QED
      BY <2>1, <3>1, <3>2, Parts
  <2> DEFINE g == SubSeq(toClient, 1, n)
  <2> HIDE DEF g
  <2>3. g \in Seq(Reply) /\ g # <<>> /\ got' = [got EXCEPT ![t] = g]
    BY <2>1, <2>2 DEF g
  <2>4. /\ pc[t] = "waiting" /\ pc' = [pc EXCEPT ![t] = Then(op[t], Succeeds(got'[t]))]
        /\ UNCHANGED <<up, mName, mProxies, calls, op, call, alone, name, toServer, chunk>>
    BY <1>2 DEF Recv
  <2>5. got'[t] = g
    BY <2>3
  <2>6. PICK l : l = Then(op[t], Succeeds(got'[t]))
    OBVIOUS
  <2>7. /\ l \in Locations
        /\ l \in {"store", "lookup", "create", "register"} => Succeeds(g)
        /\ l \in {"store", "read"} => op[t] = "Name"
        /\ l \in {"lookup", "create", "register"} => op[t] = "GetNode"
    BY <2>5, <2>6 DEF Then
  <2>8. pc' = [pc EXCEPT ![t] = l]
    BY <2>4, <2>6
  <2>9. /\ got' \in [Thread -> Seq(Reply)] /\ pc' \in [Thread -> Locations]
        /\ \A s \in Thread : pc'[s] \in {"store", "lookup", "create", "register"} =>
             got'[s] # <<>> /\ Succeeds(got'[s])
    BY <2>3, <2>7, <2>8 DEF Succeeds
  <2>10. CallsGoOn'
    BY <2>4, <2>7, <2>8
  <2> QED
    BY <2>2, <2>4, <2>9, <2>10
<1>3. CASE Store(t)
  BY <1>3 DEF Store, Succeeds
<1>4. CASE Read(t)
  BY <1>4 DEF Read, Succeeds
<1>5. CASE Lookup(t)
  BY <1>5 DEF Lookup, Succeeds
<1>6. CASE Assert(t)
  BY <1>6 DEF Assert, Succeeds
<1>7. CASE Register(t)
  <2>1. /\ pc[t] = "register" /\ pc' = [pc EXCEPT ![t] = "idle"]
        /\ UNCHANGED <<up, mName, calls, op, call, alone, got, name, toServer, chunk, toClient>>
    BY <1>7 DEF Register
  <2>2. Context(got[t]) \in Seq(Reply) /\ call[t] \in 1 .. MaxCalls
    BY <2>1, ContextIsReplies
  <2>3. [of |-> Context(got[t]), by |-> call[t]] \in Proxy
    BY <2>2 DEF Proxy
  <2>4. mProxies' \subseteq Proxy
    BY <1>7, <2>3 DEF Register
  <2> QED
    BY <2>1, <2>4 DEF Succeeds
<1> QED
  BY <1>1, <1>2, <1>3, <1>4, <1>5, <1>6, <1>7 DEF ThreadStep

\* So does a step of the session.
LEMMA ServerTypes ==
  ASSUME Types, ServerStep
  PROVE  Types'
<1>0. UNCHANGED <<up, mName, mProxies, calls, op, call, alone, pc, got, name>>
  BY DEF ServerStep, Receive, Handle, shared, local, asked
<1>1. toServer' \in Seq(Request) /\ chunk' \in Seq(Request) /\ toClient' \in Seq(Reply)
  <2>0. toServer \in Seq(Request) /\ chunk \in Seq(Request) /\ toClient \in Seq(Reply)
    BY DEF Types, TypeOK
  <2>1. CASE Receive
    <3>1. PICK n \in 1 .. Len(toServer) :
            /\ chunk' = SubSeq(toServer, 1, n)
            /\ toServer' = SubSeq(toServer, n + 1, Len(toServer))
      BY <2>1 DEF Receive
    <3>2. toClient' = toClient
      BY <2>1 DEF Receive
    <3> QED
      BY <2>0, <3>1, <3>2, Parts
  <2>2. CASE Handle
    <3>1. PICK a \in Answers : toClient' = Append(toClient, Replying(a))
      BY <2>2 DEF Handle
    <3>2. chunk # <<>> /\ chunk' = <<>> /\ toServer' = toServer
      BY <2>2 DEF Handle
    <3>3. Replying(a) \in Reply
      BY <3>2, ReplyType DEF Types
    <3> QED
      BY <2>0, <3>1, <3>2, <3>3
  <2> QED
    BY <2>1, <2>2 DEF ServerStep
<1> QED
  BY <1>0, <1>1 DEF Types, TypeOK, CallsGoOn, Succeeds

\* Every step preserves the types.
LEMMA TypesStep ==
  ASSUME Types, [Next]_vars
  PROVE  Types'
<1>1. CASE UNCHANGED vars
  BY <1>1 DEF vars, shared, local, asked, wire, Types, TypeOK, CallsGoOn, Succeeds
<1>2. CASE Fault
  BY <1>2 DEF Fault, local, asked, wire, Types, TypeOK, CallsGoOn, Succeeds
<1> QED
  BY <1>1, <1>2, AgentTypes, ServerTypes DEF Next, Stopped

-----------------------------------------------------------------------------
\* What is on the way, and who waits for it.
Flight == AnswersForCallers /\ SomeAnswerComes

\* A thread more, or less, that waits.
LEMMA WaitingSize ==
  ASSUME TypeOK
  PROVE  /\ IsFiniteSet(Waiting) /\ Cardinality(Waiting) \in Nat
         /\ \A t \in Thread : /\ Cardinality(Waiting \cup {t}) =
                                 Cardinality(Waiting) + (IF t \in Waiting THEN 0 ELSE 1)
                              /\ Cardinality(Waiting \ {t}) =
                                 Cardinality(Waiting) - (IF t \in Waiting THEN 1 ELSE 0)
<1>1. IsFiniteSet(Waiting)
  BY FS_Subset DEF Waiting
<1>2. Cardinality(Waiting) \in Nat
  BY <1>1, FS_CardinalityType
<1>3. \A t : Cardinality(Waiting \cup {t}) =
               IF t \in Waiting THEN Cardinality(Waiting) ELSE Cardinality(Waiting) + 1
  BY <1>1, FS_AddElement
<1>4. \A t : Cardinality(Waiting \ {t}) =
               IF t \in Waiting THEN Cardinality(Waiting) - 1 ELSE Cardinality(Waiting)
  BY <1>1, FS_RemoveElement
<1> QED
  BY <1>1, <1>2, <1>3, <1>4

\* A step that leaves alone what is on the way, and who waits.
LEMMA FlightKept ==
  ASSUME Flight, UNCHANGED <<toServer, chunk, toClient>>, Waiting' = Waiting
  PROVE  Flight'
  BY DEF Flight, AnswersForCallers, SomeAnswerComes, InFlight

\* Every step keeps what is on the way in step with who waits: a call adds a
\* request and a thread, recv() takes an answer or more and a thread, and the
\* session makes one reply of one request or more.
LEMMA FlightStep ==
  ASSUME Types, Flight, [Next]_vars
  PROVE  Flight'
<1>0. /\ toServer \in Seq(Request) /\ chunk \in Seq(Request) /\ toClient \in Seq(Reply)
      /\ pc \in [Thread -> Locations]
      /\ Len(toServer) \in Nat /\ Len(toClient) \in Nat
  BY DEF Types, TypeOK
<1>1. Cardinality(Waiting) \in Nat
  BY WaitingSize DEF Types
<1>2. CASE UNCHANGED vars
  <2>1. UNCHANGED <<toServer, chunk, toClient, pc>>
    BY <1>2 DEF vars, local, wire
  <2> QED
    BY <2>1, FlightKept DEF Waiting
<1>3. CASE Fault
  <2>1. UNCHANGED <<toServer, chunk, toClient, pc>>
    BY <1>3 DEF Fault, local, wire
  <2> QED
    BY <2>1, FlightKept DEF Waiting
<1>4. ASSUME NEW t \in Thread, NEW o \in Op, Send(t, o)
      PROVE  Flight'
  <2>1. /\ pc[t] = "idle" /\ pc' = [pc EXCEPT ![t] = "waiting"]
        /\ UNCHANGED <<chunk, toClient>>
    BY <1>4 DEF Send, Goto
  <2>2. Len(toServer') = Len(toServer) + 1
    BY <1>0, <1>4 DEF Send
  <2>3. Waiting' = Waiting \cup {t} /\ t \notin Waiting
    BY <1>0, <2>1 DEF Waiting
  <2>4. Cardinality(Waiting') = Cardinality(Waiting) + 1
    BY <2>3, WaitingSize DEF Types
  <2>5. InFlight' = InFlight + 1 /\ InFlight \in Nat
    BY <1>0, <2>1, <2>2 DEF InFlight
  <2> QED
    BY <1>1, <2>4, <2>5 DEF Flight, AnswersForCallers, SomeAnswerComes
<1>5. ASSUME NEW t \in Thread, Recv(t)
      PROVE  Flight'
  <2>1. PICK n \in 1 .. Len(toClient) : toClient' = SubSeq(toClient, n + 1, Len(toClient))
    BY <1>5 DEF Recv
  <2>2. Len(toClient') = Len(toClient) - n
    BY <1>0, <2>1, Parts
  <2>3. /\ pc[t] = "waiting" /\ pc' = [pc EXCEPT ![t] = Then(op[t], Succeeds(got'[t]))]
        /\ UNCHANGED <<toServer, chunk>>
    BY <1>5 DEF Recv, Goto
  <2>4. Then(op[t], Succeeds(got'[t])) # "waiting"
    BY DEF Then
  <2>5. Waiting' = Waiting \ {t} /\ t \in Waiting
    BY <1>0, <2>3, <2>4 DEF Waiting
  <2>6. Cardinality(Waiting') = Cardinality(Waiting) - 1
    BY <2>5, WaitingSize DEF Types
  <2>7. InFlight' = InFlight - n /\ InFlight \in Nat /\ n \in Nat \ {0}
    BY <1>0, <2>2, <2>3 DEF InFlight
  <2>8. Waiting' # Thread
    BY <2>5
  <2> QED
    BY <1>1, <2>6, <2>7, <2>8 DEF Flight, AnswersForCallers, SomeAnswerComes
<1>6. ASSUME NEW t \in Thread,
             Store(t) \/ Read(t) \/ Lookup(t) \/ Assert(t) \/ Register(t)
      PROVE  Flight'
  <2>1. /\ pc[t] # "waiting"
        /\ UNCHANGED pc \/ \E l \in Locations \ {"waiting"} : pc' = [pc EXCEPT ![t] = l]
        /\ UNCHANGED <<toServer, chunk, toClient>>
    <3> USE DEF Goto, Locations, wire
    <3>1. CASE Store(t)
      BY <3>1 DEF Store
    <3>2. CASE Read(t)
      BY <3>2 DEF Read
    <3>3. CASE Lookup(t)
      BY <3>3 DEF Lookup
    <3>4. CASE Assert(t)
      BY <3>4 DEF Assert
    <3>5. CASE Register(t)
      BY <3>5 DEF Register
    <3> QED
      BY <1>6, <3>1, <3>2, <3>3, <3>4, <3>5
  <2>2. Waiting' = Waiting
    BY <1>0, <2>1 DEF Waiting
  <2> QED
    BY <2>1, <2>2, FlightKept
<1>7. CASE Receive
  <2>1. PICK n \in 1 .. Len(toServer) :
          /\ chunk' = SubSeq(toServer, 1, n)
          /\ toServer' = SubSeq(toServer, n + 1, Len(toServer))
    BY <1>7 DEF Receive
  <2>2. Len(toServer') = Len(toServer) - n /\ Len(chunk') = n
    BY <1>0, <2>1, Parts
  <2>3. chunk = <<>> /\ UNCHANGED <<pc, toClient>>
    BY <1>7 DEF Receive, local
  <2>4. /\ InFlight \in Nat /\ n \in Nat \ {0} /\ InFlight >= n
        /\ InFlight' = InFlight - n + 1
    <3>1. chunk' # <<>>
      BY <2>2
    <3> QED
      BY <1>0, <2>2, <2>3, <3>1 DEF InFlight
  <2>5. Waiting' = Waiting
    BY <2>3 DEF Waiting
  <2> QED
    BY <1>1, <2>4, <2>5 DEF Flight, AnswersForCallers, SomeAnswerComes
<1>8. CASE Handle
  <2>1. /\ chunk # <<>> /\ chunk' = <<>> /\ UNCHANGED <<pc, toServer>>
        /\ Len(toClient') = Len(toClient) + 1
    BY <1>0, <1>8 DEF Handle, local
  <2>2. InFlight' = InFlight /\ InFlight \in Nat
    BY <1>0, <2>1 DEF InFlight
  <2>3. Waiting' = Waiting
    BY <2>1 DEF Waiting
  <2> QED
    BY <2>2, <2>3 DEF Flight, AnswersForCallers, SomeAnswerComes
<1> QED
  BY <1>2, <1>3, <1>4, <1>5, <1>6, <1>7, <1>8 DEF Next, Stopped, ThreadStep, ServerStep

-----------------------------------------------------------------------------
\* The request of a thread's call, or the reply to it, and nothing else is on
\* the way.
OwnOnWay(t) ==
  \/ toServer = <<[call |-> call[t], op |-> op[t]]>> /\ chunk = <<>> /\ toClient = <<>>
  \/ toServer = <<>> /\ chunk = <<[call |-> call[t], op |-> op[t]]>> /\ toClient = <<>>
  \/ /\ toServer = <<>> /\ chunk = <<>>
     /\ Len(toClient) = 1 /\ toClient[1].to = <<call[t]>>

\* While a call is alone no other thread is in one, and then what it got and
\* read is its own.
LoneOf(t) ==
  alone[t] =>
    /\ pc[t] # "idle" => Busy = {t}
    /\ pc[t] = "waiting" => got[t] = <<>> /\ OwnOnWay(t)
    /\ got[t] # <<>> => Len(got[t]) = 1 /\ got[t][1].to = <<call[t]>>
    /\ pc[t] = "read" /\ Succeeds(got[t]) => mName = got[t]
    /\ got[t] # <<>> /\ op[t] = "Name" /\ pc[t] = "idle" =>
         IF Succeeds(got[t]) THEN name[t] = got[t]
                             ELSE name[t] = <<>> \/ Succeeds(name[t])

NameSucceeded == mName = <<>> \/ Succeeds(mName)

Lone == NameSucceeded /\ \A t \in Thread : LoneOf(t)

\* When no thread is in a call nothing is on the way.
LEMMA NothingStale ==
  ASSUME Types, Flight, Busy = {}
  PROVE  toServer = <<>> /\ chunk = <<>> /\ toClient = <<>>
<1>1. Waiting = {}
  BY DEF Busy, Waiting
<1>2. Cardinality(Waiting) = 0
  BY <1>1, FS_EmptySet
<1>3. /\ toServer \in Seq(Request) /\ toClient \in Seq(Reply)
      /\ Len(toServer) \in Nat /\ Len(toClient) \in Nat
  BY DEF Types, TypeOK
<1>4. Len(toServer) = 0 /\ Len(toClient) = 0 /\ chunk = <<>>
  BY <1>2, <1>3 DEF Flight, AnswersForCallers, InFlight
<1> QED
  BY <1>3, <1>4

\* A thread in a call is what ends the solitude of other calls, unless they
\* have returned: then its steps do not touch them.
LEMMA OthersKept ==
  ASSUME Lone, NEW t \in Thread, pc[t] # "idle", UNCHANGED <<op, call, alone>>,
         \A s \in Thread \ {t} :
            pc'[s] = pc[s] /\ got'[s] = got[s] /\ name'[s] = name[s]
  PROVE  \A s \in Thread \ {t} : LoneOf(s)'
<1> SUFFICES ASSUME NEW s \in Thread \ {t}, alone[s]
             PROVE  LoneOf(s)'
  BY DEF LoneOf
<1>1. t \in Busy
  BY DEF Busy
<1>2. pc[s] = "idle"
  BY <1>1 DEF Lone, LoneOf
<1>3. LoneOf(s)
  BY DEF Lone
<1> QED
  BY <1>2, <1>3 DEF LoneOf, Succeeds

\* The invariant holds when the threads begin.
LEMMA InitLone == Init => Lone
  BY DEF Init, Lone, NameSucceeded, LoneOf

\* A call that begins when no other is under way finds nothing on the way.
LEMMA SendLone ==
  ASSUME Types, Flight, Lone, NEW t \in Thread, NEW o \in Op, Send(t, o)
  PROVE  Lone'
<1>1. /\ pc[t] = "idle" /\ pc' = [pc EXCEPT ![t] = "waiting"]
      /\ op' = [op EXCEPT ![t] = o] /\ call' = [call EXCEPT ![t] = calls + 1]
      /\ got' = [got EXCEPT ![t] = <<>>] /\ name' = [name EXCEPT ![t] = <<>>]
      /\ toServer' = Append(toServer, [call |-> calls + 1, op |-> o])
      /\ UNCHANGED <<mName, chunk, toClient>>
  BY DEF Send, Goto, shared
<1>2. /\ pc \in [Thread -> Locations] /\ op \in [Thread -> Op]
      /\ call \in [Thread -> 0 .. MaxCalls]
      /\ got \in [Thread -> Seq(Reply)] /\ name \in [Thread -> Seq(Reply)]
  BY DEF Types, TypeOK
<1>3. alone' = [s \in Thread |-> IF s = t THEN Busy = {} ELSE alone[s] /\ s \notin Busy]
  BY DEF Send
<1>4. NameSucceeded'
  BY <1>1 DEF Lone, NameSucceeded, Succeeds
<1>5. LoneOf(t)'
  <2> SUFFICES ASSUME alone'[t] PROVE LoneOf(t)'
    BY DEF LoneOf
  <2>1. Busy = {}
    BY <1>3
  <2>2. toServer = <<>> /\ chunk = <<>> /\ toClient = <<>>
    BY <2>1, NothingStale
  <2>3. pc'[t] = "waiting" /\ got'[t] = <<>> /\ op'[t] = o /\ call'[t] = calls + 1
    BY <1>1, <1>2
  <2>4. Busy' = {t}
    BY <1>1, <1>2, <2>1 DEF Busy
  <2>5. OwnOnWay(t)'
    BY <1>1, <2>2, <2>3 DEF OwnOnWay
  <2> QED
    BY <2>3, <2>4, <2>5 DEF LoneOf
<1>6. ASSUME NEW s \in Thread \ {t} PROVE LoneOf(s)'
  <2> SUFFICES ASSUME alone'[s] PROVE LoneOf(s)'
    BY DEF LoneOf
  <2>1. alone[s] /\ s \notin Busy
    BY <1>3
  <2>2. pc[s] = "idle" /\ LoneOf(s)
    BY <2>1 DEF Busy, Lone
  <2>3. /\ pc'[s] = "idle" /\ got'[s] = got[s] /\ name'[s] = name[s]
        /\ op'[s] = op[s] /\ call'[s] = call[s]
    BY <1>1, <1>2, <2>2
  <2> QED
    BY <2>1, <2>2, <2>3 DEF LoneOf, Succeeds
<1> QED
  BY <1>4, <1>5, <1>6 DEF Lone

\* A lone call receives the one reply there is.
LEMMA RecvLone ==
  ASSUME Types, Lone, NEW t \in Thread, Recv(t)
  PROVE  Lone'
<1>1. PICK n \in 1 .. Len(toClient) : got' = [got EXCEPT ![t] = SubSeq(toClient, 1, n)]
  BY DEF Recv
<1>2. /\ pc[t] = "waiting" /\ pc' = [pc EXCEPT ![t] = Then(op[t], Succeeds(got'[t]))]
      /\ UNCHANGED <<mName, op, call, alone, name>>
  BY DEF Recv, Goto, shared, asked
<1>3. /\ pc \in [Thread -> Locations] /\ got \in [Thread -> Seq(Reply)]
      /\ op \in [Thread -> Op] /\ toClient \in Seq(Reply)
  BY DEF Types, TypeOK
<1>4. NameSucceeded'
  BY <1>2 DEF Lone, NameSucceeded, Succeeds
<1>5. \A s \in Thread \ {t} : LoneOf(s)'
  BY <1>1, <1>2, <1>3, OthersKept
<1>6. LoneOf(t)'
  <2> SUFFICES ASSUME alone[t] PROVE LoneOf(t)'
    BY <1>2 DEF LoneOf
  <2>1. Busy = {t} /\ OwnOnWay(t)
    BY <1>2 DEF Lone, LoneOf
  <2>2. Len(toClient) = 1 /\ toClient[1].to = <<call[t]>>
    <3>1. toClient # <<>>
      BY <1>1, <1>3
    <3> QED
      BY <2>1, <3>1 DEF OwnOnWay
  <2>3. Len(got'[t]) = 1 /\ got'[t][1] = toClient[1]
    <3>1. got'[t] = SubSeq(toClient, 1, n) /\ n = 1
      BY <1>1, <1>3, <2>2
    <3> QED
      BY <1>3, <2>2, <3>1, Parts
  <2>4. pc'[t] = Then(op[t], Succeeds(got'[t]))
    BY <1>2, <1>3
  <2>5. /\ pc'[t] = "read" => ~Succeeds(got'[t])
        /\ pc'[t] = "idle" => op[t] # "Name"
        /\ pc'[t] # "waiting"
    BY <2>4 DEF Then
  <2>6. pc'[t] # "idle" => Busy' = {t}
    BY <1>2, <1>3, <2>1 DEF Busy
  <2>7. got'[t] # <<>> => Len(got'[t]) = 1 /\ got'[t][1].to = <<call[t]>>
    BY <2>2, <2>3
  <2>8. (pc'[t] = "read" /\ Succeeds(got'[t]) => mName' = got'[t]) /\ call' = call /\ op' = op
    BY <1>2, <2>5
  <2> QED
    BY <2>5, <2>6, <2>7, <2>8 DEF LoneOf, Succeeds
<1> QED
  BY <1>4, <1>5, <1>6 DEF Lone

\* The rest of a call that is alone: nobody else assigns the name it reads.
LEMMA RestLone ==
  ASSUME Types, Lone, NEW t \in Thread,
         Store(t) \/ Read(t) \/ Lookup(t) \/ Assert(t) \/ Register(t)
  PROVE  Lone'
<1>0. /\ pc \in [Thread -> Locations] /\ name \in [Thread -> Seq(Reply)]
      /\ pc[t] \in {"store", "lookup", "create", "register"} =>
           got[t] # <<>> /\ Succeeds(got[t])
      /\ pc[t] \in {"lookup", "create", "register"} => op[t] = "GetNode"
      /\ LoneOf(t) /\ NameSucceeded
  BY DEF Types, TypeOK, CallsGoOn, Lone
<1>1. UNCHANGED <<op, call, alone, got>>
  BY DEF Store, Read, Lookup, Assert, Register, asked
<1>2. ASSUME pc[t] # "idle", NEW l, l # "waiting", pc' = [pc EXCEPT ![t] = l],
             \A s \in Thread \ {t} : name'[s] = name[s],
             l = "read" => mName' = got[t],
             l = "idle" /\ op[t] = "Name" =>
               IF Succeeds(got[t]) THEN name'[t] = got[t]
                                   ELSE name'[t] = <<>> \/ Succeeds(name'[t]),
             NameSucceeded'
      PROVE  Lone'
  <2>1. \A s \in Thread \ {t} : LoneOf(s)'
    BY <1>0, <1>1, <1>2, OthersKept
  <2>2. LoneOf(t)'
    <3> SUFFICES ASSUME alone[t] PROVE LoneOf(t)'
      BY <1>1 DEF LoneOf
    <3>1. pc'[t] = l /\ Busy = {t}
      BY <1>0, <1>2 DEF LoneOf
    <3>2. pc'[t] # "idle" => Busy' = {t}
      BY <1>0, <1>2, <3>1 DEF Busy
    <3> QED
      BY <1>0, <1>1, <1>2, <3>1, <3>2 DEF LoneOf, Succeeds
  <2> QED
    BY <1>2, <2>1, <2>2 DEF Lone
<1>3. CASE Store(t)
  <2>1. /\ pc[t] = "store" /\ pc' = [pc EXCEPT ![t] = "read"] /\ mName' = got[t]
        /\ name' = name
    BY <1>3 DEF Store, Goto
  <2>2. NameSucceeded'
    BY <1>0, <2>1 DEF NameSucceeded, Succeeds
  <2> QED
    BY <1>2, <2>1, <2>2
<1>4. CASE Read(t)
  <2>1. /\ pc[t] = "read" /\ pc' = [pc EXCEPT ![t] = "idle"] /\ mName' = mName
        /\ name' = [name EXCEPT ![t] = mName]
    BY <1>4 DEF Read, Goto, shared
  <2>2. NameSucceeded'
    BY <1>0, <2>1 DEF NameSucceeded, Succeeds
  <2>3. name'[t] = mName /\ \A s \in Thread \ {t} : name'[s] = name[s]
    BY <1>0, <2>1
  <2>4. CASE alone[t]
    <3>1. IF Succeeds(got[t]) THEN name'[t] = got[t]
                              ELSE name'[t] = <<>> \/ Succeeds(name'[t])
      BY <1>0, <2>1, <2>3, <2>4 DEF LoneOf, NameSucceeded
    <3> QED
      BY <1>2, <2>1, <2>2, <2>3, <3>1
  <2>5. CASE ~alone[t]
    <3>1. \A s \in Thread \ {t} : LoneOf(s)'
      BY <1>0, <1>1, <2>1, <2>3, OthersKept
    <3>2. LoneOf(t)'
      BY <1>1, <2>5 DEF LoneOf
    <3> QED
      BY <2>2, <3>1, <3>2 DEF Lone
  <2> QED
    BY <2>4, <2>5
<1>5. CASE Lookup(t) \/ Assert(t) \/ Register(t)
  <2>1. /\ pc[t] \in {"lookup", "create", "register"} /\ op[t] = "GetNode"
        /\ UNCHANGED <<mName, name>>
    BY <1>0, <1>5 DEF Lookup, Assert, Register, shared
  <2>2. UNCHANGED pc \/ \E l \in {"idle", "create", "register"} : pc' = [pc EXCEPT ![t] = l]
    <3> USE DEF Goto
    <3>1. CASE Lookup(t)
      BY <3>1 DEF Lookup
    <3>2. CASE Assert(t)
      BY <3>2 DEF Assert
    <3>3. CASE Register(t)
      BY <3>3 DEF Register
    <3> QED
      BY <1>5, <3>1, <3>2, <3>3
  <2>3. NameSucceeded'
    BY <1>0, <2>1 DEF NameSucceeded, Succeeds
  <2>4. CASE UNCHANGED pc
    <3>1. pc' = [pc EXCEPT ![t] = pc[t]]
      BY <1>0, <2>4
    <3>2. pc[t] # "waiting" /\ pc[t] # "idle" /\ pc[t] # "read"
      BY <2>1
    <3> QED
      BY <1>2, <2>1, <2>3, <3>1, <3>2
  <2>5. ASSUME NEW l \in {"idle", "create", "register"}, pc' = [pc EXCEPT ![t] = l]
        PROVE  Lone'
    <3>1. pc[t] # "idle" /\ l # "waiting" /\ l # "read" /\ op[t] # "Name"
      BY <2>1, <2>5
    <3> QED
      BY <1>2, <2>1, <2>3, <2>5, <3>1
  <2> QED
    BY <2>2, <2>4, <2>5
<1> QED
  BY <1>3, <1>4, <1>5

\* The session takes the one request there is for one, and answers it.
LEMMA ServerLone ==
  ASSUME Types, Lone, ServerStep
  PROVE  Lone'
<1>0. UNCHANGED <<mName, op, call, alone, pc, got, name>>
  BY DEF ServerStep, Receive, Handle, shared, local, asked
<1>1. ASSUME NEW t \in Thread, OwnOnWay(t)
      PROVE  OwnOnWay(t)'
  <2> DEFINE r == [call |-> call[t], op |-> op[t]]
  <2>0. /\ toServer \in Seq(Request) /\ chunk \in Seq(Request) /\ toClient \in Seq(Reply)
        /\ UNCHANGED <<op, call>>
    BY <1>0 DEF Types, TypeOK
  <2>1. CASE Receive
    <3>1. PICK n \in 1 .. Len(toServer) :
            /\ chunk' = SubSeq(toServer, 1, n)
            /\ toServer' = SubSeq(toServer, n + 1, Len(toServer))
      BY <2>1 DEF Receive
    <3>2. chunk = <<>> /\ toClient' = toClient /\ toServer # <<>>
      BY <2>0, <2>1, <3>1 DEF Receive
    <3>3. toServer = <<r>> /\ toClient = <<>>
      BY <1>1, <3>2 DEF OwnOnWay
    <3>4. n = 1 /\ Len(toServer) = 1 /\ toServer[1] = r
      BY <3>1, <3>3
    <3>5. Len(chunk') = 1 /\ chunk'[1] = r /\ chunk' \in Seq(Request)
      BY <2>0, <3>1, <3>4, Parts
    <3>6. chunk' = <<r>>
      BY <3>5
    <3>7. Len(toServer') = 0 /\ toServer' \in Seq(Request)
      BY <2>0, <3>1, <3>4, Parts
    <3>8. toServer' = <<>>
      BY <3>7
    <3> QED
      BY <2>0, <3>2, <3>3, <3>6, <3>8 DEF OwnOnWay
  <2>2. CASE Handle
    <3>1. PICK a \in Answers : toClient' = Append(toClient, Replying(a))
      BY <2>2 DEF Handle
    <3>2. chunk # <<>> /\ chunk' = <<>> /\ toServer' = toServer
      BY <2>2 DEF Handle
    <3>3. toServer = <<>> /\ chunk = <<r>> /\ toClient = <<>>
      BY <1>1, <3>2 DEF OwnOnWay
    <3>4. Replying(a).to = <<call[t]>>
      <4>1. DOMAIN chunk = {1} /\ chunk[1].call = call[t]
        BY <3>3
      <4>2. [i \in DOMAIN chunk |-> chunk[i].call] = [i \in {1} |-> call[t]]
        BY <4>1
      <4>3. [i \in {1} |-> call[t]] = <<call[t]>>
        OBVIOUS
      <4> QED
        BY <4>2, <4>3 DEF Replying
    <3>5. Len(toClient') = 1 /\ toClient'[1] = Replying(a)
      BY <3>1, <3>3
    <3> QED
      BY <2>0, <3>2, <3>3, <3>4, <3>5 DEF OwnOnWay
  <2> QED
    BY <2>1, <2>2 DEF ServerStep
<1>2. ASSUME NEW t \in Thread PROVE LoneOf(t)'
  <2>1. LoneOf(t)
    BY DEF Lone
  <2>2. Busy' = Busy
    BY <1>0 DEF Busy
  <2> QED
    BY <1>0, <1>1, <2>1, <2>2 DEF LoneOf, Succeeds
<1>3. NameSucceeded'
  BY <1>0 DEF Lone, NameSucceeded, Succeeds
<1> QED
  BY <1>2, <1>3 DEF Lone

-----------------------------------------------------------------------------
\* The parts of the invariant hold together.
LEMMA IInvariant == Spec => [](Types /\ Flight /\ Lone)
<1>1. Init => Flight
  <2> SUFFICES ASSUME Init PROVE Flight
    OBVIOUS
  <2>1. Waiting = {}
    BY DEF Init, Waiting
  <2>2. InFlight = 0 /\ Cardinality({}) = 0
    BY FS_EmptySet DEF Init, InFlight
  <2> QED
    BY <2>1, <2>2 DEF Flight, AnswersForCallers, SomeAnswerComes
<1>2. Types /\ Flight /\ Lone /\ [Next]_vars => Lone'
  <2> SUFFICES ASSUME Types, Flight, Lone, [Next]_vars PROVE Lone'
    OBVIOUS
  <2>1. ASSUME UNCHANGED <<mName, op, call, alone, pc, got, name, toServer, chunk, toClient>>
        PROVE  Lone'
    BY <2>1 DEF Lone, NameSucceeded, LoneOf, OwnOnWay, Busy, Succeeds
  <2>2. CASE UNCHANGED vars
    BY <2>1, <2>2 DEF vars, shared, local, asked, wire
  <2>3. CASE Fault
    BY <2>1, <2>3 DEF Fault, local, asked, wire
  <2> QED
    BY <2>2, <2>3, SendLone, RecvLone, RestLone, ServerLone DEF Next, ThreadStep, Stopped
<1> QED
  BY InitTypes, <1>1, InitLone, TypesStep, FlightStep, <1>2, PTL DEF Spec

\* What the threads, the proxy and the connection hold stays well typed; in
\* particular a thread stores or registers only an answer that is no error.
THEOREM AgentTypeCorrect == Spec => []TypeOK
<1>1. Types => TypeOK
  BY DEF Types
<1> QED
  BY IInvariant, <1>1, PTL

\* Nothing stale is ever on the agent's connection when no thread of the
\* process is in Request, whatever was mixed up before.
THEOREM NothingLeftOver == Spec => []AnswersForCallers
<1>1. Flight => AnswersForCallers
  BY DEF Flight
<1> QED
  BY IInvariant, <1>1, PTL

\* The threads are never all in recv() with no answer coming.
THEOREM NotAllHang == Spec => []SomeAnswerComes
<1>1. Flight => SomeAnswerComes
  BY DEF Flight
<1> QED
  BY IInvariant, <1>1, PTL

\* A call that no other call overlaps with returns the answer to its own
\* request, and its caller reads that.
THEOREM LoneCallsAreRight == Spec => []LoneCallGetsOwn
<1>1. Types /\ Lone => LoneCallGetsOwn
  BY DEF Lone, LoneOf, LoneCallGetsOwn
<1> QED
  BY IInvariant, <1>1, PTL

\* The proxy that is cached for a context is never replaced.
THEOREM CachedProxiesStay == Spec => ProxiesKept
<1>1. [Next]_vars => [mProxies \subseteq mProxies']_vars
  <2> SUFFICES ASSUME Next PROVE mProxies \subseteq mProxies'
    OBVIOUS
  <2>1. ASSUME NEW t \in Thread, Register(t) PROVE mProxies \subseteq mProxies'
    BY <2>1 DEF Register
  <2>2. ASSUME NEW t \in Thread,
               (\E o \in Op : Send(t, o)) \/ Recv(t) \/ Store(t) \/ Read(t) \/ Lookup(t)
               \/ Assert(t)
        PROVE  mProxies' = mProxies
    BY <2>2 DEF Send, Recv, Store, Read, Lookup, Assert, shared
  <2>3. CASE Fault \/ ServerStep \/ Stopped
    BY <2>3 DEF Fault, ServerStep, Receive, Handle, Stopped, vars, shared
  <2> QED
    BY <2>1, <2>2, <2>3 DEF Next, ThreadStep
<1> QED
  BY <1>1, PTL DEF Spec, ProxiesKept
=============================================================================
