----------------------- MODULE NestedSessions_proofs -----------------------
(* Proofs about a server with agents in it: it is a SessionRegistry, and   *)
(* what nested sessions do is in step with the threads that wait for them. *)
EXTENDS NestedSessions, SessionRegistry_proofs

AskedTypes ==
  /\ parent \in [Session -> Session \cup {None}]
  /\ asked \in [Session -> Session \cup {None}]

\* A thread waits for a session that its own environment opened, and does
\* nothing else ...
AskedInside ==
  \A p \in Session : asked[p] # None =>
    pc[p] = "handling" /\ asked[p] \in Session /\ parent[asked[p]] = p

\* ... and whose connection it keeps open.
AskedOpen == \A p \in Session : asked[p] # None => client[asked[p]] = "open"

\* On a connection that is not accepted nothing has been sent.
FreshQuiet == \A c \in Session : pc[c] = "none" => inbox[c] = 0 /\ unread[c] = 0

\* The inductive invariant, beside that of the registry.  InStep alone is not
\* inductive: a reply to a closed connection would be lost (AskedOpen), and a
\* session that becomes nested must have nothing to do (FreshQuiet).
NestedInv == AskedTypes /\ AskedInside /\ AskedOpen /\ FreshQuiet /\ InStep

-----------------------------------------------------------------------------
\* Agents and threads that wait are sessions or none.
LEMMA AskedTypesHold == NestedSpec => []AskedTypes
<1>1. NestedInit => AskedTypes
  BY DEF NestedInit, AskedTypes
<1>2. AskedTypes /\ [NestedNext]_nestedVars => AskedTypes'
  <2> SUFFICES ASSUME AskedTypes, [NestedNext]_nestedVars PROVE AskedTypes'
    OBVIOUS
  <2> USE DEF AskedTypes, nested
  <2>1. CASE UNCHANGED nestedVars
    BY <2>1 DEF nestedVars
  <2>2. ASSUME NEW c \in Session, AcceptConnection(c) \/ Serve(c) \/ Outside(c)
        PROVE  AskedTypes'
    BY <2>2 DEF AcceptConnection, Serve, Outside
  <2>3. ASSUME NEW p \in Session, NEW c \in Session,
               Connect(p, c) \/ Ask(p, c) \/ RemoveAgent(p, c)
        PROVE  AskedTypes'
    BY <2>3 DEF Connect, Ask, RemoveAgent
  <2>4. ASSUME NEW p \in Session, GetAnswer(p)
        PROVE  AskedTypes'
    BY <2>4 DEF GetAnswer
  <2> QED
    BY <2>1, <2>2, <2>3, <2>4 DEF NestedNext, NestedStopped
<1> QED
  BY <1>1, <1>2, PTL DEF NestedSpec

\* A step of the server with agents is a step of the registry or a stutter:
\* an agent is a client.
LEMMA NestedStep ==
  ASSUME AskedTypes, [NestedNext]_nestedVars
  PROVE  [Next]_vars
<1>1. CASE UNCHANGED nestedVars
  BY <1>1 DEF nestedVars
<1>2. ASSUME up, NEW c \in Session, Accept(c) \/ ThreadStep(c) \/ ClientStep(c)
      PROVE  Next
  BY <1>2 DEF Next
<1>3. ASSUME up, NEW c \in Session, AcceptConnection(c) \/ Serve(c) \/ Outside(c)
      PROVE  Next
  BY <1>2, <1>3 DEF AcceptConnection, Serve, Outside, ThreadStep
<1>4. ASSUME up, NEW p \in Session, NEW c \in Session,
             Connect(p, c) \/ Ask(p, c) \/ RemoveAgent(p, c)
      PROVE  [Next]_vars
  BY <1>2, <1>4 DEF Connect, Ask, RemoveAgent, ClientStep
<1>5. ASSUME up, NEW p \in Session, GetAnswer(p)
      PROVE  Next
  <2>1. asked[p] \in Session
    BY <1>5 DEF GetAnswer, AskedTypes
  <2> QED
    BY <1>2, <1>5, <2>1 DEF GetAnswer, ClientStep
<1>6. CASE NestedStopped
  BY <1>6 DEF NestedStopped, nestedVars
<1> QED
  BY <1>1, <1>3, <1>4, <1>5, <1>6 DEF NestedNext

\* So what is proved of the registry holds with nested sessions too.
LEMMA NestedIsRegistry == NestedSpec => Spec
<1>1. NestedInit => Init
  BY DEF NestedInit
<1> QED
  BY <1>1, AskedTypesHold, NestedStep, PTL DEF NestedSpec, Spec

-----------------------------------------------------------------------------
\* Where a thread is at work on a request.
AtWork == {"handling", "replying", "send"}

\* What a session has to do, from the three things it depends on.
LEMMA WorkIs ==
  ASSUME TypeOK, NEW c \in Session
  PROVE  /\ inbox[c] \in Nat /\ unread[c] \in Nat
         /\ Work(c) \in Nat
         /\ pc[c] \in AtWork => Work(c) = inbox[c] + unread[c] + 1
         /\ pc[c] \notin AtWork => Work(c) = inbox[c] + unread[c]
<1>1. inbox[c] \in Nat /\ unread[c] \in Nat
  BY DEF TypeOK
<1> QED
  BY <1>1 DEF Work, AtWork

\* The invariant holds when the server starts.
LEMMA InitNestedInv == NestedInit => NestedInv
  BY DEF NestedInit, Init, NestedInv, AskedTypes, AskedInside, AskedOpen, FreshQuiet, InStep

\* A step that touches neither what nested sessions have to do nor who waits,
\* and ends no handling, keeps the invariant.
LEMMA QuietMove ==
  ASSUME NestedInv, UNCHANGED <<parent, asked, client, inbox, unread>>,
         \A d \in Session : /\ pc'[d] \in AtWork <=> pc[d] \in AtWork
                            /\ pc'[d] = "none" => pc[d] = "none"
                            /\ asked[d] # None => pc'[d] = pc[d]
  PROVE  NestedInv'
<1>1. \A d \in Session : Work(d)' = Work(d)
  BY DEF Work, AtWork
<1>2. InStep'
  BY <1>1 DEF NestedInv, InStep
<1>3. AskedTypes' /\ AskedInside' /\ AskedOpen' /\ FreshQuiet'
  BY DEF NestedInv, AskedTypes, AskedInside, AskedOpen, FreshQuiet
<1> QED
  BY <1>2, <1>3 DEF NestedInv

\* What a step of one session must do for the invariant, when all else stays.
LEMMA OneMoves ==
  ASSUME NestedInv, NEW c \in Session,
         UNCHANGED <<parent, asked>>,
         \A d \in Session \ {c} :
            /\ pc'[d] = pc[d] /\ client'[d] = client[d]
            /\ inbox'[d] = inbox[d] /\ unread'[d] = unread[d],
         asked[c] # None => pc'[c] = pc[c],
         pc'[c] # "none",
         (parent[c] # None /\ asked[parent[c]] = c) => client'[c] = client[c],
         parent[c] # None => Work(c)' = Work(c)
  PROVE  NestedInv'
<1>1. AskedTypes'
  BY DEF NestedInv, AskedTypes
<1>2. AskedInside'
  BY DEF NestedInv, AskedInside
<1>3. AskedOpen'
  <2> SUFFICES ASSUME NEW p \in Session, asked[p] # None
               PROVE  client'[asked[p]] = "open"
    BY DEF AskedOpen
  <2>1. asked[p] \in Session /\ parent[asked[p]] = p /\ client[asked[p]] = "open"
    BY DEF NestedInv, AskedInside, AskedOpen
  <2>2. p # None
    BY SessionAssumption
  <2> QED
    BY <2>1, <2>2
<1>4. FreshQuiet'
  BY DEF NestedInv, FreshQuiet
<1>5. InStep'
  <2>1. \A d \in Session \ {c} : Work(d)' = Work(d)
    BY DEF Work
  <2> QED
    BY <2>1 DEF NestedInv, InStep
<1> QED
  BY <1>1, <1>2, <1>3, <1>4, <1>5 DEF NestedInv

-----------------------------------------------------------------------------
\* A nested session that is at work has its agent waiting for it: the
\* connection is open.
LEMMA WorkedFor ==
  ASSUME TypeOK, NestedInv, NEW c \in Session, parent[c] # None, Work(c) # 0
  PROVE  Work(c) = 1 /\ asked[parent[c]] = c /\ client[c] = "open"
<1>1. parent[c] \in Session
  BY DEF NestedInv, AskedTypes
<1>2. Work(c) = 1 /\ asked[parent[c]] = c
  BY DEF NestedInv, InStep
<1>3. c # None
  BY SessionAssumption
<1> QED
  BY <1>1, <1>2, <1>3 DEF NestedInv, AskedOpen

\* The steps of the session threads.
LEMMA ServeStep ==
  ASSUME TypeOK, TypeOK', NestedInv, NEW c \in Session, Serve(c)
  PROVE  NestedInv'
<1>1. asked[c] = None /\ UNCHANGED <<parent, asked>>
  BY DEF Serve, nested
<1>2. pc \in [Session -> Locations] /\ unread \in [Session -> 0 .. SockCap]
      /\ inbox \in [Session -> Nat]
  BY DEF TypeOK
<1>4. ASSUME NEW l, pc' = [pc EXCEPT ![c] = l], l \in AtWork <=> pc[c] \in AtWork,
             l # "none", UNCHANGED <<client, inbox, unread>>
      PROVE  NestedInv'
  <2>1. \A d \in Session : /\ pc'[d] \in AtWork <=> pc[d] \in AtWork
                           /\ pc'[d] = "none" => pc[d] = "none"
                           /\ asked[d] # None => pc'[d] = pc[d]
    BY <1>1, <1>2, <1>4
  <2> QED
    BY <1>1, <1>4, <2>1, QuietMove
<1>5. CASE LockMutex(c)
  <2>1. /\ pc' = [pc EXCEPT ![c] = Locked[pc[c]]]
        /\ UNCHANGED <<client, inbox, unread>>
    BY <1>5 DEF LockMutex, Goto, socket
  <2>2. \/ pc[c] = "joining" /\ Locked[pc[c]] = "join"
        \/ pc[c] = "replying" /\ Locked[pc[c]] = "send"
        \/ pc[c] = "leaving" /\ Locked[pc[c]] = "leave"
    BY <1>5 DEF LockMutex, Waiting, Locked
  <2>3. Locked[pc[c]] \in AtWork <=> pc[c] \in AtWork
    BY <2>2 DEF AtWork
  <2>4. Locked[pc[c]] # "none"
    BY <2>2
  <2> QED
    BY <1>4, <2>1, <2>3, <2>4
<1>6. CASE Register(c)
  BY <1>4, <1>6 DEF Register, Goto, socket, AtWork
<1>7. CASE Disconnect(c)
  BY <1>4, <1>7 DEF Disconnect, Goto, socket, AtWork
<1>8. CASE Answer(c)
  BY <1>4, <1>8 DEF Answer, Goto, socket, AtWork
<1>9. CASE Unregister(c)
  BY <1>4, <1>9 DEF Unregister, Goto, socket, AtWork
<1>10. CASE SendBroken(c)
  <2>1. UNCHANGED <<pc, client, inbox, unread>>
    BY <1>10 DEF SendBroken, socket
  <2> QED
    BY <1>1, <2>1, QuietMove
<1>11. CASE Receive(c)
  <2>1. PICK k \in 1 .. inbox[c] : inbox' = [inbox EXCEPT ![c] = inbox[c] - k]
    BY <1>11 DEF Receive
  <2>2. /\ pc[c] = "recv" /\ pc' = [pc EXCEPT ![c] = "handling"]
        /\ UNCHANGED <<client, unread>>
    BY <1>11 DEF Receive, Goto
  <2>3. ASSUME parent[c] # None PROVE Work(c)' = Work(c)
    <3>1. Work(c) = inbox[c] + unread[c] /\ inbox[c] \in Nat /\ unread[c] \in Nat
      BY <2>2, WorkIs DEF AtWork
    <3>2. inbox[c] # 0
      BY <1>2, <2>1
    <3>3. Work(c) = 1
      BY <2>3, <3>1, <3>2, WorkedFor
    <3>4. inbox[c] = 1 /\ unread[c] = 0 /\ k = 1
      BY <2>1, <3>1, <3>2, <3>3
    <3>5. inbox'[c] = 0 /\ unread'[c] = 0 /\ pc'[c] = "handling"
      BY <1>2, <2>1, <2>2, <3>4
    <3>6. Work(c)' = 1
      BY <3>5 DEF Work
    <3> QED
      BY <3>3, <3>6
  <2>4. \A d \in Session \ {c} :
           /\ pc'[d] = pc[d] /\ client'[d] = client[d]
           /\ inbox'[d] = inbox[d] /\ unread'[d] = unread[d]
    BY <1>2, <2>1, <2>2
  <2>5. pc'[c] # "none" /\ client'[c] = client[c]
    BY <1>2, <2>2
  <2> QED
    BY <1>1, <2>3, <2>4, <2>5, OneMoves
<1>12. CASE SendReply(c)
  <2>1. /\ pc[c] = "send" /\ pc' = [pc EXCEPT ![c] = "recv"]
        /\ UNCHANGED <<client, inbox>>
        /\ IF client[c] = "open" THEN unread' = [unread EXCEPT ![c] = unread[c] + 1]
                                 ELSE unread' = unread
    BY <1>12 DEF SendReply, Goto
  <2>2. ASSUME parent[c] # None PROVE Work(c)' = Work(c)
    <3>1. /\ Work(c) = inbox[c] + unread[c] + 1
          /\ inbox[c] \in Nat /\ unread[c] \in Nat
      BY <2>1, WorkIs DEF AtWork
    <3>2. Work(c) # 0
      BY <3>1
    <3>3. client[c] = "open"
      BY <2>2, <3>2, WorkedFor
    <3>4. inbox'[c] = inbox[c] /\ unread'[c] = unread[c] + 1 /\ pc'[c] = "recv"
      BY <1>2, <2>1, <3>3
    <3>5. Work(c)' = inbox'[c] + unread'[c] + 0
      BY <3>4 DEF Work
    <3> QED
      BY <3>1, <3>4, <3>5
  <2>3. \A d \in Session \ {c} : unread'[d] = unread[d]
    BY <1>2, <2>1
  <2>4. \A d \in Session \ {c} :
           /\ pc'[d] = pc[d] /\ client'[d] = client[d]
           /\ inbox'[d] = inbox[d] /\ unread'[d] = unread[d]
    BY <1>2, <2>1, <2>3
  <2>5. pc'[c] # "none" /\ client'[c] = client[c]
    BY <1>2, <2>1
  <2> QED
    BY <1>1, <2>2, <2>4, <2>5, OneMoves
<1> QED
  BY <1>5, <1>6, <1>7, <1>8, <1>9, <1>10, <1>11, <1>12 DEF Serve

-----------------------------------------------------------------------------
\* A thread that works asks a session of its own environment, which has
\* nothing to do until then.
LEMMA AskStep ==
  ASSUME TypeOK, NestedInv, NEW p \in Session, NEW c \in Session, Ask(p, c)
  PROVE  NestedInv'
<1>1. /\ pc[p] = "handling" /\ asked[p] = None /\ parent[c] = p
      /\ client[c] = "open" /\ pc[c] # "none"
      /\ asked' = [asked EXCEPT ![p] = c]
      /\ inbox' = [inbox EXCEPT ![c] = inbox[c] + 1]
      /\ UNCHANGED <<pc, client, unread, parent>>
  BY DEF Ask, Working, Agents, ClientSend
<1>2. /\ p # None /\ c # None
      /\ parent \in [Session -> Session \cup {None}]
      /\ asked \in [Session -> Session \cup {None}]
  BY SessionAssumption DEF NestedInv, AskedTypes
<1>3. AskedTypes'
  BY <1>1, <1>2 DEF AskedTypes
<1>4. AskedInside' /\ AskedOpen'
  BY <1>1, <1>2 DEF NestedInv, AskedInside, AskedOpen
<1>5. inbox \in [Session -> Nat] /\ inbox'[c] = inbox[c] + 1
      /\ \A d \in Session \ {c} : inbox'[d] = inbox[d]
  BY <1>1 DEF TypeOK
<1>6. FreshQuiet'
  BY <1>1, <1>5 DEF NestedInv, FreshQuiet
<1>7. InStep'
  <2> SUFFICES ASSUME NEW d \in Session, parent[d] # None
               PROVE  Work(d)' = IF asked'[parent[d]] = d THEN 1 ELSE 0
    BY <1>1 DEF InStep
  <2>1. Work(d) = IF asked[parent[d]] = d THEN 1 ELSE 0
    BY DEF NestedInv, InStep
  <2>2. CASE d = c
    <3>1. Work(c) = 0 /\ asked'[parent[c]] = c
      BY <1>1, <1>2, <2>1, <2>2
    <3>2. inbox[c] \in Nat /\ unread[c] \in Nat
      BY WorkIs
    <3>3. Work(c)' = Work(c) + 1
      <4>1. pc'[c] = pc[c] /\ unread'[c] = unread[c] /\ inbox'[c] = inbox[c] + 1
        BY <1>1, <1>5
      <4> QED
        BY <3>2, <4>1 DEF Work
    <3> QED
      BY <2>2, <3>1, <3>3
  <2>3. CASE d # c
    <3>1. Work(d)' = Work(d)
      BY <1>1, <1>5, <2>3 DEF Work
    <3>2. asked'[parent[d]] = d <=> asked[parent[d]] = d
      <4>1. d # None
        BY SessionAssumption
      <4> QED
        BY <1>1, <1>2, <2>3, <4>1
    <3> QED
      BY <2>1, <3>1, <3>2
  <2> QED
    BY <2>2, <2>3
<1> QED
  BY <1>3, <1>4, <1>6, <1>7 DEF NestedInv

\* The answer was all that the nested session had to do.
LEMMA GetAnswerStep ==
  ASSUME TypeOK, NestedInv, NEW p \in Session, GetAnswer(p)
  PROVE  NestedInv'
<1>c. PICK c \in Session : c = asked[p]
  BY DEF GetAnswer, NestedInv, AskedInside
<1>1. /\ c # None /\ unread[c] > 0 /\ client[c] = "open"
      /\ asked' = [asked EXCEPT ![p] = None]
      /\ unread' = [unread EXCEPT ![c] = unread[c] - 1]
      /\ UNCHANGED <<pc, client, inbox, parent>>
  BY <1>c DEF GetAnswer, ClientRead
<1>2. /\ p # None
      /\ parent \in [Session -> Session \cup {None}]
      /\ asked \in [Session -> Session \cup {None}]
  BY SessionAssumption DEF NestedInv, AskedTypes
<1>3. c \in Session /\ parent[c] = p
  BY <1>c, <1>1 DEF NestedInv, AskedInside
<1>4. AskedTypes'
  BY <1>1, <1>2 DEF AskedTypes
<1>5. \A q \in Session : asked'[q] # None => asked'[q] = asked[q]
  BY <1>1, <1>2
<1>6. AskedInside' /\ AskedOpen'
  BY <1>1, <1>5 DEF NestedInv, AskedInside, AskedOpen
<1>7. unread \in [Session -> 0 .. SockCap] /\ unread'[c] = unread[c] - 1
      /\ \A d \in Session \ {c} : unread'[d] = unread[d]
  BY <1>1, <1>3 DEF TypeOK
<1>8. unread[c] # 0 /\ unread[c] \in Nat /\ inbox[c] \in Nat
  BY <1>1, <1>3, WorkIs
<1>9. FreshQuiet'
  <2>1. pc[c] # "none"
    BY <1>3, <1>8 DEF NestedInv, FreshQuiet
  <2> QED
    BY <1>1, <1>7, <2>1 DEF NestedInv, FreshQuiet
<1>10. Work(c)' = 0
  <2>1. Work(c) = 1
    BY <1>1, <1>2, <1>3, <1>c DEF NestedInv, InStep
  <2>2. inbox[c] = 0 /\ unread[c] = 1 /\ pc[c] \notin AtWork
    <3>1. pc[c] \in AtWork => Work(c) = inbox[c] + unread[c] + 1
      BY WorkIs
    <3>2. pc[c] \notin AtWork => Work(c) = inbox[c] + unread[c]
      BY WorkIs
    <3> QED
      BY <1>8, <2>1, <3>1, <3>2
  <2>3. inbox'[c] = 0 /\ unread'[c] = 0 /\ pc'[c] \notin AtWork
    BY <1>1, <1>7, <2>2
  <2> QED
    BY <2>3 DEF Work, AtWork
<1>11. InStep'
  <2> SUFFICES ASSUME NEW d \in Session, parent[d] # None
               PROVE  Work(d)' = IF asked'[parent[d]] = d THEN 1 ELSE 0
    BY <1>1 DEF InStep
  <2>1. d # None /\ parent[d] \in Session
    BY <1>2, SessionAssumption
  <2>2. CASE d = c
    <3>1. asked'[parent[d]] # d
      BY <1>1, <1>2, <1>3, <2>1, <2>2
    <3> QED
      BY <1>10, <2>2, <3>1
  <2>3. CASE d # c
    <3>1. Work(d)' = Work(d)
      BY <1>1, <1>7, <2>3 DEF Work
    <3>2. asked'[parent[d]] = d <=> asked[parent[d]] = d
      BY <1>1, <1>2, <1>c, <2>1, <2>3
    <3>3. Work(d) = IF asked[parent[d]] = d THEN 1 ELSE 0
      BY DEF NestedInv, InStep
    <3> QED
      BY <3>1, <3>2, <3>3
  <2> QED
    BY <2>2, <2>3
<1> QED
  BY <1>4, <1>6, <1>9, <1>11 DEF NestedInv

\* An agent is removed by a thread that does not wait for it: nothing of its
\* session's work is lost.
LEMMA RemoveAgentStep ==
  ASSUME TypeOK, NestedInv, NEW p \in Session, NEW c \in Session, RemoveAgent(p, c)
  PROVE  NestedInv'
<1>1. /\ asked[p] = None /\ parent[c] = p /\ pc[c] # "none"
      /\ client' = [client EXCEPT ![c] = "closed"]
      /\ unread' = [unread EXCEPT ![c] = 0]
      /\ UNCHANGED <<pc, inbox, parent, asked>>
  BY DEF RemoveAgent, Working, Agents, ClientClose, nested
<1>2. /\ unread \in [Session -> 0 .. SockCap]
      /\ client \in [Session -> {"open", "closed"}]
  BY DEF TypeOK
<1>3. c # None /\ p # None
  BY SessionAssumption
<1>4. unread[c] = 0
  <2>1. Work(c) = 0
    BY <1>1, <1>3 DEF NestedInv, InStep
  <2>2. /\ inbox[c] \in Nat /\ unread[c] \in Nat
        /\ pc[c] \in AtWork => Work(c) = inbox[c] + unread[c] + 1
        /\ pc[c] \notin AtWork => Work(c) = inbox[c] + unread[c]
    BY WorkIs
  <2> QED
    BY <2>1, <2>2
<1>5. unread' = unread
  BY <1>1, <1>2, <1>4
<1>6. Work(c)' = Work(c)
  BY <1>1, <1>5 DEF Work
<1>7. \A d \in Session \ {c} :
         /\ pc'[d] = pc[d] /\ client'[d] = client[d]
         /\ inbox'[d] = inbox[d] /\ unread'[d] = unread[d]
  BY <1>1, <1>2, <1>5
<1>8. ~(parent[c] # None /\ asked[parent[c]] = c)
  BY <1>1, <1>3
<1> QED
  BY <1>1, <1>6, <1>7, <1>8, OneMoves

\* The steps of clients outside the process.
LEMMA OutsideStep ==
  ASSUME TypeOK, NestedInv, NEW c \in Session, Outside(c)
  PROVE  NestedInv'
<1>1. parent[c] = None /\ UNCHANGED <<parent, asked, pc>>
  BY DEF Outside, nested, ClientStep, ClientSend, ClientRead, ClientClose
<1>2. /\ unread \in [Session -> 0 .. SockCap] /\ inbox \in [Session -> Nat]
      /\ client \in [Session -> {"open", "closed"}]
  BY DEF TypeOK
<1>3. pc[c] # "none"
  <2>1. unread[c] > 0 => unread[c] # 0
    BY <1>2
  <2> QED
    BY <2>1 DEF Outside, ClientStep, ClientSend, ClientRead, ClientClose, NestedInv, FreshQuiet
<1>4. \A d \in Session \ {c} :
         /\ pc'[d] = pc[d] /\ client'[d] = client[d]
         /\ inbox'[d] = inbox[d] /\ unread'[d] = unread[d]
  <2>1. CASE ClientSend(c)
    BY <1>1, <1>2, <2>1 DEF ClientSend
  <2>2. CASE ClientRead(c)
    BY <1>1, <1>2, <2>2 DEF ClientRead
  <2>3. CASE ClientClose(c)
    BY <1>1, <1>2, <2>3 DEF ClientClose
  <2> QED
    BY <2>1, <2>2, <2>3 DEF Outside, ClientStep
<1> QED
  BY <1>1, <1>3, <1>4, OneMoves

\* An agent connects: what becomes a nested session has never been used.
LEMMA ConnectStep ==
  ASSUME NestedInv, NEW p \in Session, NEW c \in Session, Connect(p, c)
  PROVE  NestedInv'
<1>1. /\ asked[p] = None /\ pc[c] = "none" /\ parent[c] = None
      /\ parent' = [parent EXCEPT ![c] = p]
      /\ UNCHANGED <<asked, pc, client, inbox, unread>>
  BY DEF Connect, Working, vars, socket
<1>2. /\ parent \in [Session -> Session \cup {None}]
      /\ asked \in [Session -> Session \cup {None}]
      /\ p # None
  BY SessionAssumption DEF NestedInv, AskedTypes
<1>3. AskedTypes' /\ AskedOpen' /\ FreshQuiet'
  BY <1>1, <1>2 DEF NestedInv, AskedTypes, AskedOpen, FreshQuiet
<1>4. AskedInside'
  <2> SUFFICES ASSUME NEW q \in Session, asked[q] # None
               PROVE  /\ pc[q] = "handling" /\ asked[q] \in Session
                      /\ parent'[asked[q]] = q
    BY <1>1 DEF AskedInside
  <2>1. pc[q] = "handling" /\ asked[q] \in Session /\ parent[asked[q]] = q
    BY DEF NestedInv, AskedInside
  <2>2. q # None
    BY SessionAssumption
  <2> QED
    BY <1>1, <1>2, <2>1, <2>2
<1>5. InStep'
  <2> SUFFICES ASSUME NEW d \in Session, parent'[d] # None
               PROVE  Work(d)' = IF asked[parent'[d]] = d THEN 1 ELSE 0
    BY <1>1 DEF InStep
  <2>1. Work(d)' = Work(d)
    BY <1>1 DEF Work
  <2>2. CASE d = c
    <3>1. inbox[c] = 0 /\ unread[c] = 0
      BY <1>1 DEF NestedInv, FreshQuiet
    <3>2. Work(c) = 0
      BY <1>1, <3>1 DEF Work
    <3>3. asked[parent'[c]] # c
      <4>1. c # None
        BY SessionAssumption
      <4> QED
        BY <1>1, <1>2, <4>1
    <3> QED
      BY <2>1, <2>2, <3>2, <3>3
  <2>3. CASE d # c
    <3>1. parent'[d] = parent[d]
      BY <1>1, <1>2, <2>3
    <3> QED
      BY <2>1, <3>1 DEF NestedInv, InStep
  <2> QED
    BY <2>2, <2>3
<1> QED
  BY <1>3, <1>4, <1>5 DEF NestedInv

\* A connection is accepted, be it an agent's or not.
LEMMA AcceptStep ==
  ASSUME TypeOK, NestedInv, NEW c \in Session, AcceptConnection(c)
  PROVE  NestedInv'
<1>1. /\ pc[c] = "none"
      /\ pc' = [pc EXCEPT ![c] = "joining"] \/ pc' = [pc EXCEPT ![c] = "unserved"]
      /\ UNCHANGED <<parent, asked, client, inbox, unread>>
  BY DEF AcceptConnection, Accept, Goto, nested, socket
<1>2. pc \in [Session -> Locations]
  BY DEF TypeOK
<1>3. asked[c] = None
  BY <1>1 DEF NestedInv, AskedInside
<1>4. \A d \in Session : /\ pc'[d] \in AtWork <=> pc[d] \in AtWork
                         /\ pc'[d] = "none" => pc[d] = "none"
                         /\ asked[d] # None => pc'[d] = pc[d]
  BY <1>1, <1>2, <1>3 DEF AtWork
<1> QED
  BY <1>1, <1>4, QuietMove

\* Every step preserves the invariant.
LEMMA NestedInvStep ==
  ASSUME TypeOK, TypeOK', NestedInv, [NestedNext]_nestedVars
  PROVE  NestedInv'
<1>1. CASE UNCHANGED nestedVars
  <2>1. UNCHANGED <<parent, asked, pc, client, inbox, unread>>
    BY <1>1 DEF nestedVars, nested, vars, socket
  <2> QED
    BY <2>1, QuietMove
<1>2. ASSUME NEW c \in Session, AcceptConnection(c) \/ Serve(c) \/ Outside(c)
      PROVE  NestedInv'
  BY <1>2, AcceptStep, ServeStep, OutsideStep
<1>3. ASSUME NEW p \in Session, NEW c \in Session,
             Connect(p, c) \/ Ask(p, c) \/ RemoveAgent(p, c)
      PROVE  NestedInv'
  BY <1>3, ConnectStep, AskStep, RemoveAgentStep
<1>4. ASSUME NEW p \in Session, GetAnswer(p)
      PROVE  NestedInv'
  BY <1>4, GetAnswerStep
<1> QED
  BY <1>1, <1>2, <1>3, <1>4 DEF NestedNext, NestedStopped

\* The registry's invariant and that of the agents hold together.
LEMMA NestedInvariant == NestedSpec => [](TypeOK /\ NestedInv)
<1>1. NestedSpec => []TypeOK
  BY NestedIsRegistry, TypeCorrect
<1>2. TypeOK /\ TypeOK' /\ NestedInv /\ [NestedNext]_nestedVars => NestedInv'
  BY NestedInvStep
<1> QED
  BY <1>1, <1>2, InitNestedInv, PTL DEF NestedSpec

\* The types of the registry, and: a thread that waits for an agent's answer is
\* in the middle of a request, and waits for a session of its own environment.
THEOREM NestedTypeCorrect == NestedSpec => []NestedTypeOK
<1>1. TypeOK /\ NestedInv => NestedTypeOK
  BY DEF NestedInv, AskedTypes, AskedInside, NestedTypeOK, Agents
<1> QED
  BY NestedInvariant, <1>1, PTL

\* A session opened by an agent works on one request while the thread that
\* uses the agent waits in recv(), and on none otherwise.
THEOREM NestedInStep == NestedSpec => []InStep
<1>1. NestedInv => InStep
  BY DEF NestedInv
<1> QED
  BY NestedInvariant, <1>1, PTL

\* The reply to an agent is sent without blocking, with the mutex held: the
\* connection is open and empty.
THEOREM AgentsNeverBlock == NestedSpec => []AgentsSpareMutex
<1>1. TypeOK /\ NestedInv => AgentsSpareMutex
  <2> SUFFICES ASSUME TypeOK, NestedInv, NEW c \in Session, parent[c] # None, pc[c] = "send"
               PROVE  client[c] = "open" /\ unread[c] < SockCap
    BY DEF AgentsSpareMutex
  <2>1. /\ inbox[c] \in Nat /\ unread[c] \in Nat
        /\ Work(c) = inbox[c] + unread[c] + 1
    BY WorkIs DEF AtWork
  <2>2. Work(c) # 0
    BY <2>1
  <2>3. Work(c) = 1 /\ client[c] = "open"
    BY <2>2, WorkedFor
  <2>4. unread[c] = 0 /\ 0 < SockCap
    BY <2>1, <2>3, BoundAssumption
  <2> QED
    BY <2>3, <2>4
<1> QED
  BY NestedInvariant, <1>1, PTL
=============================================================================
