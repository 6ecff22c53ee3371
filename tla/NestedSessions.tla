--------------------------- MODULE NestedSessions ---------------------------
(***************************************************************************)
(* The server with agents in it: SessionRegistry, where a connection can   *)
(* be that of an agent (dmas/renv.cpp) in the environment of another       *)
(* session.  BaseClient::Connect ignores its argument and connects to this *)
(* very port, so an agent in a session's environment opens one more        *)
(* session of the same process, and the thread that handles a request      *)
(* waits in the middle of it for the answer of that session's thread.      *)
(* Both need the one mutex to join, to reply and to leave.                 *)
(*                                                                         *)
(* A session uses its own environment here.  Several threads with one      *)
(* agent, as after AttachEnv, are the subject of SharedAgent.              *)
(***************************************************************************)
EXTENDS SessionRegistry

VARIABLES
  parent, \* the session whose environment has the agent at the other end,
          \* None for a client outside the process
  asked   \* the nested session whose answer a thread waits for, or None

nested     == <<parent, asked>>
nestedVars == <<vars, nested>>

\* The thread runs code of its environment.
Working(p) == pc[p] = "handling" /\ asked[p] = None

Agents(p) == {c \in Session : parent[c] = p}

NestedInit ==
  /\ Init
  /\ parent = [c \in Session |-> None]
  /\ asked = [c \in Session |-> None]
-----------------------------------------------------------------------------
(* The agents.                                                             *)

\* ChangeCont of an agent connects: the connection waits to be accepted.
Connect(p, c) ==
  /\ Working(p)
  /\ pc[c] = "none" /\ parent[c] = None
  /\ parent' = [parent EXCEPT ![c] = p]
  /\ UNCHANGED <<vars, asked>>

\* Slip: the request is made with the mutex held.
AskLocked(p, c) ==
  /\ Working(p) /\ c \in Agents(p)
  /\ sMutex = None /\ sMutex' = p
  /\ client[c] = "open" /\ toSend[c] > 0
  /\ toSend' = [toSend EXCEPT ![c] = @ - 1]
  /\ inbox' = [inbox EXCEPT ![c] = @ + 1]
  /\ asked' = [asked EXCEPT ![p] = c]
  /\ UNCHANGED <<up, mAttached, pc, scan, table, client, unread, reset, parent>>

\* Slip: the answer is not waited for.
AskAndGoOn(p, c) ==
  /\ Working(p) /\ c \in Agents(p)
  /\ ClientSend(c)
  /\ UNCHANGED nested

\* Request of an agent, up to its recv().
Ask(p, c) ==
  /\ Working(p) /\ c \in Agents(p)
  /\ ClientSend(c)
  /\ asked' = [asked EXCEPT ![p] = c]
  /\ UNCHANGED parent

\* ... and the rest of it.
GetAnswer(p) ==
  /\ asked[p] # None
  /\ ClientRead(asked[p])
  /\ asked' = [asked EXCEPT ![p] = None]
  /\ UNCHANGED parent

\* The environment destroys an agent, whose BaseClient disconnects.
RemoveAgent(p, c) ==
  /\ Working(p) /\ c \in Agents(p)
  /\ ClientClose(c)
  /\ UNCHANGED nested
-----------------------------------------------------------------------------
(* The server and the clients outside.                                     *)

AcceptConnection(c) == Accept(c) /\ UNCHANGED nested

\* Slip: a thread goes on although the answer has not come.
ServeUnanswered(c) ==
  /\ \/ LockMutex(c) \/ Register(c) \/ Receive(c) \/ Disconnect(c) \/ Answer(c)
     \/ SendReply(c) \/ SendBroken(c) \/ Unregister(c)
  /\ UNCHANGED nested

\* A thread that waits for a nested answer has not finished its request.
Serve(c) ==
  /\ asked[c] = None
  /\ \/ LockMutex(c) \/ Register(c) \/ Receive(c) \/ Disconnect(c) \/ Answer(c)
     \/ SendReply(c) \/ SendBroken(c) \/ Unregister(c)
  /\ UNCHANGED nested

Outside(c) == parent[c] = None /\ ClientStep(c) /\ UNCHANGED nested

\* pthread_create failed for an agent's connection: nobody will answer it.
AgentUnserved == \E c \in Session : parent[c] # None /\ pc[c] = "unserved"

\* The process has ended, or nothing is left but nested sessions, whose agents
\* no thread uses any more, and threads that nobody will answer.
NestedStopped ==
  /\ \/ ~up
     \/ \A c \in Session :
          \/ pc[c] \in Ended
          \/ pc[c] = "recv" /\ parent[c] # None
          \/ asked[c] # None /\ AgentUnserved
  /\ UNCHANGED nestedVars

NestedNext ==
  \/ up /\ \E c \in Session : AcceptConnection(c) \/ Serve(c) \/ Outside(c)
  \/ up /\ \E p, c \in Session : Connect(p, c) \/ Ask(p, c) \/ RemoveAgent(p, c)
  \/ up /\ \E p \in Session : GetAnswer(p)
  \/ NestedStopped

NestedSpec == NestedInit /\ [][NestedNext]_nestedVars

\* A thread that can move does, the accepting one included; a client outside
\* reads what it is sent, or closes.
NestedFairness ==
  \A c \in Session :
    /\ WF_nestedVars(up /\ Serve(c))
    /\ WF_nestedVars(up /\ GetAnswer(c))
    /\ WF_nestedVars(up /\ parent[c] # None /\ AcceptConnection(c))
    /\ WF_nestedVars(up /\ Outside(c) /\ (ClientRead(c) \/ ClientClose(c)))

NestedFairSpec == NestedSpec /\ NestedFairness
-----------------------------------------------------------------------------
NestedTypeOK ==
  /\ TypeOK
  /\ parent \in [Session -> Session \cup {None}]
  /\ asked \in [Session -> Session \cup {None}]
  /\ \A p \in Session : asked[p] # None =>
       pc[p] = "handling" /\ asked[p] \in Agents(p)

\* What a nested session has to do or has done: a request, the work on it, a
\* reply.
Work(c) ==
  inbox[c] + unread[c] +
    (IF pc[c] \in {"handling", "replying", "send"} THEN 1 ELSE 0)

\* A nested session is at work on exactly one request while the thread that
\* uses its agent waits, and on none otherwise: of all the sessions nested in
\* one another by a request from outside, a single thread moves.
InStep ==
  \A c \in Session : parent[c] # None =>
    Work(c) = IF asked[parent[c]] = c THEN 1 ELSE 0

\* A reply to an agent never blocks with the mutex held and is never lost: only
\* clients outside can keep the mutex from the other sessions.
AgentsSpareMutex ==
  \A c \in Session : parent[c] # None /\ pc[c] = "send" =>
    client[c] = "open" /\ unread[c] < SockCap

\* A request is answered although its thread, and threads it waits for, wait
\* for the mutex that others need to answer them, unless no thread could be
\* created for an agent's connection.
RequestsServed ==
  \A c \in Session :
    pc[c] = "handling" ~> (pc[c] = "recv" \/ ~up \/ AgentUnserved)
=============================================================================
