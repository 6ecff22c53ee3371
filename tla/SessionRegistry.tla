-------------------------- MODULE SessionRegistry --------------------------
(***************************************************************************)
(* The static table of sessions of server/sclient.cpp, the one mutex of    *)
(* server/sthread.cpp that guards it, and the life of a session thread:    *)
(* accepted, registered, serving requests one at a time, unregistered.     *)
(*                                                                         *)
(* The mutex also covers every send of a reply.  AttachEnv walks the table *)
(* without it.  A handler's other work is the single step Answer here and  *)
(* is modelled in SessionContexts.                                         *)
(***************************************************************************)
EXTENDS Integers, FiniteSets, SequencesExt

CONSTANTS
  Session,      \* the SessionClient objects, one per accepted connection
  None,         \* the null pointer
  MaxRequests,  \* bound: messages one client ever sends
  SockCap       \* replies that fit in a socket before send() blocks

ASSUME SessionAssumption == IsFiniteSet(Session) /\ None \notin Session
ASSUME BoundAssumption   == MaxRequests \in Nat /\ SockCap \in Nat \ {0}

NoId == -1

VARIABLES
  up,        \* the server process is alive
  sMutex,    \* the thread that holds SessionThread::sMutex, or None
  sClients,  \* the vector of registered sessions
  mId,       \* SessionClient::mId
  mAttached, \* SessionClient::mAttached
  pc,        \* where each session thread is
  scan,      \* the walk of the table a thread is in the middle of
  client,    \* the remote end: "open" until the client closes its socket
  toSend,    \* messages the client has yet to send
  inbox,     \* messages sent and not yet received by the session thread
  unread,    \* replies sent and not yet read by the client
  reset      \* the peer has reset the connection: it closed its socket with
             \* a reply unread, or was sent one after that

table  == <<sClients, mId>>
socket == <<client, toSend, inbox, unread, reset>>
vars   == <<up, sMutex, mAttached, pc, scan, table, socket>>

Waiting == {"joining", "replying", "leaving"}   \* blocked in LockMutex
Locked  == [joining |-> "join", replying |-> "send", leaving |-> "leave"]
Holding == {"join", "send", "leave"}            \* owners of the mutex
Serving == {"recv", "handling", "scanning", "replying", "send"}
Present == Serving \cup {"leaving", "leave"}    \* pushed and not yet erased
Ended   == {"done", "unserved"}

Joined  == Present \cup {"done"}

NotJoined == {"none", "joining", "join", "unserved"}
Locations == NotJoined \cup Joined

Scan   == [on : Session, id : Nat, at : Nat \ {0}]
NoScan == [on |-> None, id |-> NoId, at |-> 0]

\* The positions of the table whose session has the given id.
Entries(id) == {i \in DOMAIN sClients : mId[sClients[i]] = id}

\* The first of them; 0 stands for the -1 of the code.
FindSessionClientIndex(id) ==
  IF Entries(id) = {} THEN 0 ELSE Min(Entries(id))

\* The SessionClient that the handle "EnvProvider" leads thread c to.
Provider(c) == IF mAttached[c] = None THEN c ELSE mAttached[c]

Goto(c, location) == pc' = [pc EXCEPT ![c] = location]
-----------------------------------------------------------------------------
Init ==
  /\ up = TRUE
  /\ sMutex = None
  /\ sClients = <<>>
  /\ mId = [c \in Session |-> NoId]
  /\ mAttached = [c \in Session |-> None]
  /\ pc = [c \in Session |-> "none"]
  /\ scan = [c \in Session |-> NoScan]
  /\ client = [c \in Session |-> "open"]
  /\ toSend = [c \in Session |-> MaxRequests]
  /\ inbox = [c \in Session |-> 0]
  /\ unread = [c \in Session |-> 0]
  /\ reset = [c \in Session |-> FALSE]

\* A connection is accepted; the constructor starts the thread, or
\* pthread_create fails and nobody ever serves the connection.
Accept(c) ==
  /\ pc[c] = "none"
  /\ \/ Goto(c, "joining")
     \/ Goto(c, "unserved")
  /\ UNCHANGED <<up, sMutex, mAttached, scan, table, socket>>

\* Slip: the mutex is not waited for.
LockMutexHeld(c) ==
  /\ pc[c] \in Waiting
  /\ sMutex' = c
  /\ Goto(c, Locked[pc[c]])
  /\ UNCHANGED <<up, mAttached, scan, table, socket>>

LockMutex(c) ==
  /\ pc[c] \in Waiting
  /\ sMutex = None
  /\ sMutex' = c
  /\ Goto(c, Locked[pc[c]])
  /\ UNCHANGED <<up, mAttached, scan, table, socket>>

UnlockMutex == sMutex' = None

\* Slip: the id is the size of the table with the new entry.
RegisterAfter(c) ==
  /\ pc[c] = "join"
  /\ mId' = [mId EXCEPT ![c] = Len(sClients) + 1]
  /\ sClients' = Append(sClients, c)
  /\ UnlockMutex
  /\ Goto(c, "recv")
  /\ UNCHANGED <<up, mAttached, scan, socket>>

\* The id is the size of the table; the thread enters its receive loop.
Register(c) ==
  /\ pc[c] = "join"
  /\ mId' = [mId EXCEPT ![c] = Len(sClients)]
  /\ sClients' = Append(sClients, c)
  /\ UnlockMutex
  /\ Goto(c, "recv")
  /\ UNCHANGED <<up, mAttached, scan, socket>>

\* recv() returns what has arrived: one message, or several run together.
Receive(c) ==
  /\ pc[c] = "recv"
  /\ \E k \in 1 .. inbox[c] : inbox' = [inbox EXCEPT ![c] = @ - k]
  /\ Goto(c, "handling")
  /\ UNCHANGED <<up, sMutex, mAttached, scan, table, client, toSend, unread, reset>>

\* Slip: the receive loop is not left when recv() returns 0.
DisconnectMissed(c) ==
  /\ pc[c] = "recv"
  /\ inbox[c] = 0
  /\ client[c] = "closed"
  /\ Goto(c, "handling")
  /\ UNCHANGED <<up, sMutex, mAttached, scan, table, socket>>

\* recv() returns 0: everything was read and the client has closed.
Disconnect(c) ==
  /\ pc[c] = "recv"
  /\ inbox[c] = 0
  /\ client[c] = "closed"
  /\ Goto(c, "leaving")
  /\ UNCHANGED <<up, sMutex, mAttached, scan, table, socket>>

\* A message is handled without AttachEnv being called.
Answer(c) ==
  /\ pc[c] = "handling"
  /\ Goto(c, "replying")
  /\ UNCHANGED <<up, sMutex, mAttached, scan, table, socket>>
-----------------------------------------------------------------------------
(* AttachEnv: FindSessionClientById reads the table entry by entry, with no
   lock, and the session found becomes mAttached of the provider.          *)

\* Slip: the walk begins before the first entry.
AttachEnvFromZero(c) ==
  /\ pc[c] = "handling"
  /\ \E id \in 0 .. Cardinality(Session) :
        scan' = [scan EXCEPT ![c] = [on |-> Provider(c), id |-> id, at |-> 0]]
  /\ Goto(c, "scanning")
  /\ UNCHANGED <<up, sMutex, mAttached, table, socket>>

AttachEnv(c) ==
  /\ pc[c] = "handling"
  /\ \E id \in 0 .. Cardinality(Session) :
        scan' = [scan EXCEPT ![c] = [on |-> Provider(c), id |-> id, at |-> 1]]
  /\ Goto(c, "scanning")
  /\ UNCHANGED <<up, sMutex, mAttached, table, socket>>

AtEnd(c)   == scan[c].at > Len(sClients)
Matches(c) == mId[sClients[scan[c].at]] = scan[c].id

ScanNext(c) ==
  /\ pc[c] = "scanning"
  /\ ~AtEnd(c) /\ ~Matches(c)
  /\ scan' = [scan EXCEPT ![c].at = @ + 1]
  /\ UNCHANGED <<up, sMutex, mAttached, pc, table, socket>>

ScanHit(c) ==
  /\ pc[c] = "scanning"
  /\ ~AtEnd(c) /\ Matches(c)
  /\ mAttached' = [mAttached EXCEPT ![scan[c].on] = sClients[scan[c].at]]
  /\ scan' = [scan EXCEPT ![c] = NoScan]
  /\ Goto(c, "replying")
  /\ UNCHANGED <<up, sMutex, table, socket>>

\* No such session: the exception becomes an error reply.
ScanMiss(c) ==
  /\ pc[c] = "scanning"
  /\ AtEnd(c)
  /\ scan' = [scan EXCEPT ![c] = NoScan]
  /\ Goto(c, "replying")
  /\ UNCHANGED <<up, sMutex, mAttached, table, socket>>

\* A thread reads the vector while another one changes it: the read may hit
\* storage that push_back has freed or erase is moving, and fault.
Racing(c) ==
  /\ pc[c] = "scanning"
  /\ \E w \in Session : pc[w] \in {"join", "leave"}

ScanFault(c) ==
  /\ Racing(c)
  /\ up' = FALSE
  /\ UNCHANGED <<sMutex, mAttached, pc, scan, table, socket>>
-----------------------------------------------------------------------------
(* Send: the reply is written with the mutex held.                         *)

SendReply(c) ==
  /\ pc[c] = "send"
  /\ IF client[c] = "open"
     THEN /\ unread[c] < SockCap      \* otherwise send() blocks
          /\ unread' = [unread EXCEPT ![c] = @ + 1]
          /\ UNCHANGED reset
     ELSE /\ reset' = [reset EXCEPT ![c] = TRUE]
          /\ UNCHANGED unread
  /\ UnlockMutex
  /\ Goto(c, "recv")
  /\ UNCHANGED <<up, mAttached, scan, table, client, toSend, inbox>>

\* Writing to a connection that was reset raises SIGPIPE, which nothing
\* handles or blocks: the whole process ends.
SendBroken(c) ==
  /\ pc[c] = "send"
  /\ reset[c]
  /\ up' = FALSE
  /\ UNCHANGED <<sMutex, mAttached, pc, scan, table, socket>>

\* Slip: the entry pushed last is erased, whose ever it is.
UnregisterLast(c) ==
  /\ pc[c] = "leave"
  /\ sClients' = Front(sClients)
  /\ UnlockMutex
  /\ Goto(c, "done")
  /\ UNCHANGED <<up, mId, mAttached, scan, socket>>

\* The first entry with the leaver's id is erased.
Unregister(c) ==
  /\ pc[c] = "leave"
  /\ sClients' = RemoveAt(sClients, FindSessionClientIndex(mId[c]))
  /\ UnlockMutex
  /\ Goto(c, "done")
  /\ UNCHANGED <<up, mId, mAttached, scan, socket>>
-----------------------------------------------------------------------------
(* The clients.                                                            *)

ClientSend(c) ==
  /\ pc[c] # "none"
  /\ client[c] = "open"
  /\ toSend[c] > 0
  /\ toSend' = [toSend EXCEPT ![c] = @ - 1]
  /\ inbox' = [inbox EXCEPT ![c] = @ + 1]
  /\ UNCHANGED <<up, sMutex, mAttached, pc, scan, table, client, unread, reset>>

ClientRead(c) ==
  /\ client[c] = "open"
  /\ unread[c] > 0
  /\ unread' = [unread EXCEPT ![c] = @ - 1]
  /\ UNCHANGED <<up, sMutex, mAttached, pc, scan, table, client, toSend, inbox, reset>>

\* A socket closed with replies unread resets the connection at once.
ClientClose(c) ==
  /\ pc[c] # "none"
  /\ client[c] = "open"
  /\ client' = [client EXCEPT ![c] = "closed"]
  /\ unread' = [unread EXCEPT ![c] = 0]
  /\ toSend' = [toSend EXCEPT ![c] = 0]
  /\ reset' = [reset EXCEPT ![c] = @ \/ unread[c] > 0]
  /\ UNCHANGED <<up, sMutex, mAttached, pc, scan, table, inbox>>
-----------------------------------------------------------------------------
\* One step of the thread of session c.
ThreadStep(c) ==
  \/ LockMutex(c) \/ Register(c) \/ Receive(c) \/ Disconnect(c) \/ Answer(c)
  \/ AttachEnv(c) \/ ScanNext(c) \/ ScanHit(c) \/ ScanMiss(c) \/ ScanFault(c)
  \/ SendReply(c) \/ SendBroken(c) \/ Unregister(c)

ClientStep(c) == ClientSend(c) \/ ClientRead(c) \/ ClientClose(c)

\* The process has ended, or every connection of the instance is over.
Stopped ==
  /\ ~up \/ \A c \in Session : pc[c] \in Ended
  /\ UNCHANGED vars

Next ==
  \/ up /\ \E c \in Session : Accept(c) \/ ThreadStep(c) \/ ClientStep(c)
  \/ Stopped

Spec == Init /\ [][Next]_vars

\* A thread that can move does; a client reads what it is sent, or closes.
Fairness ==
  \A c \in Session :
     /\ WF_vars(up /\ ThreadStep(c))
     /\ WF_vars(up /\ (ClientRead(c) \/ ClientClose(c)))

FairSpec == Spec /\ Fairness
-----------------------------------------------------------------------------
TypeOK ==
  /\ up \in BOOLEAN
  /\ sMutex \in Session \cup {None}
  /\ sClients \in Seq(Session)
  /\ mId \in [Session -> Nat \cup {NoId}]
  /\ mAttached \in [Session -> Session \cup {None}]
  /\ pc \in [Session -> Locations]
  /\ scan \in [Session -> Scan \cup {NoScan}]
  /\ \A c \in Session : pc[c] = "scanning" => scan[c] \in Scan
  /\ client \in [Session -> {"open", "closed"}]
  /\ toSend \in [Session -> 0 .. MaxRequests]
  /\ inbox \in [Session -> Nat]
  /\ \A c \in Session : toSend[c] + inbox[c] =< MaxRequests
  /\ unread \in [Session -> 0 .. SockCap]
  /\ reset \in [Session -> BOOLEAN]

PresentSessions == {c \in Session : pc[c] \in Present}

\* A thread is between LockMutex and UnlockMutex exactly when it owns the
\* mutex, whatever the others do: the bodies of HandleSessionClient and Send
\* never overlap.
MutexInv == \A c \in Session : pc[c] \in Holding <=> sMutex = c

\* f pairs each entry of the table with a present session of the same id.
Pairing(f) ==
  /\ \A i, j \in DOMAIN sClients : f[i] = f[j] => i = j
  /\ \A c \in PresentSessions : \E i \in DOMAIN sClients : f[i] = c
  /\ \A i \in DOMAIN sClients : mId[sClients[i]] = mId[f[i]]

\* Erasing by id may erase the entry of another session, even leave the entry
\* of a session that is gone, but the ids in the table are at all times those
\* of the present sessions, each as often.
IdsBalanced == \E f \in [DOMAIN sClients -> PresentSessions] : Pairing(f)

\* FindSessionClientIndex never returns the -1 that HandleSessionClient
\* would index the vector with.
LeaverFound == \A c \in Session : pc[c] = "leave" => Entries(mId[c]) # {}

\* The table implements SessionIds: in particular the id a session gets is
\* the number of present sessions, although the entries may be the wrong ones.
Ids == INSTANCE SessionIds WITH present <- PresentSessions, id <- mId
ImplementsIds == Ids!Spec

\* A session whose client is gone is taken out of the table, though its
\* thread needs the mutex under which other threads block in send().
LeaveCompletes ==
  \A c \in Session :
    (client[c] = "closed" /\ pc[c] # "none") ~> (pc[c] \in Ended \/ ~up)
-----------------------------------------------------------------------------
(* What the code and its tests say, and the code does not do.              *)

\* ut_base.cpp attaches to a session by the id that GetId answered: the id
\* has to name one session.
IdNamesOneSession ==
  \A c, d \in PresentSessions : mId[c] = mId[d] => c = d

\* "Remove client in Static sClients <vector>" before the thread ends.
LeaverRemoved ==
  \A c \in Session : pc[c] = "done" => c \notin ToSet(sClients)

\* "Add client in Static sClients <vector> (Critical section!)": a walk of the
\* table and a change of it are never at the same time.
WalksExclusive == \A c \in Session : ~Racing(c)
=============================================================================
