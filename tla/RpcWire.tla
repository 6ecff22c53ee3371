------------------------------ MODULE RpcWire ------------------------------
(***************************************************************************)
(* One client and its session thread over one TCP connection:              *)
(* client/bclient.cpp against the receive loop of HandleSessionClient.     *)
(*                                                                         *)
(* Neither side frames its messages.  The server takes what one recv()     *)
(* returns, at most the 231 bytes of its buffer, for a request and sends   *)
(* one reply for it; the client takes what one recv() returns, at most     *)
(* KBufSize bytes, for the answer.  A message is modelled as a row of      *)
(* pieces: what matters is which pieces meet in one buffer.                *)
(***************************************************************************)
EXTENDS Integers, SequencesExt

CONSTANTS
  MaxCalls,    \* bound: calls the client makes
  RequestLens, \* lengths of requests, in pieces
  ReplyLens,   \* lengths of replies, in pieces
  ServerBuf,   \* pieces that fill the server's buffer
  ClientBuf,   \* pieces that fill the client's buffer
  Segments     \* recv() may return less than what was sent at once

ASSUME ConstantsAssumption ==
  /\ MaxCalls \in Nat /\ ServerBuf \in Nat \ {0} /\ ClientBuf \in Nat \ {0}
  /\ RequestLens \subseteq Nat \ {0} /\ ReplyLens \subseteq Nat \ {0}
  /\ Segments \in BOOLEAN

VARIABLES
  sock,      \* the client's socket: "fresh", "connected", "zero" once closed
  wire,      \* the peer's end: "up", "closed" by it, or "reset" by it
  pc,        \* the client: "idle", "waiting" in recv(), "thrown", "killed"
  call,      \* number of the current, or else of the last, call
  outcome,   \* what the last call reported
  toServer,  \* pieces on the way to the server
  toClient,  \* pieces on the way to the client
  sPc,       \* the session thread: "accept", "recv", "handling", "gone"
  chunk,     \* the pieces it took for a request
  runs,      \* how often the request of this call was run
  stray      \* something else than a request of the client was run as one

client == <<sock, pc, call, outcome>>
server == <<sPc, chunk, runs, stray>>
vars   == <<client, wire, toServer, toClient, server>>

\* The pieces of a message of the given length about a call.
Message(k, len) == [i \in 1 .. len |-> [call |-> k, part |-> i, len |-> len]]

\* The pieces are exactly one message, that of call k.
IsWhole(s, k) == \E len \in 1 .. Len(s) : s = Message(k, len)

\* What recv() may return of the bytes that have arrived.
Received(bytes, buf) ==
  IF Segments THEN 1 .. Min({Len(bytes), buf}) ELSE {Min({Len(bytes), buf})}

Garbled == 0   \* the call that a reply to something else is about
-----------------------------------------------------------------------------
Init ==
  /\ sock = "fresh" /\ wire = "up" /\ pc = "idle"
  /\ call = 0 /\ outcome = "none"
  /\ toServer = <<>> /\ toClient = <<>>
  /\ sPc = "accept" /\ chunk = <<>> /\ runs = 0 /\ stray = FALSE

\* connect() succeeds on a fresh socket whose server listens; otherwise, on a
\* connected one or on descriptor 0, it fails and Connect throws, which its
\* callers catch.
Connect ==
  /\ pc = "idle" /\ sock = "fresh" /\ sPc = "accept"
  /\ sock' = "connected"
  /\ sPc' = "recv"
  /\ UNCHANGED <<wire, pc, call, outcome, toServer, toClient, chunk, runs, stray>>

Disconnect ==
  /\ pc = "idle" /\ sock = "connected"
  /\ sock' = "zero"
  /\ UNCHANGED <<wire, pc, call, outcome, toServer, toClient, server>>

\* Request up to its recv().
SendRequest ==
  /\ pc = "idle" /\ call < MaxCalls
  /\ sock = "connected" /\ wire # "reset"
  /\ call' = call + 1 /\ runs' = 0 /\ outcome' = "none"
  /\ pc' = "waiting"
  /\ \/ /\ wire = "up"
        /\ \E len \in RequestLens : toServer' = toServer \o Message(call + 1, len)
        /\ UNCHANGED wire
     \/ /\ wire = "closed"   \* the peer answers with a reset, perhaps late
        /\ wire' \in {"closed", "reset"}
        /\ UNCHANGED toServer
  /\ UNCHANGED <<sock, toClient, sPc, chunk, stray>>

\* Slip: the result of send() is not looked at.
SendFailsUnseen ==
  /\ pc = "idle" /\ call < MaxCalls
  /\ sock = "zero"
  /\ call' = call + 1 /\ runs' = 0 /\ outcome' = "answer"
  /\ UNCHANGED <<sock, pc, wire, toServer, toClient, sPc, chunk, stray>>

\* send() on descriptor 0 fails.
SendFails ==
  /\ pc = "idle" /\ call < MaxCalls
  /\ sock = "zero"
  /\ call' = call + 1 /\ runs' = 0 /\ outcome' = "failure"
  /\ UNCHANGED <<sock, pc, wire, toServer, toClient, sPc, chunk, stray>>

\* send() before connect(), or after a reset, raises SIGPIPE.
SendKills ==
  /\ pc = "idle" /\ call < MaxCalls
  /\ \/ sock = "fresh"
     \/ sock = "connected" /\ wire = "reset"
  /\ pc' = "killed"
  /\ UNCHANGED <<sock, call, outcome, wire, toServer, toClient, server>>

\* recv() returns bytes: they are the answer, whatever they are.
ReadReply ==
  /\ pc = "waiting"
  /\ \E n \in Received(toClient, ClientBuf) \ {0} :
       /\ outcome' = IF IsWhole(SubSeq(toClient, 1, n), call)
                     THEN "answer" ELSE "wrong answer"
       /\ toClient' = SubSeq(toClient, n + 1, Len(toClient))
  /\ pc' = "idle"
  /\ UNCHANGED <<sock, call, wire, toServer, server>>

\* recv() returns -1.
ReadError ==
  /\ pc = "waiting" /\ wire = "reset" /\ toClient = <<>>
  /\ outcome' = "failure"
  /\ pc' = "idle"
  /\ UNCHANGED <<sock, call, wire, toServer, toClient, server>>

\* recv() returns 0: the answer would have -2 characters, and assign() throws.
ReadEnd ==
  /\ pc = "waiting" /\ wire = "closed" /\ toClient = <<>>
  /\ outcome' = "failure"
  /\ pc' = "thrown"
  /\ UNCHANGED <<sock, call, wire, toServer, toClient, server>>
-----------------------------------------------------------------------------
(* The session thread.                                                     *)

\* Slip: what was received stays to be received again.
ReceivePeek ==
  /\ sPc = "recv"
  /\ \E n \in Received(toServer, ServerBuf) \ {0} : chunk' = SubSeq(toServer, 1, n)
  /\ sPc' = "handling"
  /\ UNCHANGED <<client, wire, toServer, toClient, runs, stray>>

Receive ==
  /\ sPc = "recv"
  /\ \E n \in Received(toServer, ServerBuf) \ {0} :
       /\ chunk' = SubSeq(toServer, 1, n)
       /\ toServer' = SubSeq(toServer, n + 1, Len(toServer))
  /\ sPc' = "handling"
  /\ UNCHANGED <<client, wire, toClient, runs, stray>>

\* Slips: what is no request gets no reply; a request gets two.
HandleSilent ==
  /\ sPc = "handling"
  /\ LET whole == IsWhole(chunk, call) IN
       /\ runs' = IF whole THEN runs + 1 ELSE runs
       /\ \E len \in ReplyLens : toClient' =
            IF whole THEN toClient \o Message(call, len) ELSE toClient
  /\ chunk' = <<>> /\ sPc' = "recv"
  /\ UNCHANGED <<client, wire, toServer, stray>>
HandleTwice ==
  /\ sPc = "handling"
  /\ runs' = runs + 1
  /\ \E len \in ReplyLens :
       toClient' = toClient \o Message(call, len) \o Message(call, len)
  /\ chunk' = <<>> /\ sPc' = "recv"
  /\ UNCHANGED <<client, wire, toServer, stray>>

\* HandleMessage runs the request if the buffer holds one and nothing more.  A
\* full buffer has no terminating zero, so what follows it in memory may be
\* taken for the rest of the message.  What is not the request may still name a
\* context and a method, and is then run.  There always is one reply.
Handle ==
  /\ sPc = "handling"
  /\ \E overread \in {FALSE} \cup {Len(chunk) = ServerBuf}, len \in ReplyLens :
       LET whole == IsWhole(chunk, call) /\ ~overread IN
         /\ runs' = IF whole THEN runs + 1 ELSE runs
         /\ stray' \in IF whole THEN {stray} ELSE {stray, TRUE}
         /\ toClient' = IF sock = "zero" THEN toClient ELSE toClient \o
                          Message(IF whole THEN call ELSE Garbled, len)
  /\ chunk' = <<>>
  /\ sPc' = "recv"
  /\ UNCHANGED <<client, wire, toServer>>

\* The client has closed its end and everything was read.
ServerDone ==
  /\ sPc = "recv" /\ sock = "zero" /\ toServer = <<>>
  /\ sPc' = "gone"
  /\ UNCHANGED <<client, wire, toServer, toClient, chunk, runs, stray>>

\* The server process ends: its connections are closed, or reset when they
\* hold unread data.
ServerDies ==
  /\ sPc # "gone"
  /\ sPc' = "gone"
  /\ wire' = IF sock = "connected" /\ toServer # <<>> THEN "reset" ELSE "closed"
  /\ chunk' = <<>>
  /\ toServer' = <<>>
  /\ UNCHANGED <<client, toClient, runs, stray>>

ClientStep == ReadReply \/ ReadError \/ ReadEnd
ServerStep == Receive \/ Handle \/ ServerDone

\* The client has made its calls, or its process is over.
Stopped ==
  /\ \/ pc \in {"thrown", "killed"}
     \/ pc = "idle" /\ call = MaxCalls
  /\ UNCHANGED vars

Next ==
  \/ Connect \/ Disconnect \/ SendRequest \/ SendFails \/ SendKills
  \/ ClientStep \/ ServerStep \/ ServerDies
  \/ Stopped

Spec == Init /\ [][Next]_vars

\* Both ends go on when they can.
FairSpec == Spec /\ WF_vars(ClientStep) /\ WF_vars(ServerStep)
-----------------------------------------------------------------------------
Lengths == RequestLens \cup ReplyLens
Piece   == [call : 0 .. MaxCalls, part : Nat, len : Lengths]

TypeOK ==
  /\ sock \in {"fresh", "connected", "zero"}
  /\ wire \in {"up", "closed", "reset"}
  /\ pc \in {"idle", "waiting", "thrown", "killed"}
  /\ call \in 0 .. MaxCalls
  /\ outcome \in {"none", "answer", "wrong answer", "failure"}
  /\ toServer \in Seq(Piece) /\ toClient \in Seq(Piece) /\ chunk \in Seq(Piece)
  /\ sPc \in {"accept", "recv", "handling", "gone"}
  /\ runs \in 0 .. 1 /\ stray \in BOOLEAN

\* When Request returns, nothing of the call is left on the way: the next call
\* starts from a silent connection.  And nothing was run but what the client
\* asked for.
InSync ==
  /\ pc = "idle" /\ sock = "connected" /\ wire = "up" =>
       toServer = <<>> /\ toClient = <<>> /\ chunk = <<>>
  /\ ~stray

\* A call runs its own request at most once and returns its answer, or fails.
R == INSTANCE Rpc WITH busy <- pc = "waiting"
ImplementsRpc == R!Spec

\* Request returns (or throws), whatever happens to the server.
CallReturns == pc = "waiting" ~> pc # "waiting"

\* "server APIs is kind of remote procedure call": what Request returns as the
\* answer is the answer to its request.
AnswersMatch == outcome # "wrong answer"

\* "Error reading from socket" is the answer of a Request that returns false; the
\* exceptions it once threw are commented out.
ReportsFailure == pc # "thrown"
=============================================================================
