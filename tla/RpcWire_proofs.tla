----------------------------- MODULE RpcWire_proofs -----------------------------
(***************************************************************************)
(* Proofs about RpcWire: the types for messages of any length, cut in any  *)
(* way; and, for messages that fit the buffers and are not cut, that the   *)
(* connection carries the calls of Rpc.                                    *)
(***************************************************************************)
EXTENDS RpcWire, TLAPS

\* What the assumptions say of the numbers, and of the lengths.
LEMMA Bounds == MaxCalls \in Nat /\ ServerBuf \in Nat \ {0} /\ ClientBuf \in Nat \ {0}
BY ConstantsAssumption
LEMMA LengthsArePositive ==
  /\ \A len \in Lengths : len \in Nat \ {0}
  /\ \A len \in RequestLens : len \in Lengths
  /\ \A len \in ReplyLens : len \in Lengths
BY ConstantsAssumption DEF Lengths

USE Bounds

\* The first piece of the request of this call: a chunk that is that request
\* begins with it, so the request is run as often as it is received.
IsFirst(piece) == piece.call = call /\ piece.part = 1
HasFirst(s)    == \E i \in DOMAIN s : IsFirst(s[i])

\* Nothing on its way to the server is of a later call.
NotAhead ==
  /\ \A i \in DOMAIN toServer : toServer[i].call =< call
  /\ \A i \in DOMAIN chunk : chunk[i].call =< call

\* The first piece is in one place at most, and in none when the request was run.
OneFirst ==
  /\ \A i, j \in DOMAIN toServer : IsFirst(toServer[i]) /\ IsFirst(toServer[j]) => i = j
  /\ HasFirst(chunk) \/ runs = 1 => ~HasFirst(toServer)
  /\ runs = 1 => ~HasFirst(chunk)

\* The inductive invariant behind the types.
TypeInv == TypeOK /\ NotAhead /\ OneFirst
-----------------------------------------------------------------------------
\* No message is cut, by the network or by a buffer: a request leaves room for
\* its terminating zero in the server's buffer, a reply fits the client's.
MessagesFit ==
  /\ ~Segments
  /\ \A len \in RequestLens : len < ServerBuf
  /\ \A len \in ReplyLens : len =< ClientBuf

\* The whereabouts of a call: nowhere, on the way to the server, in its hands, or
\* on the way back.
Silent ==
  /\ toServer = <<>> /\ chunk = <<>> /\ toClient = <<>>
  /\ sPc # "handling" /\ (pc = "waiting" => wire # "up")
Requested ==
  /\ pc = "waiting" /\ sock = "connected" /\ wire = "up" /\ sPc = "recv"
  /\ \E len \in RequestLens : toServer = Message(call, len)
  /\ chunk = <<>> /\ toClient = <<>> /\ runs = 0
Taken ==
  /\ pc = "waiting" /\ sock = "connected" /\ wire = "up" /\ sPc = "handling"
  /\ \E len \in RequestLens : chunk = Message(call, len)
  /\ toServer = <<>> /\ toClient = <<>> /\ runs = 0
Replied ==
  /\ pc = "waiting" /\ sock = "connected" /\ sPc # "handling"
  /\ \E len \in ReplyLens : toClient = Message(call, len)
  /\ toServer = <<>> /\ chunk = <<>> /\ runs = 1

\* The ends of the connection: a session thread that has not accepted has a
\* client that has not connected, and one that is gone has closed it.  It has run
\* nothing that it was not sent.
Ends ==
  /\ sock # "fresh" => sPc # "accept"
  /\ sPc = "gone" => wire # "up" \/ sock = "zero"
  /\ wire # "up" => sPc = "gone"
  /\ ~stray

\* The inductive invariant of a connection on which messages fit.
Flow == Ends /\ (Silent \/ Requested \/ Taken \/ Replied)

-----------------------------------------------------------------------------
(* What recv() returns, and what it leaves.                                *)

\* The smaller of two numbers.
LEMMA MinOfTwo ==
  ASSUME NEW a \in Nat, NEW b \in Nat
  PROVE  /\ Min({a, b}) \in Nat /\ Min({a, b}) =< a /\ Min({a, b}) =< b
         /\ a =< b => Min({a, b}) = a
<1>1. \E x \in {a, b} : \A y \in {a, b} : x =< y
  <2>1. CASE a =< b
    BY <2>1
  <2>2. CASE b =< a
    BY <2>2
  <2> QED
    BY <2>1, <2>2
<1>2. Min({a, b}) \in {a, b} /\ \A y \in {a, b} : Min({a, b}) =< y
  BY <1>1 DEF Min
<1> QED
  BY <1>2

\* recv() returns what has arrived, at most what the buffer holds; and all of it
\* if nothing cuts it.
LEMMA ReceivedIs ==
  ASSUME NEW S, NEW s \in Seq(S), NEW buf \in Nat \ {0}
  PROVE  /\ Received(s, buf) \ {0} \subseteq 1 .. Len(s)
         /\ ~Segments /\ Len(s) =< buf => Received(s, buf) = {Len(s)}
<1>1. Len(s) \in Nat
  OBVIOUS
<1>2. PICK m : m = Min({Len(s), buf})
  OBVIOUS
<1>3. m \in Nat /\ m =< Len(s) /\ (Len(s) =< buf => m = Len(s))
  BY <1>1, <1>2, MinOfTwo
<1>4. Received(s, buf) = IF Segments THEN 1 .. m ELSE {m}
  BY <1>2 DEF Received
<1>5. CASE Segments
  BY <1>1, <1>3, <1>4, <1>5
<1>6. CASE ~Segments
  BY <1>1, <1>3, <1>4, <1>6
<1> QED
  BY <1>5, <1>6

\* A row of pieces cut in two.
LEMMA Cut ==
  ASSUME NEW S, NEW s \in Seq(S), NEW n \in 1 .. Len(s)
  PROVE  /\ SubSeq(s, 1, n) \in Seq(S) /\ DOMAIN SubSeq(s, 1, n) = 1 .. n
         /\ \A i \in 1 .. n : SubSeq(s, 1, n)[i] = s[i] /\ i \in DOMAIN s
         /\ SubSeq(s, n + 1, Len(s)) \in Seq(S)
         /\ DOMAIN SubSeq(s, n + 1, Len(s)) = 1 .. Len(s) - n
         /\ \A i \in 1 .. Len(s) - n :
              SubSeq(s, n + 1, Len(s))[i] = s[n + i] /\ n + i \in DOMAIN s
<1>1. Len(s) \in Nat /\ DOMAIN s = 1 .. Len(s)
  OBVIOUS
<1>2. SubSeq(s, 1, n) \in Seq(S) /\ DOMAIN SubSeq(s, 1, n) = 1 .. n
      /\ \A i \in 1 .. n : SubSeq(s, 1, n)[i] = s[i] /\ i \in DOMAIN s
  BY <1>1
<1>3. SubSeq(s, n + 1, Len(s)) \in Seq(S) /\ Len(SubSeq(s, n + 1, Len(s))) = Len(s) - n
  OBVIOUS
<1>4. ASSUME NEW i \in 1 .. Len(s) - n
      PROVE  SubSeq(s, n + 1, Len(s))[i] = s[n + i] /\ n + i \in DOMAIN s
  OBVIOUS
<1>5. DOMAIN SubSeq(s, n + 1, Len(s)) = 1 .. Len(s) - n
  <2>1. PICK r \in Seq(S) : r = SubSeq(s, n + 1, Len(s)) /\ Len(r) = Len(s) - n
    BY <1>3
  <2>2. DOMAIN r = 1 .. Len(s) - n
    BY <2>1
  <2> QED
    BY <2>1, <2>2
<1> QED
  BY <1>2, <1>3, <1>4, <1>5

\* A row of pieces received whole.
LEMMA CutWhole ==
  ASSUME NEW S, NEW s \in Seq(S)
  PROVE  SubSeq(s, 1, Len(s)) = s /\ SubSeq(s, Len(s) + 1, Len(s)) = <<>>
OBVIOUS

\* A message is its pieces in order, and is recognised as itself.
LEMMA MessageIs ==
  ASSUME NEW k \in 0 .. MaxCalls, NEW len \in Lengths
  PROVE  /\ Message(k, len) \in Seq(Piece) /\ Len(Message(k, len)) = len
         /\ DOMAIN Message(k, len) = 1 .. len /\ len \in Nat \ {0}
         /\ \A i \in 1 .. len : Message(k, len)[i] = [call |-> k, part |-> i, len |-> len]
         /\ IsWhole(Message(k, len), k)
<1>1. len \in Nat \ {0}
  BY LengthsArePositive
<1>2. /\ DOMAIN Message(k, len) = 1 .. len
      /\ \A i \in 1 .. len : Message(k, len)[i] = [call |-> k, part |-> i, len |-> len]
  BY DEF Message
<1>3. ASSUME NEW i \in 1 .. len PROVE [call |-> k, part |-> i, len |-> len] \in Piece
  BY <1>1 DEF Piece
<1>4. Message(k, len) \in [1 .. len -> Piece]
  BY <1>3 DEF Message
<1>5. Message(k, len) \in Seq(Piece) /\ Len(Message(k, len)) = len
  BY <1>1, <1>2, <1>4
<1>6. IsWhole(Message(k, len), k)
  BY <1>1, <1>5 DEF IsWhole
<1> QED
  BY <1>1, <1>2, <1>5, <1>6

\* A chunk that is taken for the request of the call begins with its first piece.
LEMMA WholeHasFirst ==
  ASSUME NEW s \in Seq(Piece), IsWhole(s, call)
  PROVE  HasFirst(s)
<1>1. PICK len \in 1 .. Len(s) : s = Message(call, len)
  BY DEF IsWhole
<1>2. 1 \in 1 .. len /\ DOMAIN s = 1 .. len
  BY <1>1 DEF Message
<1>3. s[1] = [call |-> call, part |-> 1, len |-> len]
  BY <1>1, <1>2 DEF Message
<1>4. IsFirst(s[1])
  BY <1>3 DEF IsFirst
<1> QED
  BY <1>2, <1>4 DEF HasFirst

\* Where a piece of two rows of pieces comes from.
LEMMA Joined ==
  ASSUME NEW S, NEW s \in Seq(S), NEW m \in Seq(S)
  PROVE  /\ s \o m \in Seq(S)
         /\ \A i \in DOMAIN (s \o m) :
              \/ i \in DOMAIN s /\ (s \o m)[i] = s[i]
              \/ i - Len(s) \in DOMAIN m /\ (s \o m)[i] = m[i - Len(s)]
<1>1. s \o m \in Seq(S)
  OBVIOUS
<1>2. ASSUME NEW i \in DOMAIN (s \o m)
      PROVE  \/ i \in DOMAIN s /\ (s \o m)[i] = s[i]
             \/ i - Len(s) \in DOMAIN m /\ (s \o m)[i] = m[i - Len(s)]
  <2>1. i \in 1 .. Len(s) + Len(m) /\ Len(s) \in Nat /\ Len(m) \in Nat
    BY <1>2
  <2>2. CASE i =< Len(s)
    BY <2>1, <2>2
  <2>3. CASE i > Len(s)
    BY <2>1, <2>3
  <2> QED
    BY <2>1, <2>2, <2>3
<1> QED
  BY <1>1, <1>2

-----------------------------------------------------------------------------
(* The types, for any messages and any way of cutting them.                *)

Places ==
  /\ sock \in {"fresh", "connected", "zero"} /\ wire \in {"up", "closed", "reset"}
  /\ pc \in {"idle", "waiting", "thrown", "killed"}
  /\ outcome \in {"none", "answer", "wrong answer", "failure"}
  /\ sPc \in {"accept", "recv", "handling", "gone"} /\ stray \in BOOLEAN
Numbers == call \in 0 .. MaxCalls /\ runs \in 0 .. 1
Pieces  == toServer \in Seq(Piece) /\ toClient \in Seq(Piece) /\ chunk \in Seq(Piece)

\* The parts of the type invariant, before and after a step.
LEMMA TypeParts ==
  (TypeOK <=> Places /\ Numbers /\ Pieces) /\ (TypeOK' <=> Places' /\ Numbers' /\ Pieces')
<1>1. TypeOK <=> Places /\ Numbers /\ Pieces
  BY Zenon DEF TypeOK, Places, Numbers, Pieces
<1>2. TypeOK' <=> Places' /\ Numbers' /\ Pieces'
  BY Zenon DEF TypeOK, Places, Numbers, Pieces
<1> QED
  BY <1>1, <1>2

\* The calls that pieces are of are numbers.
LEMMA PieceCalls ==
  ASSUME NEW s \in Seq(Piece)
  PROVE  \A i \in DOMAIN s : s[i].call \in Nat
<1> TAKE i \in DOMAIN s
<1>1. s[i] \in Piece
  OBVIOUS
<1>2. s[i].call \in 0 .. MaxCalls
  BY <1>1 DEF Piece
<1> QED
  BY <1>2

\* A step that touches neither the call nor the way to the server.
LEMMA SameRequests ==
  ASSUME TypeInv, UNCHANGED <<call, toServer, chunk, runs>>
  PROVE  NotAhead' /\ OneFirst'
BY DEF TypeInv, NotAhead, OneFirst, HasFirst, IsFirst

\* Nothing is on its way at first.
LEMMA InitTypeInv == Init => TypeInv
<1> SUFFICES ASSUME Init PROVE TypeInv
  OBVIOUS
<1>1. TypeOK
  <2>1. stray \in BOOLEAN
    BY Zenon DEF Init
  <2>2. Places /\ Numbers /\ Pieces
    BY <2>1 DEF Init, Places, Numbers, Pieces
  <2> QED
    BY <2>2, TypeParts
<1>2. NotAhead /\ OneFirst
  BY DEF Init, NotAhead, OneFirst, HasFirst, IsFirst
<1> QED
  BY <1>1, <1>2 DEF TypeInv

\* With a new call, nothing but its own request may begin with its first piece.
LEMMA SendRequestTypes == TypeInv /\ SendRequest => TypeInv'
<1> SUFFICES ASSUME TypeInv, SendRequest PROVE TypeInv'
  OBVIOUS
<1>1. Places /\ Numbers /\ Pieces /\ NotAhead
  BY TypeParts DEF TypeInv
<1>2. /\ call < MaxCalls /\ call' = call + 1 /\ runs' = 0 /\ outcome' = "none"
      /\ pc' = "waiting" /\ UNCHANGED <<sock, toClient, sPc, chunk, stray>>
      /\ wire' \in {"up", "closed", "reset"}
  BY <1>1 DEF SendRequest, Places
<1>3. call \in Nat /\ call' \in 0 .. MaxCalls
  BY <1>1, <1>2 DEF Numbers
<1>4. \A i \in DOMAIN toServer : toServer[i].call =< call /\ toServer[i].call \in Nat
  BY <1>1, PieceCalls DEF NotAhead, Pieces
<1>5. \A i \in DOMAIN chunk : chunk[i].call =< call /\ chunk[i].call \in Nat
  BY <1>1, PieceCalls DEF NotAhead, Pieces
<1>6. \A i \in DOMAIN chunk' : chunk'[i].call =< call' /\ chunk'[i].call # call'
  BY <1>2, <1>3, <1>5
<1>7. CASE UNCHANGED toServer
  <2>1. \A i \in DOMAIN toServer' : toServer'[i].call =< call' /\ toServer'[i].call # call'
    BY <1>2, <1>3, <1>4, <1>7
  <2>2. TypeOK'
    <3>1. Places'
      BY <1>1, <1>2, <1>3, <1>7 DEF Places
    <3>2. Numbers'
      BY <1>1, <1>2, <1>3, <1>7 DEF Numbers
    <3>3. Pieces'
      BY <1>1, <1>2, <1>3, <1>7 DEF Pieces
    <3> QED
      BY <3>1, <3>2, <3>3, TypeParts
  <2>3. NotAhead' /\ OneFirst'
    BY <1>2, <1>6, <2>1 DEF NotAhead, OneFirst, HasFirst, IsFirst
  <2> QED
    BY <2>2, <2>3 DEF TypeInv
<1>8. CASE \E len \in RequestLens : toServer' = toServer \o Message(call + 1, len)
  <2>1. PICK len \in RequestLens : toServer' = toServer \o Message(call', len)
    BY <1>2, <1>8
  <2>2. PICK m : m = Message(call', len)
    OBVIOUS
  <2>3. /\ m \in Seq(Piece) /\ DOMAIN m = 1 .. len
        /\ \A i \in 1 .. len : m[i] = [call |-> call', part |-> i, len |-> len]
    BY <1>3, <2>2, MessageIs, LengthsArePositive
  <2>4. toServer \in Seq(Piece) /\ Len(toServer) \in Nat
    BY <1>1 DEF Pieces
  <2>5. /\ toServer' \in Seq(Piece)
        /\ \A i \in DOMAIN toServer' :
             \/ i \in DOMAIN toServer /\ toServer'[i] = toServer[i]
             \/ i - Len(toServer) \in DOMAIN m /\ toServer'[i] = m[i - Len(toServer)]
    BY <2>1, <2>2, <2>3, <2>4, Joined
  <2>6. \A i \in DOMAIN toServer' : i \in Nat
    BY <2>5
  <2>7. ASSUME NEW i \in DOMAIN toServer'
        PROVE  /\ toServer'[i].call =< call'
               /\ toServer'[i].call = call' /\ toServer'[i].part = 1 => i = Len(toServer) + 1
    <3>1. CASE i \in DOMAIN toServer /\ toServer'[i] = toServer[i]
      BY <1>2, <1>3, <1>4, <3>1
    <3>2. CASE i - Len(toServer) \in DOMAIN m /\ toServer'[i] = m[i - Len(toServer)]
      <4>1. PICK j \in 1 .. len : j = i - Len(toServer) /\ toServer'[i] = m[j]
        BY <2>3, <3>2
      <4>2. toServer'[i].call = call' /\ toServer'[i].part = j
        BY <2>3, <4>1
      <4> QED
        BY <1>3, <2>4, <2>6, <4>1, <4>2
    <3> QED
      BY <2>5, <3>1, <3>2
  <2>8. TypeOK'
    <3>1. Places'
      BY <1>1, <1>2, <1>3, <2>5 DEF Places
    <3>2. Numbers'
      BY <1>1, <1>2, <1>3, <2>5 DEF Numbers
    <3>3. Pieces'
      BY <1>1, <1>2, <1>3, <2>5 DEF Pieces
    <3> QED
      BY <3>1, <3>2, <3>3, TypeParts
  <2>9. NotAhead'
    BY <1>6, <2>7 DEF NotAhead
  <2>10. OneFirst'
    <3>1. ~HasFirst(chunk)'
      BY <1>6 DEF HasFirst, IsFirst
    <3>2. \A i, j \in DOMAIN toServer' :
            IsFirst(toServer[i])' /\ IsFirst(toServer[j])' => i = j
      BY <2>7 DEF IsFirst
    <3> QED
      BY <1>2, <3>1, <3>2 DEF OneFirst
  <2> QED
    BY <2>8, <2>9, <2>10 DEF TypeInv
<1> QED
  BY <1>7, <1>8 DEF SendRequest

\* A call whose send() fails has no request on its way.
LEMMA SendFailsTypes == TypeInv /\ SendFails => TypeInv'
<1> SUFFICES ASSUME TypeInv, SendFails PROVE TypeInv'
  OBVIOUS
<1>1. Places /\ Numbers /\ Pieces /\ NotAhead
  BY TypeParts DEF TypeInv
<1>2. /\ call < MaxCalls /\ call' = call + 1 /\ runs' = 0 /\ outcome' = "failure"
      /\ UNCHANGED <<sock, pc, wire, toServer, toClient, sPc, chunk, stray>>
  BY DEF SendFails
<1>3. call \in Nat /\ call' \in 0 .. MaxCalls
  BY <1>1, <1>2 DEF Numbers
<1>4. \A i \in DOMAIN toServer : toServer[i].call =< call /\ toServer[i].call \in Nat
  BY <1>1, PieceCalls DEF NotAhead, Pieces
<1>5. \A i \in DOMAIN chunk : chunk[i].call =< call /\ chunk[i].call \in Nat
  BY <1>1, PieceCalls DEF NotAhead, Pieces
<1>6. /\ \A i \in DOMAIN chunk' : chunk'[i].call =< call' /\ chunk'[i].call # call'
      /\ \A i \in DOMAIN toServer' : toServer'[i].call =< call' /\ toServer'[i].call # call'
  BY <1>2, <1>3, <1>4, <1>5
<1>7. TypeOK'
  <2>1. Places'
    BY <1>1, <1>2, <1>3 DEF Places
  <2>2. Numbers'
    BY <1>1, <1>2, <1>3 DEF Numbers
  <2>3. Pieces'
    BY <1>1, <1>2, <1>3 DEF Pieces
  <2> QED
    BY <2>1, <2>2, <2>3, TypeParts
<1>8. NotAhead' /\ OneFirst'
  BY <1>2, <1>6 DEF NotAhead, OneFirst, HasFirst, IsFirst
<1> QED
  BY <1>7, <1>8 DEF TypeInv

\* recv() on the server takes the first pieces: the first piece of the request is
\* then in its buffer or still on the way, as before.
LEMMA ReceiveTypes == TypeInv /\ Receive => TypeInv'
<1> SUFFICES ASSUME TypeInv, Receive PROVE TypeInv'
  OBVIOUS
<1>1. Places /\ Numbers /\ Pieces /\ NotAhead /\ OneFirst
  BY TypeParts DEF TypeInv
<1>2. toServer \in Seq(Piece) /\ Len(toServer) \in Nat /\ DOMAIN toServer = 1 .. Len(toServer)
  BY <1>1 DEF Pieces
<1>3. PICK n \in 1 .. Len(toServer) :
         /\ chunk' = SubSeq(toServer, 1, n)
         /\ toServer' = SubSeq(toServer, n + 1, Len(toServer))
  <2>1. Received(toServer, ServerBuf) \ {0} \subseteq 1 .. Len(toServer)
    BY <1>2, ReceivedIs
  <2> QED
    BY <2>1 DEF Receive
<1>4. /\ chunk' \in Seq(Piece) /\ DOMAIN chunk' = 1 .. n
      /\ \A i \in DOMAIN chunk' : chunk'[i] = toServer[i] /\ i \in DOMAIN toServer
      /\ toServer' \in Seq(Piece)
      /\ \A i \in DOMAIN toServer' : toServer'[i] = toServer[n + i] /\ n + i \in DOMAIN toServer
      /\ DOMAIN toServer' = 1 .. Len(toServer) - n
  <2> DEFINE rest == SubSeq(toServer, n + 1, Len(toServer))
  <2>1. /\ SubSeq(toServer, 1, n) \in Seq(Piece) /\ DOMAIN SubSeq(toServer, 1, n) = 1 .. n
        /\ \A i \in 1 .. n : SubSeq(toServer, 1, n)[i] = toServer[i] /\ i \in DOMAIN toServer
        /\ rest \in Seq(Piece) /\ DOMAIN rest = 1 .. Len(toServer) - n
        /\ \A i \in 1 .. Len(toServer) - n :
             rest[i] = toServer[n + i] /\ n + i \in DOMAIN toServer
    BY <1>2, Cut
  <2> QED
    BY <1>3, <2>1
<1>5. UNCHANGED <<sock, pc, call, outcome, wire, toClient, runs, stray>> /\ sPc' = "handling"
  BY DEF Receive, client
<1>6. TypeOK'
  <2>1. Places'
    BY <1>1, <1>4, <1>5 DEF Places
  <2>2. Numbers'
    BY <1>1, <1>4, <1>5 DEF Numbers
  <2>3. Pieces'
    BY <1>1, <1>4, <1>5 DEF Pieces
  <2> QED
    BY <2>1, <2>2, <2>3, TypeParts
<1>7. NotAhead'
  BY <1>1, <1>4, <1>5 DEF NotAhead
<1>8. OneFirst'
  <2>1. \A i \in DOMAIN chunk' : IsFirst(chunk[i])' => IsFirst(toServer[i]) /\ i \in DOMAIN toServer
    BY <1>4, <1>5 DEF IsFirst
  <2>2. \A i \in DOMAIN toServer' :
          IsFirst(toServer[i])' => IsFirst(toServer[n + i]) /\ n + i \in DOMAIN toServer
    BY <1>4, <1>5 DEF IsFirst
  <2>3. \A i, j \in DOMAIN toServer : IsFirst(toServer[i]) /\ IsFirst(toServer[j]) => i = j
    BY <1>1 DEF OneFirst
  <2>4. ASSUME NEW i \in DOMAIN toServer', NEW j \in DOMAIN toServer',
               IsFirst(toServer[i])', IsFirst(toServer[j])'
        PROVE  i = j
    <3>1. n + i = n + j
      BY <2>2, <2>3, <2>4
    <3>2. i \in Int /\ j \in Int /\ n \in Int
      BY <1>4
    <3> QED
      BY <3>1, <3>2
  <2>5. ~ (HasFirst(chunk)' /\ HasFirst(toServer)')
    <3> SUFFICES ASSUME NEW i \in DOMAIN chunk', NEW j \in DOMAIN toServer',
                        IsFirst(chunk[i])', IsFirst(toServer[j])'
                 PROVE  FALSE
      BY DEF HasFirst
    <3>1. i = n + j
      BY <2>1, <2>2, <2>3
    <3>2. i \in 1 .. n /\ j \in 1 .. Len(toServer) - n /\ n \in Nat
      BY <1>4
    <3> QED
      BY <3>1, <3>2
  <2>6. runs' = 1 => ~HasFirst(chunk)' /\ ~HasFirst(toServer)'
    BY <1>1, <1>5, <2>1, <2>2 DEF OneFirst, HasFirst
  <2> QED
    BY <2>4, <2>5, <2>6 DEF OneFirst
<1> QED
  BY <1>6, <1>7, <1>8 DEF TypeInv

\* The request is run only from a chunk that begins with its first piece.
LEMMA HandleTypes == TypeInv /\ Handle => TypeInv'
<1> SUFFICES ASSUME TypeInv, Handle PROVE TypeInv'
  OBVIOUS
<1>1. Places /\ Numbers /\ Pieces /\ NotAhead /\ OneFirst
  BY TypeParts DEF TypeInv
<1>2. /\ chunk' = <<>> /\ sPc' = "recv"
      /\ UNCHANGED <<sock, pc, call, outcome, wire, toServer>>
  BY DEF Handle, client
<1>3. PICK whole \in BOOLEAN, len \in ReplyLens :
         /\ whole => IsWhole(chunk, call)
         /\ runs' = IF whole THEN runs + 1 ELSE runs
         /\ stray' \in {stray, TRUE}
         /\ toClient' = IF sock = "zero" THEN toClient ELSE toClient \o
                          Message(IF whole THEN call ELSE Garbled, len)
  <2>1. PICK overread \in {FALSE} \cup {Len(chunk) = ServerBuf}, len \in ReplyLens :
          LET whole == IsWhole(chunk, call) /\ ~overread IN
            /\ runs' = IF whole THEN runs + 1 ELSE runs
            /\ stray' \in IF whole THEN {stray} ELSE {stray, TRUE}
            /\ toClient' = IF sock = "zero" THEN toClient ELSE toClient \o
                             Message(IF whole THEN call ELSE Garbled, len)
    BY DEF Handle
  <2>2. PICK w \in BOOLEAN : w <=> (IsWhole(chunk, call) /\ ~overread)
    OBVIOUS
  <2>3. CASE w
    BY <2>1, <2>2, <2>3
  <2>4. CASE ~w
    BY <2>1, <2>2, <2>4
  <2> QED
    BY <2>3, <2>4
<1>4. whole => HasFirst(chunk)
  BY <1>1, <1>3, WholeHasFirst DEF Pieces
<1>5. runs \in 0 .. 1 /\ (whole => runs = 0 /\ ~HasFirst(toServer))
  BY <1>1, <1>4 DEF OneFirst, Numbers
<1>6. toClient' \in Seq(Piece)
  <2>1. PICK k \in 0 .. MaxCalls : k = IF whole THEN call ELSE Garbled
    BY <1>1 DEF Numbers, Garbled
  <2>2. Message(k, len) \in Seq(Piece)
    BY <2>1, MessageIs, LengthsArePositive
  <2>3. toClient \in Seq(Piece)
    BY <1>1 DEF Pieces
  <2>4. toClient \o Message(k, len) \in Seq(Piece)
    BY <2>2, <2>3, Joined
  <2> QED
    BY <1>3, <2>1, <2>3, <2>4
<1>7. TypeOK'
  <2>1. runs' \in 0 .. 1
    BY <1>3, <1>5
  <2>2. chunk' \in Seq(Piece)
    BY <1>2
  <2>3. stray' \in BOOLEAN
    <3>1. stray \in BOOLEAN
      BY <1>1 DEF Places
    <3> QED
      BY <1>3, <3>1, Zenon
  <2>4. Places' /\ Numbers' /\ Pieces'
    BY <1>1, <1>2, <1>6, <2>1, <2>2, <2>3 DEF Places, Numbers, Pieces
  <2> QED
    BY <2>4, TypeParts
<1>8. NotAhead'
  BY <1>1, <1>2 DEF NotAhead
<1>9. OneFirst'
  <2>1. ~HasFirst(chunk)'
    BY <1>2 DEF HasFirst
  <2>2. HasFirst(toServer)' <=> HasFirst(toServer)
    BY <1>2 DEF HasFirst, IsFirst
  <2>3. runs' = 1 => ~HasFirst(toServer)
    BY <1>1, <1>3, <1>5 DEF OneFirst
  <2>4. \A i, j \in DOMAIN toServer' :
          IsFirst(toServer[i])' /\ IsFirst(toServer[j])' => i = j
    BY <1>1, <1>2 DEF OneFirst, IsFirst
  <2> QED
    BY <2>1, <2>2, <2>3, <2>4 DEF OneFirst
<1> QED
  BY <1>7, <1>8, <1>9 DEF TypeInv

\* recv() on the client takes the first bytes of what was sent to it.
LEMMA ReadReplyTypes == TypeInv /\ ReadReply => TypeInv'
<1> SUFFICES ASSUME TypeInv, ReadReply PROVE TypeInv'
  OBVIOUS
<1>1. Places /\ Numbers /\ Pieces
  BY TypeParts DEF TypeInv
<1>2. /\ pc' = "idle" /\ outcome' \in {"answer", "wrong answer"}
      /\ UNCHANGED <<sock, call, wire, toServer, sPc, chunk, runs, stray>>
  BY DEF ReadReply, server
<1>3. toClient' \in Seq(Piece)
  <2>1. toClient \in Seq(Piece)
    BY <1>1 DEF Pieces
  <2>2. Received(toClient, ClientBuf) \ {0} \subseteq 1 .. Len(toClient)
    BY <2>1, ReceivedIs
  <2>3. PICK n \in 1 .. Len(toClient) : toClient' = SubSeq(toClient, n + 1, Len(toClient))
    BY <2>2 DEF ReadReply
  <2> QED
    BY <2>1, <2>3, Cut
<1>4. Places' /\ Numbers'
  BY <1>1, <1>2 DEF Places, Numbers
<1>5. Pieces'
  BY <1>1, <1>2, <1>3 DEF Pieces
<1>6. NotAhead' /\ OneFirst'
  BY <1>2, SameRequests
<1> QED
  BY <1>4, <1>5, <1>6, TypeParts DEF TypeInv

\* The server process ends and takes what was on its way with it.
LEMMA ServerDiesTypes == TypeInv /\ ServerDies => TypeInv'
<1> SUFFICES ASSUME TypeInv, ServerDies PROVE TypeInv'
  OBVIOUS
<1>1. Places /\ Numbers /\ Pieces
  BY TypeParts DEF TypeInv
<1>2. /\ sPc' = "gone" /\ wire' \in {"reset", "closed"} /\ chunk' = <<>> /\ toServer' = <<>>
      /\ UNCHANGED <<sock, pc, call, outcome, toClient, runs, stray>>
  BY DEF ServerDies, client
<1>3. Places' /\ Numbers'
  BY <1>1, <1>2 DEF Places, Numbers
<1>4. Pieces'
  BY <1>1, <1>2 DEF Pieces
<1>5. NotAhead' /\ OneFirst'
  BY <1>2 DEF NotAhead, OneFirst, HasFirst
<1> QED
  BY <1>3, <1>4, <1>5, TypeParts DEF TypeInv

\* The steps that send and take nothing.
LEMMA OtherTypes ==
  ASSUME TypeInv,
         \/ Connect \/ Disconnect \/ SendKills \/ ReadError \/ ReadEnd \/ ServerDone
         \/ UNCHANGED vars
  PROVE  TypeInv'
<1>1. Places /\ Numbers /\ Pieces
  BY TypeParts DEF TypeInv
<1>2. UNCHANGED <<call, toServer, toClient, chunk, runs>>
  BY DEF Connect, Disconnect, SendKills, ReadError, ReadEnd, ServerDone, vars, client, server
<1>3. Numbers' /\ Pieces'
  BY <1>1, <1>2 DEF Numbers, Pieces
<1>4. Places'
  <2>1. CASE Connect
    BY <1>1, <2>1 DEF Connect, Places
  <2>2. CASE Disconnect
    BY <1>1, <2>2 DEF Disconnect, Places, server
  <2>3. CASE SendKills
    BY <1>1, <2>3 DEF SendKills, Places, server
  <2>4. CASE ReadError \/ ReadEnd
    BY <1>1, <2>4 DEF ReadError, ReadEnd, Places, server
  <2>5. CASE ServerDone
    BY <1>1, <2>5 DEF ServerDone, Places, client
  <2>6. CASE UNCHANGED vars
    BY <1>1, <2>6 DEF vars, client, server, Places
  <2> QED
    BY <2>1, <2>2, <2>3, <2>4, <2>5, <2>6
<1>5. NotAhead' /\ OneFirst'
  BY <1>2, SameRequests
<1> QED
  BY <1>3, <1>4, <1>5, TypeParts DEF TypeInv

\* The invariant is inductive.
LEMMA NextTypeInv == TypeInv /\ [Next]_vars => TypeInv'
<1> SUFFICES ASSUME TypeInv, [Next]_vars PROVE TypeInv'
  OBVIOUS
<1>1. CASE SendRequest
  BY <1>1, SendRequestTypes
<1>2. CASE SendFails
  BY <1>2, SendFailsTypes
<1>3. CASE ReadReply
  BY <1>3, ReadReplyTypes
<1>4. CASE Receive
  BY <1>4, ReceiveTypes
<1>5. CASE Handle
  BY <1>5, HandleTypes
<1>6. CASE ServerDies
  BY <1>6, ServerDiesTypes
<1>7. CASE \/ Connect \/ Disconnect \/ SendKills \/ ReadError \/ ReadEnd \/ ServerDone
           \/ Stopped \/ UNCHANGED vars
  BY <1>7, OtherTypes DEF Stopped
<1> QED
  BY <1>1, <1>2, <1>3, <1>4, <1>5, <1>6, <1>7 DEF Next, ClientStep, ServerStep

\* Every reachable state satisfies the invariant.
LEMMA TypeInvariant == Spec => []TypeInv
<1> QED
  BY InitTypeInv, NextTypeInv, PTL DEF Spec

\* Whatever the messages and however they are cut, both ends hold pieces of
\* messages of calls that were made, and a request is run once at most.
THEOREM WireTypes == Spec => []TypeOK
<1>1. TypeInv => TypeOK
  BY DEF TypeInv
<1> QED
  BY <1>1, TypeInvariant, PTL

-----------------------------------------------------------------------------
(* A connection on which the messages fit.                                 *)

\* On a silent connection nothing is received.
LEMMA NothingReceived ==
  ASSUME MessagesFit
  PROVE  Received(<<>>, ServerBuf) \ {0} = {} /\ Received(<<>>, ClientBuf) \ {0} = {}
<1>1. PICK e \in Seq(Piece) : e = <<>> /\ Len(e) = 0
  <2>1. <<>> \in Seq(Piece) /\ Len(<<>>) = 0
    OBVIOUS
  <2> QED
    BY <2>1, Zenon
<1>2. ~Segments /\ Len(e) =< ServerBuf /\ Len(e) =< ClientBuf
  BY <1>1 DEF MessagesFit
<1>3. Received(e, ServerBuf) = {0} /\ Received(e, ClientBuf) = {0}
  BY <1>1, <1>2, ReceivedIs
<1> QED
  BY <1>1, <1>3

\* A message that fits is received whole.
LEMMA WholeReceived ==
  ASSUME MessagesFit, NEW k \in 0 .. MaxCalls, NEW len \in Lengths, NEW buf \in Nat \ {0},
         len =< buf
  PROVE  /\ Received(Message(k, len), buf) \ {0} = {len}
         /\ SubSeq(Message(k, len), 1, len) = Message(k, len)
         /\ SubSeq(Message(k, len), len + 1, Len(Message(k, len))) = <<>>
<1>1. PICK m : m = Message(k, len)
  OBVIOUS
<1>2. m \in Seq(Piece) /\ Len(m) = len /\ len \in Nat \ {0}
  BY <1>1, MessageIs
<1>3. Received(m, buf) = {len}
  BY <1>2, ReceivedIs DEF MessagesFit
<1>4. SubSeq(m, 1, len) = m /\ SubSeq(m, len + 1, Len(m)) = <<>>
  BY <1>2, CutWhole
<1> QED
  BY <1>1, <1>2, <1>3, <1>4

\* The request begins on a silent connection, or finds that it is no more.
LEMMA SendRequestFlow == TypeInv /\ Flow /\ SendRequest => Flow'
<1> SUFFICES ASSUME TypeInv, Flow, SendRequest PROVE Flow'
  OBVIOUS
<1>1. Ends /\ Silent
  BY DEF Flow, SendRequest, Requested, Taken, Replied
<1>2. /\ pc' = "waiting" /\ sock = "connected" /\ call' = call + 1 /\ runs' = 0
      /\ UNCHANGED <<sock, toClient, sPc, chunk, stray>>
  BY DEF SendRequest
<1>3. CASE wire = "up" /\ wire' = "up"
  <2>1. PICK len \in RequestLens : toServer' = toServer \o Message(call', len)
    BY <1>2, <1>3 DEF SendRequest
  <2>2. toServer' = Message(call', len)
    <3>1. call' \in 0 .. MaxCalls
      BY NextTypeInv, TypeParts DEF Next, TypeInv, Numbers
    <3>2. Message(call', len) \in Seq(Piece)
      BY <3>1, MessageIs, LengthsArePositive
    <3> QED
      BY <1>1, <2>1, <3>2 DEF Silent
  <2>3. sPc = "recv"
    <3>1. sPc \in {"accept", "recv", "handling", "gone"}
      BY TypeParts DEF TypeInv, Places
    <3> QED
      BY <1>1, <1>2, <1>3, <3>1 DEF Silent, Ends
  <2>4. Requested'
    BY <1>1, <1>2, <1>3, <2>2, <2>3 DEF Silent, Requested
  <2>5. Ends'
    BY <1>1, <1>2, <1>3 DEF Ends
  <2> QED
    BY <2>4, <2>5 DEF Flow
<1>4. CASE wire = "closed" /\ wire' \in {"closed", "reset"} /\ UNCHANGED toServer
  BY <1>1, <1>2, <1>4 DEF Silent, Ends, Flow
<1> QED
  BY <1>3, <1>4 DEF SendRequest

\* The server takes the whole request, and only if there is one.
LEMMA ReceiveFlow == MessagesFit /\ TypeInv /\ Flow /\ Receive => Flow'
<1> SUFFICES ASSUME MessagesFit, TypeInv, Flow, Receive PROVE Flow'
  OBVIOUS
<1>1. sPc = "recv" /\ sPc' = "handling"
      /\ UNCHANGED <<sock, pc, call, outcome, wire, toClient, runs, stray>>
  BY DEF Receive, client
<1>2. toServer # <<>>
  BY NothingReceived DEF Receive
<1>3. Ends /\ Requested
  BY <1>2 DEF Flow, Silent, Taken, Replied
<1>4. PICK len \in RequestLens : toServer = Message(call, len)
  BY <1>3 DEF Requested
<1>5. len \in Lengths /\ len =< ServerBuf
  <2>1. len < ServerBuf /\ len \in Lengths /\ len \in Nat
    BY LengthsArePositive DEF MessagesFit
  <2> QED
    BY <2>1
<1>6. call \in 0 .. MaxCalls
  BY TypeParts DEF TypeInv, Numbers
<1>7. chunk' = Message(call, len) /\ toServer' = <<>>
  <2>1. Received(toServer, ServerBuf) \ {0} = {len}
        /\ SubSeq(toServer, 1, len) = toServer
        /\ SubSeq(toServer, len + 1, Len(toServer)) = <<>>
    BY <1>4, <1>5, <1>6, WholeReceived
  <2> QED
    BY <1>4, <2>1 DEF Receive
<1>8. Taken' /\ Ends'
  BY <1>1, <1>3, <1>7 DEF Taken, Requested, Ends
<1> QED
  BY <1>8 DEF Flow

\* HandleMessage has the whole request and nothing more: it runs it and sends the
\* reply to it.
LEMMA HandleFlow ==
  MessagesFit /\ TypeInv /\ Flow /\ Handle => Taken /\ runs' = 1 /\ Flow'
<1> SUFFICES ASSUME MessagesFit, TypeInv, Flow, Handle PROVE Taken /\ runs' = 1 /\ Flow'
  OBVIOUS
<1>1. /\ sPc = "handling" /\ sPc' = "recv" /\ chunk' = <<>>
      /\ UNCHANGED <<sock, pc, call, outcome, wire, toServer>>
  BY DEF Handle, client
<1>2. Ends /\ Taken
  BY <1>1 DEF Flow, Silent, Requested, Replied
<1>3. PICK len \in RequestLens : chunk = Message(call, len)
  BY <1>2 DEF Taken
<1>4. call \in 0 .. MaxCalls
  BY TypeParts DEF TypeInv, Numbers
<1>5. IsWhole(chunk, call) /\ Len(chunk) # ServerBuf
  <2>1. len < ServerBuf /\ len \in Lengths /\ len \in Nat
    BY LengthsArePositive DEF MessagesFit
  <2>2. IsWhole(chunk, call) /\ Len(chunk) = len
    BY <1>3, <1>4, <2>1, MessageIs
  <2> QED
    BY <2>1, <2>2
<1>6. PICK back \in ReplyLens : /\ runs' = runs + 1 /\ stray' = stray
                                /\ toClient' = toClient \o Message(call, back)
  <2>1. sock # "zero"
    BY <1>2 DEF Taken
  <2> QED
    BY <1>5, <2>1 DEF Handle
<1>7. toClient' = Message(call, back)
  <2>1. Message(call, back) \in Seq(Piece)
    BY <1>4, MessageIs, LengthsArePositive
  <2> QED
    BY <1>2, <1>6, <2>1 DEF Taken
<1>8. runs' = 1
  BY <1>2, <1>6 DEF Taken
<1>9. Replied' /\ Ends'
  BY <1>1, <1>2, <1>6, <1>7, <1>8 DEF Taken, Replied, Ends
<1> QED
  BY <1>2, <1>8, <1>9 DEF Flow

\* The client takes the whole reply, and only one to its own request.
LEMMA ReadReplyFlow ==
  MessagesFit /\ TypeInv /\ Flow /\ ReadReply => Replied /\ outcome' = "answer" /\ Flow'
<1> SUFFICES ASSUME MessagesFit, TypeInv, Flow, ReadReply
             PROVE  Replied /\ outcome' = "answer" /\ Flow'
  OBVIOUS
<1>1. pc' = "idle" /\ UNCHANGED <<sock, call, wire, toServer, sPc, chunk, runs, stray>>
  BY DEF ReadReply, server
<1>2. toClient # <<>>
  BY NothingReceived DEF ReadReply
<1>3. Ends /\ Replied
  BY <1>2 DEF Flow, Silent, Requested, Taken
<1>4. PICK len \in ReplyLens : toClient = Message(call, len)
  BY <1>3 DEF Replied
<1>5. len \in Lengths /\ len =< ClientBuf
  BY LengthsArePositive DEF MessagesFit
<1>6. call \in 0 .. MaxCalls
  BY TypeParts DEF TypeInv, Numbers
<1>7. outcome' = "answer" /\ toClient' = <<>>
  <2>1. Received(toClient, ClientBuf) \ {0} = {len}
        /\ SubSeq(toClient, 1, len) = toClient
        /\ SubSeq(toClient, len + 1, Len(toClient)) = <<>>
    BY <1>4, <1>5, <1>6, WholeReceived
  <2>2. IsWhole(toClient, call)
    BY <1>4, <1>5, <1>6, MessageIs
  <2> QED
    BY <2>1, <2>2 DEF ReadReply
<1>8. Silent' /\ Ends'
  BY <1>1, <1>3, <1>7 DEF Replied, Silent, Ends
<1> QED
  BY <1>3, <1>7, <1>8 DEF Flow

\* The end of the server process loses what it had not answered.
LEMMA ServerDiesFlow == TypeInv /\ Flow /\ ServerDies => Flow'
<1> SUFFICES ASSUME TypeInv, Flow, ServerDies PROVE Flow'
  OBVIOUS
<1>1. /\ sPc' = "gone" /\ wire' \in {"reset", "closed"} /\ chunk' = <<>> /\ toServer' = <<>>
      /\ UNCHANGED <<sock, pc, call, outcome, toClient, runs, stray>>
  BY DEF ServerDies, client
<1>2. Ends'
  BY <1>1 DEF Flow, Ends
<1>3. CASE Replied
  BY <1>1, <1>2, <1>3 DEF Replied, Flow
<1>4. CASE Silent \/ Requested \/ Taken
  <2>1. toClient = <<>>
    BY <1>4 DEF Silent, Requested, Taken
  <2>2. Silent'
    BY <1>1, <2>1 DEF Silent
  <2> QED
    BY <1>2, <2>2 DEF Flow
<1> QED
  BY <1>3, <1>4 DEF Flow

\* The steps that send and take nothing are taken on a silent connection, or do
\* not change where the call is.
LEMMA OtherFlow ==
  ASSUME TypeInv, Flow,
         \/ Connect \/ Disconnect \/ SendKills \/ SendFails \/ ReadError \/ ReadEnd
         \/ ServerDone \/ UNCHANGED vars
  PROVE  Flow'
<1>1. CASE Connect
  BY <1>1 DEF Connect, Flow, Ends, Silent, Requested, Taken, Replied
<1>2. CASE Disconnect
  BY <1>2 DEF Disconnect, server, Flow, Ends, Silent, Requested, Taken, Replied
<1>3. CASE SendKills
  BY <1>3 DEF SendKills, server, Flow, Ends, Silent, Requested, Taken, Replied
<1>4. CASE SendFails
  BY <1>4 DEF SendFails, Flow, Ends, Silent, Requested, Taken, Replied
<1>5. CASE ReadError \/ ReadEnd
  <2>1. Ends /\ Silent
    <3>1. toClient = <<>> /\ wire # "up"
      BY <1>5 DEF ReadError, ReadEnd
    <3>2. ~Replied
      <4> SUFFICES ASSUME NEW len \in ReplyLens, <<>> = Message(call, len) PROVE FALSE
        BY <3>1 DEF Replied
      <4>1. call \in 0 .. MaxCalls
        BY TypeParts DEF TypeInv, Numbers
      <4>2. Len(Message(call, len)) = len /\ len \in Nat \ {0}
        BY <4>1, MessageIs, LengthsArePositive
      <4> QED
        BY <4>2
    <3> QED
      BY <3>1, <3>2 DEF Flow, Requested, Taken
  <2> QED
    BY <1>5, <2>1 DEF ReadError, ReadEnd, server, Flow, Ends, Silent
<1>6. CASE ServerDone
  BY <1>6 DEF ServerDone, client, Flow, Ends, Silent, Requested, Taken, Replied
<1>7. CASE UNCHANGED vars
  BY <1>7 DEF vars, client, server, Flow, Ends, Silent, Requested, Taken, Replied
<1> QED
  BY <1>1, <1>2, <1>3, <1>4, <1>5, <1>6, <1>7

\* The invariant is inductive.
LEMMA NextFlow == MessagesFit /\ TypeInv /\ Flow /\ [Next]_vars => Flow'
<1> SUFFICES ASSUME MessagesFit, TypeInv, Flow, [Next]_vars PROVE Flow'
  OBVIOUS
<1>1. CASE SendRequest
  BY <1>1, SendRequestFlow
<1>2. CASE ReadReply
  BY <1>2, ReadReplyFlow
<1>3. CASE Receive
  BY <1>3, ReceiveFlow
<1>4. CASE Handle
  BY <1>4, HandleFlow
<1>5. CASE ServerDies
  BY <1>5, ServerDiesFlow
<1>6. CASE \/ Connect \/ Disconnect \/ SendKills \/ SendFails \/ ReadError \/ ReadEnd
           \/ ServerDone \/ Stopped \/ UNCHANGED vars
  BY <1>6, OtherFlow DEF Stopped
<1> QED
  BY <1>1, <1>2, <1>3, <1>4, <1>5, <1>6 DEF Next, ClientStep, ServerStep

\* Where messages fit, every reachable state has at most one message on its way.
LEMMA FlowInvariant ==
  ASSUME MessagesFit
  PROVE  Spec => [](TypeInv /\ Flow)
<1>1. Init => TypeInv /\ Flow
  BY InitTypeInv DEF Init, Flow, Ends, Silent
<1>2. (TypeInv /\ Flow) /\ [Next]_vars => (TypeInv /\ Flow)'
  BY NextTypeInv, NextFlow
<1> QED
  BY <1>1, <1>2, PTL DEF Spec

\* Where messages fit, a call that returns leaves the connection silent.
THEOREM WireInSync == ASSUME MessagesFit PROVE Spec => []InSync
<1>1. TypeInv /\ Flow => InSync
  BY DEF InSync, Flow, Ends, Silent, Requested, Taken, Replied
<1> QED
  BY <1>1, FlowInvariant, PTL

-----------------------------------------------------------------------------
(* A connection on which messages fit carries the calls of Rpc.            *)

\* Every step of the two ends is a step of a call, or none.
LEMMA ImplStep ==
  MessagesFit /\ TypeInv /\ Flow /\ [Next]_vars => [R!Next]_(R!vars)
<1> SUFFICES ASSUME MessagesFit, TypeInv, Flow, [Next]_vars
             PROVE  R!Next \/ UNCHANGED R!vars
  OBVIOUS
<1>1. CASE SendRequest
  <2>1. R!Call
    BY <1>1 DEF SendRequest, R!Call
  <2> QED
    BY <2>1 DEF R!Next
<1>2. CASE SendFails
  <2>1. R!CallFails
    BY <1>2 DEF SendFails, R!CallFails
  <2> QED
    BY <2>1 DEF R!Next
<1>3. CASE Handle
  <2>1. Taken /\ runs' = 1 /\ UNCHANGED <<call, pc, outcome>>
    BY <1>3, HandleFlow DEF Handle, client
  <2>2. R!Run
    BY <2>1 DEF Taken, R!Run
  <2> QED
    BY <2>2 DEF R!Next
<1>4. CASE ReadReply
  <2>1. Replied /\ outcome' = "answer" /\ pc' = "idle" /\ UNCHANGED <<call, runs>>
    BY <1>4, ReadReplyFlow DEF ReadReply, server
  <2>2. R!Return
    BY <2>1 DEF Replied, R!Return
  <2> QED
    BY <2>2 DEF R!Next
<1>5. CASE ReadError \/ ReadEnd
  <2>1. R!Return
    BY <1>5 DEF ReadError, ReadEnd, server, R!Return
  <2> QED
    BY <2>1 DEF R!Next
<1>6. CASE Connect \/ Disconnect
  BY <1>6 DEF Connect, Disconnect, server, R!vars
<1>7. CASE SendKills
  BY <1>7 DEF SendKills, server, R!vars
<1>8. CASE Receive \/ ServerDone \/ ServerDies
  BY <1>8 DEF Receive, ServerDone, ServerDies, client, R!vars
<1>9. CASE Stopped \/ UNCHANGED vars
  BY <1>9 DEF Stopped, vars, client, server, R!vars
<1> QED
  BY <1>1, <1>2, <1>3, <1>4, <1>5, <1>6, <1>7, <1>8, <1>9 DEF Next, ClientStep, ServerStep

\* Where messages fit, Request behaves as a remote procedure call: the server
\* runs the request once at most, and what is returned as the answer is the answer
\* to it.
THEOREM WireImplementsRpc == ASSUME MessagesFit PROVE Spec => ImplementsRpc
<1>1. Init => R!Init
  BY DEF Init, R!Init
<1>2. TypeInv /\ Flow /\ [Next]_vars => [R!Next]_(R!vars)
  BY ImplStep
<1> QED
  BY <1>1, <1>2, FlowInvariant, PTL DEF Spec, ImplementsRpc, R!Spec

\* Where messages fit, no call is given the answer to something else; the run in
\* which a request is longer than the server's buffer shows what happens if not.
THEOREM WireAnswersMatch == ASSUME MessagesFit PROVE Spec => []AnswersMatch
<1>1. Init => AnswersMatch
  BY DEF Init, AnswersMatch
<1>2. ASSUME TypeInv, Flow, AnswersMatch, [Next]_vars PROVE AnswersMatch'
  <2>1. CASE ReadReply
    BY <1>2, <2>1, ReadReplyFlow DEF AnswersMatch
  <2>2. CASE SendRequest \/ SendFails \/ ReadError \/ ReadEnd
    BY <2>2 DEF SendRequest, SendFails, ReadError, ReadEnd, AnswersMatch
  <2>3. CASE UNCHANGED outcome
    BY <1>2, <2>3 DEF AnswersMatch
  <2>4. CASE \/ Connect \/ Disconnect \/ SendKills \/ Receive \/ Handle \/ ServerDone
             \/ ServerDies \/ Stopped \/ UNCHANGED vars
    BY <2>3, <2>4 DEF Connect, Disconnect, SendKills, Receive, Handle, ServerDone,
                      ServerDies, Stopped, client, server, vars
  <2> QED
    BY <1>2, <2>1, <2>2, <2>4 DEF Next, ClientStep, ServerStep
<1> QED
  BY <1>1, <1>2, FlowInvariant, PTL DEF Spec
=============================================================================
