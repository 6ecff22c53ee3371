----------------------- MODULE SessionRegistry_proofs -----------------------
(* Proofs about the table of sessions: types, mutual exclusion, the ids in *)
(* the table, and the refinement of SessionIds.                            *)
EXTENDS SessionRegistry, FiniteSetTheorems, NaturalsInduction, WellFoundedInduction, TLAPS

\* In the model a session that has not joined the table has no id yet; so it is
\* not in the table when it registers.
IdGiven == \A c \in Session : mId[c] = NoId <=> pc[c] \in NotJoined

\* The inductive invariant.  IdsBalanced alone is not inductive: a session
\* that registers must not be in the table already (IdGiven), and must be
\* the only one to change it (MutexInv).
IInv == TypeOK /\ MutexInv /\ IdGiven /\ IdsBalanced

USE SessionAssumption, BoundAssumption DEF NoId

\* The invariant holds when the server starts.
LEMMA InitIInv == Init => IInv
<1> SUFFICES ASSUME Init PROVE IInv
  OBVIOUS
<1> USE DEF Init, Locations, NotJoined, Joined, Present, Serving, Ended, Holding, NoScan
<1>1. TypeOK
  BY DEF TypeOK
<1>2. MutexInv
  BY DEF MutexInv
<1>3. IdGiven
  BY DEF IdGiven
<1>4. IdsBalanced
  <2>1. PresentSessions = {} /\ DOMAIN sClients = {}
    BY DEF PresentSessions
  <2> DEFINE f == [i \in {} |-> i]
  <2>2. f \in [DOMAIN sClients -> PresentSessions] /\ Pairing(f)
    BY <2>1 DEF Pairing
  <2> QED
    BY <2>2 DEF IdsBalanced
<1> QED
  BY <1>1, <1>2, <1>3, <1>4 DEF IInv

-----------------------------------------------------------------------------
\* A table whose ids are balanced has one entry per present session.
LEMMA TableSize ==
  ASSUME TypeOK, IdsBalanced
  PROVE  /\ IsFiniteSet(PresentSessions)
         /\ Len(sClients) = Cardinality(PresentSessions)
<1>1. IsFiniteSet(PresentSessions)
  BY FS_Subset DEF PresentSessions
<1>2. PICK f \in [DOMAIN sClients -> PresentSessions] : Pairing(f)
  BY DEF IdsBalanced
<1>3. Len(sClients) \in Nat /\ DOMAIN sClients = 1 .. Len(sClients)
  BY DEF TypeOK
<1>4. f \in Bijection(1 .. Len(sClients), PresentSessions)
  BY <1>2, <1>3 DEF Pairing, Bijection, Injection, Surjection, IsInjective
<1>5. ExistsBijection(1 .. Len(sClients), PresentSessions)
  BY <1>4 DEF ExistsBijection
<1> QED
  BY <1>1, <1>3, <1>5, FS_CountingElements

-----------------------------------------------------------------------------
\* FindSessionClientIndex returns an entry with the id, if there is one.
LEMMA FoundIndex ==
  ASSUME TypeOK, NEW k, Entries(k) # {}
  PROVE  FindSessionClientIndex(k) \in Entries(k)
<1>1. Entries(k) \subseteq Nat
  <2>1. sClients \in Seq(Session)
    BY DEF TypeOK
  <2>2. DOMAIN sClients = 1 .. Len(sClients)
    BY <2>1
  <2> QED
    BY <2>2 DEF Entries
<1> DEFINE R == OpToRel(<, Nat)
<1>2. IsWellFoundedOn(R, Nat)
  BY NatLessThanWellFounded
<1>3. \A x, y \in Nat : ~(<<y, x>> \in R) => x =< y
  <2>1. SUFFICES ASSUME NEW x \in Nat, NEW y \in Nat, ~(x =< y)
                 PROVE  <<y, x>> \in R
    OBVIOUS
  <2>2. y < x
    BY <2>1
  <2> QED
    BY <2>2, Zenon DEF OpToRel
<1> HIDE DEF R
<1>4. PICK x \in Entries(k) : \A y \in Entries(k) : ~(<<y, x>> \in R)
  BY <1>1, <1>2, WFMin
<1>5. \A y \in Entries(k) : x =< y
  BY <1>1, <1>3, <1>4
<1>6. Min(Entries(k)) \in Entries(k)
  BY <1>5 DEF Min
<1> QED
  BY <1>6 DEF FindSessionClientIndex

\* A thread about to erase an entry finds one with its id.
LEMMA LeaverHasEntry ==
  ASSUME IdsBalanced, NEW c \in PresentSessions
  PROVE  Entries(mId[c]) # {}
  BY DEF IdsBalanced, Pairing, Entries

\* What the erasure of position j leaves of a table.
LEMMA Erased ==
  ASSUME NEW s \in Seq(Session), NEW j \in 1 .. Len(s)
  PROVE  /\ RemoveAt(s, j) \in Seq(Session)
         /\ Len(RemoveAt(s, j)) = Len(s) - 1
         /\ \A i \in 1 .. Len(s) - 1 :
               RemoveAt(s, j)[i] = s[IF i < j THEN i ELSE i + 1]
<1> DEFINE a == SubSeq(s, 1, j-1)
           b == SubSeq(s, j+1, Len(s))
<1>1. a \in Seq(Session) /\ Len(a) = j - 1
  OBVIOUS
<1>2. b \in Seq(Session) /\ Len(b) = Len(s) - j
  OBVIOUS
<1>3. RemoveAt(s, j) = a \o b
  BY DEF RemoveAt
<1>4. \A i \in 1 .. j - 1 : a[i] = s[i]
  OBVIOUS
<1>5. \A i \in 1 .. Len(s) - j : b[i] = s[i + j]
  OBVIOUS
<1> HIDE DEF a, b
<1>6. a \o b \in Seq(Session) /\ Len(a \o b) = Len(s) - 1
  BY <1>1, <1>2
<1>7. ASSUME NEW i \in 1 .. Len(s) - 1
      PROVE  (a \o b)[i] = s[IF i < j THEN i ELSE i + 1]
  <2>1. CASE i < j
    BY <1>1, <1>2, <1>4, <2>1
  <2>2. CASE ~(i < j)
    <3>1. (a \o b)[i] = b[i - (j - 1)]
      <4>1. i \in 1 .. Len(a) + Len(b) /\ ~(i =< Len(a))
        BY <1>1, <1>2, <2>2
      <4> QED
        BY <1>1, <1>2, <4>1
    <3>2. i - (j - 1) \in 1 .. Len(s) - j /\ (i - (j - 1)) + j = i + 1
      BY <2>2
    <3> QED
      BY <1>5, <2>2, <3>1, <3>2
  <2> QED
    BY <2>1, <2>2
<1> QED
  BY <1>3, <1>6, <1>7

-----------------------------------------------------------------------------
\* Every step preserves the types.
LEMMA TypeStep ==
  ASSUME IInv, [Next]_vars
  PROVE  TypeOK'
<1> USE DEF IInv, TypeOK, table, socket, Goto, Locations, NotJoined, Joined,
            Present, Serving, Ended
<1>scans. /\ pc \in [Session -> Locations]
      /\ scan \in [Session -> Scan \cup {NoScan}]
      /\ \A d \in Session : pc[d] = "scanning" => scan[d] \in Scan
  OBVIOUS
<1>types. TypeOK
  OBVIOUS
<1>1. CASE UNCHANGED vars
  BY <1>1 DEF vars
<1>2. CASE Stopped
  BY <1>2 DEF Stopped, vars
<1>3. ASSUME NEW c \in Session, Accept(c) \/ ThreadStep(c) \/ ClientStep(c)
      PROVE  TypeOK'
  <2>1. CASE Accept(c)
    BY <2>1 DEF Accept
  <2>2. CASE LockMutex(c)
    BY <2>2 DEF LockMutex, Waiting, Locked
  <2>3. CASE Register(c)
    BY <2>3 DEF Register, UnlockMutex
  <2>4. CASE Receive(c)
    <3>1. PICK k \in 1 .. inbox[c] : inbox' = [inbox EXCEPT ![c] = inbox[c] - k]
      BY <2>4 DEF Receive
    <3>2. /\ inbox[c] - k \in Nat /\ inbox[c] - k =< inbox[c]
          /\ inbox \in [Session -> Nat] /\ toSend \in [Session -> 0 .. MaxRequests]
      BY <3>1
    <3>3. /\ pc' = [pc EXCEPT ![c] = "handling"]
          /\ UNCHANGED <<up, sMutex, mAttached, scan, sClients, mId, client, toSend,
                         unread, reset>>
      BY <2>4 DEF Receive
    <3>4. inbox' \in [Session -> Nat]
      BY <3>1, <3>2
    <3>5. \A d \in Session : toSend'[d] + inbox'[d] =< MaxRequests
      BY <3>1, <3>2, <3>3, BoundAssumption
    <3> QED
      BY <3>3, <3>4, <3>5
  <2>5. CASE Disconnect(c)
    BY <2>5 DEF Disconnect
  <2>6. CASE Answer(c)
    BY <2>6 DEF Answer
  <2>7. CASE AttachEnv(c)
    <3>1. Cardinality(Session) \in Nat
      BY FS_CardinalityType
    <3>2. Provider(c) \in Session
      BY DEF Provider
    <3>3. PICK id \in 0 .. Cardinality(Session) :
             scan' = [scan EXCEPT ![c] = [on |-> Provider(c), id |-> id, at |-> 1]]
      BY <2>7 DEF AttachEnv
    <3>4. [on |-> Provider(c), id |-> id, at |-> 1] \in Scan
      BY <3>1, <3>2 DEF Scan
    <3> QED
      BY <2>7, <3>3, <3>4 DEF AttachEnv
  <2>8. CASE ScanNext(c)
    <3> HIDE DEF IInv, TypeOK
    <3>1. /\ pc[c] = "scanning"
          /\ scan' = [scan EXCEPT ![c] = [scan[c] EXCEPT !.at = scan[c].at + 1]]
          /\ UNCHANGED <<up, sMutex, mAttached, pc, sClients, mId, client, toSend,
                         inbox, unread, reset>>
      BY <2>8 DEF ScanNext
    <3>2. [scan[c] EXCEPT !.at = scan[c].at + 1] \in Scan
      <4>1. scan[c] \in Scan
        BY <1>scans, <3>1
      <4>2. scan[c].at + 1 \in Nat \ {0}
        BY <4>1 DEF Scan
      <4> QED
        BY <4>1, <4>2 DEF Scan
    <3>3. /\ scan' \in [Session -> Scan \cup {NoScan}]
          /\ \A d \in Session : pc'[d] = "scanning" => scan'[d] \in Scan
      <4> DEFINE t == [scan[c] EXCEPT !.at = scan[c].at + 1]
      <4>1. t \in Scan /\ scan' = [scan EXCEPT ![c] = t] /\ pc' = pc
        BY <3>1, <3>2
      <4> HIDE DEF t
      <4> QED
        BY <1>scans, <4>1
    <3> QED
      BY <1>types, <3>1, <3>3 DEF TypeOK
  <2>9. CASE ScanHit(c)
    <3> HIDE DEF IInv, TypeOK
    <3>1. scan[c] \in Scan
      <4>1. pc[c] = "scanning"
        BY <2>9 DEF ScanHit
      <4> QED
        BY <1>scans, <4>1
    <3>2. scan[c].on \in Session /\ sClients[scan[c].at] \in Session
      <4>1. ~(scan[c].at > Len(sClients))
        BY <2>9 DEF ScanHit, AtEnd
      <4>2. sClients \in Seq(Session) /\ Len(sClients) \in Nat
        BY <1>types DEF TypeOK
      <4>3. scan[c].on \in Session /\ scan[c].at \in Nat \ {0}
        BY <3>1 DEF Scan
      <4> QED
        BY <4>1, <4>2, <4>3
    <3>3. /\ mAttached' = [mAttached EXCEPT ![scan[c].on] = sClients[scan[c].at]]
          /\ scan' = [scan EXCEPT ![c] = NoScan]
          /\ pc' = [pc EXCEPT ![c] = "replying"]
          /\ UNCHANGED <<up, sMutex, sClients, mId, client, toSend, inbox, unread,
                         reset>>
      BY <2>9 DEF ScanHit
    <3>4. /\ scan' \in [Session -> Scan \cup {NoScan}]
          /\ pc' \in [Session -> Locations]
          /\ \A d \in Session : pc'[d] = "scanning" => scan'[d] \in Scan
      BY <1>scans, <3>3
    <3>5. mAttached' \in [Session -> Session \cup {None}]
      <4> DEFINE d == sClients[scan[c].at]
      <4> DEFINE p == scan[c].on
      <4>1. /\ d \in Session /\ p \in Session
            /\ mAttached' = [mAttached EXCEPT ![p] = d]
            /\ mAttached \in [Session -> Session \cup {None}]
        BY <1>types, <3>2, <3>3 DEF TypeOK
      <4> HIDE DEF d, p
      <4> QED
        BY <4>1
    <3> QED
      BY <1>types, <3>3, <3>4, <3>5 DEF TypeOK
  <2>10. CASE ScanMiss(c)
    BY <2>10 DEF ScanMiss
  <2>11. CASE ScanFault(c)
    BY <2>11 DEF ScanFault
  <2>12. CASE SendReply(c)
    <3>1. unread' \in [Session -> 0 .. SockCap] /\ reset' \in [Session -> BOOLEAN]
      <4>1. CASE client[c] = "open"
        <5>1. unread \in [Session -> 0 .. SockCap] /\ reset \in [Session -> BOOLEAN]
          OBVIOUS
        <5>2. unread[c] + 1 \in 0 .. SockCap
          BY <2>12, <4>1, <5>1 DEF SendReply
        <5>3. unread' = [unread EXCEPT ![c] = unread[c] + 1] /\ reset' = reset
          BY <2>12, <4>1 DEF SendReply
        <5> QED
          BY <5>1, <5>2, <5>3
      <4>2. CASE client[c] # "open"
        BY <2>12, <4>2 DEF SendReply
      <4> QED
        BY <4>1, <4>2
    <3> QED
      BY <2>12, <3>1 DEF SendReply, UnlockMutex
  <2>13. CASE SendBroken(c)
    BY <2>13 DEF SendBroken
  <2>14. CASE Unregister(c)
    <3>1. Entries(mId[c]) # {}
      BY <2>14, LeaverHasEntry DEF Unregister, PresentSessions
    <3>2. FindSessionClientIndex(mId[c]) \in DOMAIN sClients
      BY <3>1, FoundIndex DEF Entries
    <3>3. RemoveAt(sClients, FindSessionClientIndex(mId[c])) \in Seq(Session)
      BY <3>2, Erased, DOMAIN sClients = 1 .. Len(sClients)
    <3> QED
      BY <2>14, <3>3 DEF Unregister, UnlockMutex
  <2>15. CASE ClientSend(c)
    <3>1. /\ toSend[c] > 0
          /\ toSend' = [toSend EXCEPT ![c] = toSend[c] - 1]
          /\ inbox' = [inbox EXCEPT ![c] = inbox[c] + 1]
          /\ UNCHANGED <<up, sMutex, mAttached, pc, scan, sClients, mId, client,
                         unread, reset>>
      BY <2>15 DEF ClientSend
    <3>2. /\ toSend[c] - 1 \in 0 .. MaxRequests /\ inbox[c] + 1 \in Nat
          /\ (toSend[c] - 1) + (inbox[c] + 1) =< MaxRequests
      <4>1. /\ toSend[c] \in 0 .. MaxRequests /\ inbox[c] \in Nat
            /\ toSend[c] + inbox[c] =< MaxRequests
        OBVIOUS
      <4> HIDE DEF IInv, TypeOK
      <4> QED
        BY <3>1, <4>1, BoundAssumption
    <3>3. toSend' \in [Session -> 0 .. MaxRequests] /\ inbox' \in [Session -> Nat]
      BY <3>1, <3>2
    <3>4. \A d \in Session : toSend'[d] + inbox'[d] =< MaxRequests
      BY <3>1, <3>2
    <3> QED
      BY <3>1, <3>3, <3>4
  <2>16. CASE ClientRead(c)
    <3>1. unread[c] \in 0 .. SockCap /\ unread[c] - 1 \in 0 .. SockCap
      BY <2>16, BoundAssumption DEF ClientRead
    <3>2. /\ unread' = [unread EXCEPT ![c] = unread[c] - 1]
          /\ UNCHANGED <<up, sMutex, mAttached, pc, scan, sClients, mId, client,
                         toSend, inbox, reset>>
      BY <2>16 DEF ClientRead
    <3>3. unread' \in [Session -> 0 .. SockCap]
      BY <3>1, <3>2
    <3> QED
      BY <3>2, <3>3
  <2>17. CASE ClientClose(c)
    BY <2>17 DEF ClientClose
  <2> QED
    BY <1>3, <2>1, <2>2, <2>3, <2>4, <2>5, <2>6, <2>7, <2>8, <2>9, <2>10,
       <2>11, <2>12, <2>13, <2>14, <2>15, <2>16, <2>17
    DEF ThreadStep, ClientStep
<1> QED
  BY <1>1, <1>2, <1>3 DEF Next

\* Every step preserves mutual exclusion: a thread leaves Holding and clears
\* sMutex in one step, and enters it only when sMutex is None.
LEMMA MutexStep ==
  ASSUME IInv, [Next]_vars
  PROVE  MutexInv'
<1> USE DEF IInv, MutexInv, Goto, Holding
<1>1. sMutex \in Session \cup {None} /\ pc \in [Session -> Locations]
  BY DEF TypeOK
<1>2. CASE UNCHANGED <<pc, sMutex>>
  BY <1>2
<1>3. ASSUME NEW c \in Session, Accept(c) \/ ThreadStep(c) \/ ClientStep(c)
      PROVE  MutexInv'
  <2>1. CASE Accept(c)
    BY <1>1, <2>1 DEF Accept
  <2>2. CASE LockMutex(c)
    <3>1. pc' = [pc EXCEPT ![c] = pc'[c]] /\ pc'[c] \in Holding
      BY <1>1, <2>2 DEF LockMutex, Waiting, Locked
    <3>2. sMutex = None /\ sMutex' = c
      BY <2>2 DEF LockMutex
    <3>3. \A d \in Session \ {c} : pc'[d] = pc[d] /\ pc[d] \notin Holding
      BY <1>1, <3>2, <2>2 DEF LockMutex
    <3> QED
      BY <3>1, <3>2, <3>3
  <2>3. CASE Register(c)
    BY <1>1, <2>3 DEF Register, UnlockMutex
  <2>4. CASE SendReply(c)
    <3>1. pc[c] = "send" /\ sMutex' = None /\ pc' = [pc EXCEPT ![c] = "recv"]
      BY <2>4 DEF SendReply, UnlockMutex
    <3> QED
      BY <1>1, <3>1
  <2>5. CASE Unregister(c)
    BY <1>1, <2>5 DEF Unregister, UnlockMutex
  <2>6. CASE Receive(c) \/ Disconnect(c) \/ Answer(c)
    BY <1>1, <2>6 DEF Receive, Disconnect, Answer
  <2>7. CASE AttachEnv(c) \/ ScanHit(c) \/ ScanMiss(c)
    BY <1>1, <2>7 DEF AttachEnv, ScanHit, ScanMiss
  <2>8. CASE ScanNext(c) \/ ScanFault(c) \/ SendBroken(c) \/ ClientStep(c)
    BY <1>2, <2>8 DEF ScanNext, ScanFault, SendBroken, ClientStep, ClientSend,
                      ClientRead, ClientClose
  <2> QED
    BY <1>3, <2>1, <2>2, <2>3, <2>4, <2>5, <2>6, <2>7, <2>8 DEF ThreadStep
<1> QED
  BY <1>2, <1>3 DEF Next, Stopped, vars

-----------------------------------------------------------------------------
\* A step that keeps the table and the set of present sessions keeps the
\* balance; one that moves no session across joining keeps IdGiven.
LEMMA TableKept ==
  ASSUME IInv, UNCHANGED table, PresentSessions' = PresentSessions
  PROVE  IdsBalanced'
<1>1. PICK f \in [DOMAIN sClients -> PresentSessions] : Pairing(f)
  BY DEF IInv, IdsBalanced
<1>2. f \in [DOMAIN sClients' -> PresentSessions'] /\ Pairing(f)'
  BY <1>1 DEF Pairing, table
<1> QED
  BY <1>2 DEF IdsBalanced

\* A session that registers takes the size of the table as its id and is
\* paired with its own entry.
LEMMA RegisterStep ==
  ASSUME IInv, NEW c \in Session, Register(c)
  PROVE  IdGiven' /\ IdsBalanced'
<1>0. PICK n \in Nat : n = Len(sClients)
  BY DEF IInv, TypeOK
<1>1. /\ sClients \in Seq(Session) /\ Len(sClients) = n /\ DOMAIN sClients = 1 .. n
      /\ mId \in [Session -> Nat \cup {NoId}]
      /\ pc \in [Session -> Locations]
  BY <1>0 DEF IInv, TypeOK
<1>2. /\ pc[c] = "join" /\ pc' = [pc EXCEPT ![c] = "recv"]
      /\ mId' = [mId EXCEPT ![c] = n] /\ sClients' = Append(sClients, c)
  BY <1>0 DEF Register, Goto
<1>3. mId[c] = NoId /\ c \notin PresentSessions
  BY <1>2 DEF IInv, IdGiven, NotJoined, PresentSessions, Present, Serving
<1>4. PresentSessions' = PresentSessions \cup {c}
  BY <1>1, <1>2 DEF PresentSessions, Present, Serving
<1>5. IdGiven'
  BY <1>1, <1>2 DEF IInv, IdGiven, NotJoined
<1>6. PICK f \in [1 .. n -> PresentSessions] : Pairing(f)
  BY <1>1 DEF IInv, IdsBalanced
<1>7. \A i \in 1 .. n : /\ sClients[i] \in Session /\ sClients[i] # c
                        /\ f[i] # c /\ mId[sClients[i]] = mId[f[i]]
  <2>1. \A d \in PresentSessions : d \in Session /\ mId[d] # NoId
    BY DEF IInv, IdGiven, PresentSessions, NotJoined, Present, Serving
  <2> QED
    <3>1. \A i \in 1 .. n : f[i] \in PresentSessions /\ mId[sClients[i]] = mId[f[i]]
      BY <1>1, <1>6 DEF Pairing
    <3>2. \A i \in 1 .. n : sClients[i] \in Session
      BY <1>1
    <3> QED
      BY <1>3, <2>1, <3>1, <3>2
<1> DEFINE g == [i \in 1 .. n + 1 |-> IF i = n + 1 THEN c ELSE f[i]]
<1>8. DOMAIN sClients' = 1 .. n + 1 /\ sClients'[n + 1] = c
  BY <1>1, <1>2
<1>9. \A i \in 1 .. n : sClients'[i] = sClients[i]
  BY <1>1, <1>2
<1>10. g \in [DOMAIN sClients' -> PresentSessions']
  BY <1>1, <1>4, <1>6, <1>8
<1>11. Pairing(g)'
  <2>1. \A i, j \in 1 .. n + 1 : g[i] = g[j] => i = j
    <3>1. \A i, j \in 1 .. n : f[i] = f[j] => i = j
      BY <1>1, <1>6 DEF Pairing
    <3>2. \A i \in 1 .. n + 1 : i = n + 1 \/ i \in 1 .. n
      OBVIOUS
    <3> QED
      BY <1>7, <3>1, <3>2
  <2>2. \A d \in PresentSessions' : \E i \in 1 .. n + 1 : g[i] = d
    <3>1. g[n + 1] = c
      BY <1>1
    <3>2. \A i \in 1 .. n : g[i] = f[i] /\ i \in 1 .. n + 1
      BY <1>1
    <3> QED
      BY <1>1, <1>4, <1>6, <3>1, <3>2 DEF Pairing
  <2>3. \A i \in 1 .. n + 1 : mId'[sClients'[i]] = mId'[g[i]]
    <3>1. ASSUME NEW i \in 1 .. n
          PROVE  mId'[sClients'[i]] = mId'[g[i]]
      BY <1>1, <1>2, <1>7, <1>9, <3>1
    <3>2. mId'[sClients'[n + 1]] = mId'[g[n + 1]]
      BY <1>1, <1>8
    <3>3. \A i \in 1 .. n + 1 : i = n + 1 \/ i \in 1 .. n
      OBVIOUS
    <3> QED
      BY <3>1, <3>2, <3>3
  <2> HIDE DEF g
  <2> QED
    BY <1>8, <2>1, <2>2, <2>3 DEF Pairing
<1> HIDE DEF g
<1> QED
  BY <1>5, <1>10, <1>11 DEF IdsBalanced

\* The leaver c erases entry j, the first with its id, which may be paired
\* with another session d.  Entry e, the one paired with c, has the same id
\* and is paired with d from now on.
LEMMA UnregisterStep ==
  ASSUME IInv, NEW c \in Session, Unregister(c)
  PROVE  IdGiven' /\ IdsBalanced'
<1>0. PICK n \in Nat : n = Len(sClients)
  BY DEF IInv, TypeOK
<1>1. PICK j \in 1 .. n : j \in Entries(mId[c]) /\ sClients' = RemoveAt(sClients, j)
  <2>1. FindSessionClientIndex(mId[c]) \in Entries(mId[c])
    <3>1. c \in PresentSessions
      BY DEF Unregister, PresentSessions, Present
    <3> QED
      BY <3>1, LeaverHasEntry, FoundIndex DEF IInv
  <2>2. Entries(mId[c]) \subseteq 1 .. n
    BY <1>0 DEF Entries, IInv, TypeOK
  <2> QED
    BY <2>1, <2>2 DEF Unregister
<1>2. /\ sClients \in Seq(Session) /\ Len(sClients) = n /\ DOMAIN sClients = 1 .. n
      /\ pc \in [Session -> Locations]
  BY <1>0 DEF IInv, TypeOK
<1>3. pc[c] = "leave" /\ pc' = [pc EXCEPT ![c] = "done"] /\ mId' = mId
  BY DEF Unregister, Goto
<1>4. c \in PresentSessions /\ PresentSessions' = PresentSessions \ {c}
  BY <1>2, <1>3 DEF PresentSessions, Present, Serving
<1>5. IdGiven'
  BY <1>2, <1>3 DEF IInv, IdGiven, NotJoined
<1>6. PICK f \in [1 .. n -> PresentSessions] : Pairing(f)
  BY <1>2 DEF IInv, IdsBalanced
<1>7. /\ \A i, k \in 1 .. n : f[i] = f[k] => i = k
      /\ \A d \in PresentSessions : \E i \in 1 .. n : f[i] = d
      /\ \A i \in 1 .. n : mId[sClients[i]] = mId[f[i]]
  BY <1>2, <1>6 DEF Pairing
<1>8. PICK e \in 1 .. n : f[e] = c
  BY <1>4, <1>7
<1>9. mId[sClients[e]] = mId[f[j]] /\ mId[f[j]] = mId[c]
  BY <1>1, <1>7, <1>8 DEF Entries
\* The pairing with e and j exchanged, then closed up over the gap at j.
<1> DEFINE h == [i \in 1 .. n |-> IF i = e THEN f[j] ELSE f[i]]
           to(i) == IF i < j THEN i ELSE i + 1
           g == [i \in 1 .. n - 1 |-> h[to(i)]]
<1>10. \A i \in 1 .. n : i # j => /\ h[i] \in PresentSessions \ {c}
                                 /\ mId[sClients[i]] = mId[h[i]]
  BY <1>6, <1>7, <1>8, <1>9
<1>11. \A i, k \in 1 .. n : i # j /\ k # j /\ h[i] = h[k] => i = k
  BY <1>6, <1>7, <1>8
<1>12. \A d \in PresentSessions \ {c} : \E i \in 1 .. n : i # j /\ h[i] = d
  <2> SUFFICES ASSUME NEW d \in PresentSessions \ {c}
               PROVE  \E i \in 1 .. n : i # j /\ h[i] = d
    OBVIOUS
  <2>1. PICK k \in 1 .. n : f[k] = d
    BY <1>7
  <2>2. k # e
    BY <1>8, <2>1
  <2>3. CASE k = j
    <3>1. e # j /\ h[e] = d
      BY <2>1, <2>2, <2>3
    <3> QED
      BY <3>1
  <2>4. CASE k # j
    <3>1. h[k] = d
      BY <2>1, <2>2
    <3> QED
      BY <2>4, <3>1
  <2> QED
    BY <2>3, <2>4
<1> HIDE DEF h
<1>13. \A i \in 1 .. n - 1 : to(i) \in 1 .. n /\ to(i) # j
  OBVIOUS
<1>14. \A i, k \in 1 .. n - 1 : to(i) = to(k) => i = k
  OBVIOUS
<1>15. \A k \in 1 .. n : k # j => \E i \in 1 .. n - 1 : to(i) = k
  <2> SUFFICES ASSUME NEW k \in 1 .. n, k # j
               PROVE  \E i \in 1 .. n - 1 : to(i) = k
    OBVIOUS
  <2>1. CASE k < j
    <3>1. k \in 1 .. n - 1 /\ to(k) = k
      BY <2>1
    <3> QED
      BY <3>1
  <2>2. CASE ~(k < j)
    <3>1. k - 1 \in 1 .. n - 1 /\ to(k - 1) = k
      BY <2>2
    <3> QED
      BY <3>1
  <2> QED
    BY <2>1, <2>2
<1>16. /\ DOMAIN sClients' = 1 .. n - 1
       /\ \A i \in 1 .. n - 1 : sClients'[i] = sClients[to(i)]
  <2>1. j \in 1 .. Len(sClients)
    BY <1>2
  <2>2. /\ sClients' \in Seq(Session) /\ Len(sClients') = n - 1
        /\ \A i \in 1 .. n - 1 : sClients'[i] = sClients[to(i)]
    BY <1>1, <1>2, <2>1, Erased
  <2> QED
    BY <2>2
<1> HIDE DEF to
<1>17. \A i \in 1 .. n - 1 : g[i] = h[to(i)]
  OBVIOUS
<1>18. g \in [DOMAIN sClients' -> PresentSessions']
  BY <1>4, <1>10, <1>13, <1>16
<1> HIDE DEF g
<1>19. Pairing(g)'
  <2>1. \A i, k \in 1 .. n - 1 : g[i] = g[k] => i = k
    BY <1>11, <1>13, <1>14, <1>17
  <2>2. \A d \in PresentSessions' : \E i \in 1 .. n - 1 : g[i] = d
    BY <1>4, <1>12, <1>15, <1>17
  <2>3. \A i \in 1 .. n - 1 : mId'[sClients'[i]] = mId'[g[i]]
    BY <1>3, <1>10, <1>13, <1>16, <1>17
  <2> QED
    BY <1>16, <2>1, <2>2, <2>3 DEF Pairing
<1> QED
  BY <1>5, <1>18, <1>19 DEF IdsBalanced

-----------------------------------------------------------------------------
\* Every step preserves the ids and their balance.
LEMMA IdStep ==
  ASSUME IInv, [Next]_vars
  PROVE  IdGiven' /\ IdsBalanced'
<1>1. pc \in [Session -> Locations]
  BY DEF IInv, TypeOK
<1>2. ASSUME UNCHANGED table,
             \A c \in Session : pc'[c] \in Present <=> pc[c] \in Present,
             \A c \in Session : pc'[c] \in NotJoined <=> pc[c] \in NotJoined
      PROVE  IdGiven' /\ IdsBalanced'
  <2>1. PresentSessions' = PresentSessions
    <3>1. \A c \in Session : pc'[c] \in Present <=> pc[c] \in Present
      BY <1>2, Zenon
    <3> QED
      BY <3>1, Zenon DEF PresentSessions
  <2>2. IdGiven'
    <3>1. mId' = mId
      BY <1>2 DEF table
    <3>2. \A c \in Session : pc'[c] \in NotJoined <=> pc[c] \in NotJoined
      BY <1>2, Zenon
    <3> QED
      BY <3>1, <3>2 DEF IInv, IdGiven
  <2> QED
    BY <1>2, <2>1, <2>2, TableKept
<1>3. CASE UNCHANGED <<table, pc>>
  BY <1>2, <1>3
<1>4. ASSUME NEW c \in Session, Accept(c) \/ ThreadStep(c) \/ ClientStep(c)
      PROVE  IdGiven' /\ IdsBalanced'
  <2> USE DEF Goto, Present, Serving, NotJoined
  <2>1. CASE Accept(c)
    BY <1>1, <1>2, <2>1 DEF Accept
  <2>2. CASE LockMutex(c)
    <3>1. pc' = [pc EXCEPT ![c] = Locked[pc[c]]] /\ UNCHANGED table
      BY <2>2 DEF LockMutex
    <3>2. \/ pc[c] = "joining" /\ pc'[c] = "join"
          \/ pc[c] = "replying" /\ pc'[c] = "send"
          \/ pc[c] = "leaving" /\ pc'[c] = "leave"
      BY <1>1, <2>2, <3>1 DEF LockMutex, Waiting, Locked
    <3> QED
      BY <1>1, <1>2, <3>1, <3>2
  <2>3. CASE Register(c)
    BY <2>3, RegisterStep
  <2>4. CASE Unregister(c)
    BY <2>4, UnregisterStep
  <2>5. CASE Receive(c) \/ Disconnect(c) \/ Answer(c)
    BY <1>1, <1>2, <2>5 DEF Receive, Disconnect, Answer
  <2>6. CASE AttachEnv(c) \/ ScanHit(c) \/ ScanMiss(c)
    BY <1>1, <1>2, <2>6 DEF AttachEnv, ScanHit, ScanMiss
  <2>7. CASE SendReply(c)
    <3>1. pc[c] = "send" /\ UNCHANGED table /\ pc' = [pc EXCEPT ![c] = "recv"]
      BY <2>7 DEF SendReply
    <3> QED
      BY <1>1, <1>2, <3>1
  <2>8. CASE ScanNext(c) \/ ScanFault(c) \/ SendBroken(c) \/ ClientStep(c)
    BY <1>3, <2>8 DEF ScanNext, ScanFault, SendBroken, ClientStep, ClientSend,
                      ClientRead, ClientClose
  <2> QED
    BY <1>4, <2>1, <2>2, <2>3, <2>4, <2>5, <2>6, <2>7, <2>8 DEF ThreadStep
<1> QED
  BY <1>3, <1>4 DEF Next, Stopped, vars

-----------------------------------------------------------------------------
\* The invariant is inductive.
LEMMA IInvariant == Spec => []IInv
<1>1. IInv /\ [Next]_vars => IInv'
  BY TypeStep, MutexStep, IdStep DEF IInv
<1> QED
  BY InitIInv, <1>1, PTL DEF Spec

\* The state of the table, the mutex and the sessions stays well typed.
THEOREM TypeCorrect == Spec => []TypeOK
<1>1. IInv => TypeOK
  BY DEF IInv
<1> QED
  BY IInvariant, <1>1, PTL

\* LockMutex and UnlockMutex of sthread.cpp bracket every change of the table
\* and every send: two session threads are never inside at once.
THEOREM MutualExclusion == Spec => []MutexInv
<1>1. IInv => MutexInv
  BY DEF IInv
<1> QED
  BY IInvariant, <1>1, PTL

\* The ids in the table are those of the present sessions, each as often,
\* whichever entries HandleSessionClient erased.
THEOREM TableBalanced == Spec => []IdsBalanced
<1>1. IInv => IdsBalanced
  BY DEF IInv
<1> QED
  BY IInvariant, <1>1, PTL

\* HandleSessionClient never indexes the table with -1.
THEOREM LeaverIsFound == Spec => []LeaverFound
<1>1. IInv => LeaverFound
  <2> SUFFICES ASSUME IInv, NEW c \in Session, pc[c] = "leave"
               PROVE  Entries(mId[c]) # {}
    BY DEF LeaverFound
  <2>1. c \in PresentSessions
    BY DEF PresentSessions, Present
  <2> QED
    BY <2>1, LeaverHasEntry DEF IInv
<1> QED
  BY IInvariant, <1>1, PTL

-----------------------------------------------------------------------------
\* A step of the table is a step of SessionIds or a stutter.
LEMMA ImplStep ==
  ASSUME IInv, [Next]_vars
  PROVE  [Ids!Next]_(Ids!vars)
<1>1. pc \in [Session -> Locations] /\ mId \in [Session -> Nat \cup {NoId}]
  BY DEF IInv, TypeOK
<1>2. ASSUME UNCHANGED table,
             \A c \in Session : pc'[c] \in Present <=> pc[c] \in Present
      PROVE  UNCHANGED Ids!vars
  <2>1. PresentSessions' = PresentSessions
    BY <1>2, Zenon DEF PresentSessions
  <2> QED
    BY <1>2, <2>1 DEF Ids!vars, table
<1>3. CASE UNCHANGED <<table, pc>>
  BY <1>2, <1>3
<1>4. ASSUME NEW c \in Session, Accept(c) \/ ThreadStep(c) \/ ClientStep(c)
      PROVE  [Ids!Next]_(Ids!vars)
  <2> USE DEF Goto, Present, Serving
  <2>1. CASE Accept(c)
    BY <1>1, <1>2, <2>1 DEF Accept
  <2>2. CASE LockMutex(c)
    <3>1. pc' = [pc EXCEPT ![c] = Locked[pc[c]]] /\ UNCHANGED table
      BY <2>2 DEF LockMutex
    <3>2. \/ pc[c] = "joining" /\ pc'[c] = "join"
          \/ pc[c] = "replying" /\ pc'[c] = "send"
          \/ pc[c] = "leaving" /\ pc'[c] = "leave"
      BY <1>1, <2>2, <3>1 DEF LockMutex, Waiting, Locked
    <3> QED
      BY <1>1, <1>2, <3>1, <3>2
  <2>3. CASE Register(c)
    <3>1. mId[c] = NoId
      BY <2>3 DEF Register, IInv, IdGiven, NotJoined
    <3>2. Len(sClients) = Cardinality(PresentSessions)
      BY TableSize DEF IInv
    <3>3. mId' = [mId EXCEPT ![c] = Cardinality(PresentSessions)]
      BY <2>3, <3>2 DEF Register
    <3>4. PresentSessions' = PresentSessions \cup {c}
      BY <1>1, <2>3 DEF Register, PresentSessions
    <3>5. Ids!Cardinality(PresentSessions) = Cardinality(PresentSessions)
      BY Zenon DEF Ids!Cardinality, Cardinality
    <3>6. Ids!Join(c)
      BY <3>1, <3>3, <3>4, <3>5 DEF Ids!Join, Ids!NoId
    <3> QED
      BY <3>6 DEF Ids!Next
  <2>4. CASE Unregister(c)
    <3>1. c \in PresentSessions /\ PresentSessions' = PresentSessions \ {c}
      BY <1>1, <2>4 DEF Unregister, PresentSessions
    <3>2. Ids!Leave(c)
      BY <2>4, <3>1 DEF Unregister, Ids!Leave
    <3> QED
      BY <3>2 DEF Ids!Next
  <2>5. CASE Receive(c) \/ Disconnect(c) \/ Answer(c)
    BY <1>1, <1>2, <2>5 DEF Receive, Disconnect, Answer
  <2>6. CASE AttachEnv(c) \/ ScanHit(c) \/ ScanMiss(c)
    BY <1>1, <1>2, <2>6 DEF AttachEnv, ScanHit, ScanMiss
  <2>7. CASE SendReply(c)
    <3>1. pc[c] = "send" /\ UNCHANGED table /\ pc' = [pc EXCEPT ![c] = "recv"]
      BY <2>7 DEF SendReply
    <3> QED
      BY <1>1, <1>2, <3>1
  <2>8. CASE ScanNext(c) \/ ScanFault(c) \/ SendBroken(c) \/ ClientStep(c)
    BY <1>3, <2>8 DEF ScanNext, ScanFault, SendBroken, ClientStep, ClientSend,
                      ClientRead, ClientClose
  <2> QED
    BY <1>4, <2>1, <2>2, <2>3, <2>4, <2>5, <2>6, <2>7, <2>8 DEF ThreadStep
<1> QED
  BY <1>3, <1>4 DEF Next, Stopped, vars

\* The table of sessions gives out ids as SessionIds does: although an erasure
\* may take the entry of another session, the id given at registration is the
\* number of sessions whose connection has not been torn down.
THEOREM RegistryImplementsIds == Spec => ImplementsIds
<1>1. Init => Ids!Init
  BY DEF Init, Ids!Init, Ids!NoId, PresentSessions, Present, Serving
<1> QED
  BY IInvariant, <1>1, ImplStep, PTL DEF Spec, ImplementsIds, Ids!Spec
=============================================================================
