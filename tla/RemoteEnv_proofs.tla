-------------------------- MODULE RemoteEnv_proofs --------------------------
(* Proofs about the remote environment agent: types, and what its proxies, *)
(* its root and the remote server keep through failures and restarts.      *)
EXTENDS RemoteEnv, TLAPS

USE ConstantsAssumption

\* The mutations still to be looked at fit in the chromo, and no request of one
\* is under way without it.
MutationsFit ==
  /\ iChromo + Len(todo) =< MaxChromo
  /\ added # "no" => todo # <<>> /\ Head(todo) = [type |-> "node", when |-> "now"]

Types == TypeOK /\ MutationsFit /\ \A px \in proxies : Len(px) > 0

\* Nothing has been made before the connection, which is made once.
Unconnected == link = "fresh" => proxies = {} /\ mRroot = None /\ added = "no"

\* A session without an environment has answered no object.
NoContexts == \A u \in Uid : rCtx[u] = None
EnvFirst   == rEnv # "published" => NoContexts

\* Between the two requests of AddElemRmt the environment that the first one
\* made has answered nothing; and a session whose environment the agent has the
\* root of has one.
RootFirst ==
  link = "up" =>
    /\ added = "ok" => rEnv = "published" /\ NoContexts /\ mRroot = None
    /\ mRroot # None => rEnv = "published"

\* The inductive invariant.
IInv == Types /\ Unconnected /\ EnvFirst /\ RootFirst /\ ProxiesResolve

-----------------------------------------------------------------------------
\* The invariant holds when the agent is made.
LEMMA InitIInv == Init => IInv
<1> SUFFICES ASSUME Init PROVE IInv
  OBVIOUS
<1>1. Types
  <2>1. /\ mRenvUri \in Uri \cup {None} /\ accepted \in BOOLEAN
        /\ mRroot \in Context \cup {None} /\ proxies \subseteq Seq(Context)
        /\ rUp \in BOOLEAN /\ rEnv = "none" /\ rCtx \in [Uid -> Node \cup {None}]
        /\ link = "fresh" /\ fate = "runs" /\ added = "no"
    BY DEF Init
  <2>2. todo \in Seq(Mutation) /\ Len(todo) = 0 /\ flags \in Flags /\ iChromo = 0
    BY DEF Init, Flags
  <2>3. uid \in [Node -> Uid] /\ proxies = {}
    BY DEF Init
  <2> QED
    BY <2>1, <2>2, <2>3 DEF Types, TypeOK, MutationsFit
<1> QED
  BY <1>1 DEF Init, IInv, Unconnected, EnvFirst, NoContexts, RootFirst, ProxiesResolve

\* The head of the mutations is one, and the rest is a row of mutations.
LEMMA Rest ==
  ASSUME TypeOK, todo # <<>>
  PROVE  /\ Head(todo) \in Mutation /\ Tail(todo) \in Seq(Mutation)
         /\ Len(Tail(todo)) = Len(todo) - 1 /\ Len(todo) \in Nat /\ Len(todo) > 0
<1>1. todo \in Seq(Mutation)
  BY DEF TypeOK
<1> QED
  BY <1>1

\* The chain of a proxy's proxy.
LEMMA NewProxy ==
  ASSUME Types, NEW px \in proxies, NEW c \in Context
  PROVE  /\ Append(px, c) \in Seq(Context) /\ Len(Append(px, c)) > 0
         /\ Last(Append(px, c)) = c
<1>1. px \in Seq(Context)
  BY DEF Types, TypeOK
<1> QED
  BY <1>1 DEF Last

\* What finding an element does to the session: it ends, or it has one context
\* more.
LEMMA Found ==
  ASSUME TypeOK, NEW n \in Node, Finds(n)
  PROVE  /\ rUp' \in BOOLEAN /\ rEnv' \in {rEnv, "none"}
         /\ rCtx' \in [Uid -> Node \cup {None}]
         /\ link' \in {link, "dead"} /\ fate' \in {fate, "thrown"}
         /\ \/ ~rUp' /\ rEnv' = "none" /\ NoContexts' /\ (link = "up" => link' = "dead")
               /\ ~NoContexts
            \/ /\ UNCHANGED <<rUp, rEnv, link, fate>>
               /\ rCtx'[uid[n]] # None
               /\ \A u \in Uid : rCtx[u] # None => rCtx'[u] # None
<1>1. /\ uid \in [Node -> Uid] /\ uid[n] \in Uid /\ rCtx \in [Uid -> Node \cup {None}]
      /\ rUp \in BOOLEAN /\ n # None
  BY DEF TypeOK
<1>2. CASE rCtx[uid[n]] # None
  <2>1. Gone /\ fate' = "thrown"
    BY <1>2 DEF Finds
  <2>2. rUp' = FALSE /\ rEnv' = "none" /\ rCtx' = [u \in Uid |-> None]
    BY <2>1 DEF Gone
  <2>3. link' = IF link = "up" THEN "dead" ELSE link
    BY <2>1 DEF Gone
  <2> QED
    BY <1>1, <1>2, <2>1, <2>2, <2>3 DEF NoContexts
<1>3. CASE rCtx[uid[n]] = None
  <2>1. rCtx' = [rCtx EXCEPT ![uid[n]] = n] /\ UNCHANGED <<rUp, rEnv, link, fate>>
    BY <1>3 DEF Finds
  <2> QED
    BY <1>1, <2>1
<1> QED
  BY <1>2, <1>3

\* A request on a connection that is not up changes nothing but what has become
\* of the connection and of the process.
LEMMA FailsStep ==
  ASSUME IInv, Fails
  PROVE  IInv'
<1>1. /\ UNCHANGED <<mRenvUri, accepted, mRroot, proxies, todo, flags, added, iChromo,
                    rUp, rEnv, rCtx, uid>>
      /\ link # "up" /\ link' \in {"fresh", "dead", "reset"}
      /\ link' = "fresh" => link = "fresh"
      /\ fate' \in {"thrown", "killed"}
  <2>1. link \in {"fresh", "up", "dead", "reset"}
    BY DEF IInv, Types, TypeOK
  <2> QED
    BY <2>1 DEF Fails, muting, remote, session
<1>2. Types'
  BY <1>1 DEF IInv, Types, TypeOK, MutationsFit
<1>3. Unconnected' /\ EnvFirst' /\ RootFirst' /\ ProxiesResolve'
  BY <1>1 DEF IInv, Unconnected, EnvFirst, NoContexts, RootFirst, ProxiesResolve
<1> QED
  BY <1>2, <1>3 DEF IInv

\* A step that leaves the session, the connection and what was made alone.
LEMMA LocalStep ==
  ASSUME IInv, Types',
         UNCHANGED <<link, mRroot, proxies, rEnv, rCtx>>,
         added' = added \/ added' = "no"
  PROVE  IInv'
<1>1. Unconnected' /\ EnvFirst' /\ RootFirst'
  BY DEF IInv, Unconnected, EnvFirst, NoContexts, RootFirst
<1>2. ProxiesResolve'
  BY DEF IInv, ProxiesResolve, Target
<1> QED
  BY <1>1, <1>2 DEF IInv

-----------------------------------------------------------------------------
\* The agent's own steps: the content, and the mutations that need no request.
\* A change of the content connects a fresh agent, which has made nothing.
LEMMA SetContStep ==
  ASSUME IInv, NEW val \in Uri, SetCont(val),
         UNCHANGED <<mRroot, proxies, fate, flags, iChromo, remote>>,
         todo' \in Seq(Mutation), iChromo + Len(todo') =< MaxChromo, added' = "no"
  PROVE  IInv'
<1>1. /\ UNCHANGED <<mRroot, proxies, fate, flags, iChromo, rUp, rEnv, rCtx, uid>>
      /\ mRenvUri' \in {mRenvUri, val} /\ accepted' \in BOOLEAN
      /\ link' = link \/ (link = "fresh" /\ link' = "up")
  <2>1. CASE val = mRenvUri
    BY <2>1 DEF SetCont, remote, session
  <2>2. CASE val # mRenvUri
    <3> DEFINE connects == rUp /\ link = "fresh"
    <3>1. /\ mRenvUri' = val /\ accepted' = connects
          /\ link' = IF connects THEN "up" ELSE link
      BY <2>2 DEF SetCont
    <3>2. connects \in BOOLEAN
      BY DEF IInv, Types, TypeOK
    <3> QED
      BY <3>1, <3>2 DEF remote, session
  <2> QED
    BY <2>1, <2>2
<1>2. Types'
  BY <1>1 DEF IInv, Types, TypeOK, MutationsFit
<1>3. CASE link' = link
  BY <1>1, <1>2, <1>3, LocalStep
<1>4. CASE link = "fresh" /\ link' = "up"
  <2>1. proxies = {} /\ mRroot = None
    BY <1>4 DEF IInv, Unconnected
  <2>2. Unconnected' /\ EnvFirst' /\ RootFirst' /\ ProxiesResolve'
    BY <1>1, <1>4, <2>1
    DEF IInv, Unconnected, EnvFirst, NoContexts, RootFirst, ProxiesResolve
  <2> QED
    BY <1>2, <2>2 DEF IInv
<1> QED
  BY <1>1, <1>3, <1>4

LEMMA ChangeContStep ==
  ASSUME IInv, NEW val \in Uri, ChangeCont(val)
  PROVE  IInv'
<1>1. /\ SetCont(val) /\ todo = <<>>
      /\ UNCHANGED <<mRroot, proxies, fate, todo, flags, added, iChromo, remote>>
  BY DEF ChangeCont, Idle, muting
<1>2. todo' \in Seq(Mutation) /\ iChromo + Len(todo') =< MaxChromo /\ added' = "no"
  BY <1>1 DEF IInv, Types, TypeOK, MutationsFit
<1> QED
  BY <1>1, <1>2, SetContStep

LEMMA MutationStep ==
  ASSUME IInv,
         \/ \E spec \in BoundedSeq(Mutation, MaxSpec), fl \in Flags : DoMutation(spec, fl)
         \/ Skip \/ ApplyOther \/ Caught
  PROVE  IInv'
<1>0. /\ todo \in Seq(Mutation) /\ Len(todo) \in Nat /\ iChromo \in 0 .. MaxChromo
      /\ iChromo + Len(todo) =< MaxChromo /\ MaxChromo \in Nat /\ flags \in Flags
      /\ fate \in {"runs", "thrown", "killed"} /\ TypeOK
  BY DEF IInv, Types, TypeOK, MutationsFit
<1>1. /\ added # "no" => todo # <<>> /\ Head(todo) = [type |-> "node", when |-> "now"]
  BY DEF IInv, Types, MutationsFit
<1>2. ASSUME UNCHANGED <<mRenvUri, accepted, link, mRroot, proxies, rUp, rEnv, rCtx, uid>>,
             fate' \in {"runs", "thrown", "killed"},
             todo' \in Seq(Mutation), flags' \in Flags,
             added' = "no",
             iChromo' \in 0 .. MaxChromo, iChromo' + Len(todo') =< MaxChromo
      PROVE  IInv'
  <2>1. TypeOK'
    BY <1>0, <1>2 DEF TypeOK
  <2>2. Types'
    BY <1>2, <2>1 DEF IInv, Types, MutationsFit
  <2> QED
    BY <1>2, <2>2, LocalStep
<1>3. ASSUME NEW spec \in BoundedSeq(Mutation, MaxSpec), NEW fl \in Flags, DoMutation(spec, fl)
      PROVE  IInv'
  <2>1. spec \in Seq(Mutation)
    BY DEF BoundedSeq, SeqOf
  <2>2. /\ todo = <<>> /\ iChromo + Len(spec) =< MaxChromo /\ todo' = spec /\ flags' = fl
        /\ UNCHANGED <<added, iChromo, fate>>
        /\ UNCHANGED <<mRenvUri, accepted, link, mRroot, proxies, rUp, rEnv, rCtx, uid>>
    BY <1>3 DEF DoMutation, Idle, agent, remote, session
  <2> QED
    BY <1>0, <1>1, <1>2, <2>1, <2>2
<1>4. CASE Skip
  <2>1. /\ todo # <<>> /\ Head(todo).when # "now" /\ todo' = Tail(todo)
        /\ UNCHANGED <<flags, added, fate>>
        /\ UNCHANGED <<mRenvUri, accepted, link, mRroot, proxies, rUp, rEnv, rCtx, uid>>
    BY <1>4 DEF Skip, agent, remote, session
  <2>2. iChromo' = iChromo \/ iChromo' = iChromo + 1
    BY <1>4 DEF Skip
  <2>3. todo' \in Seq(Mutation) /\ Len(todo') = Len(todo) - 1 /\ Len(todo) > 0
    BY <1>0, <2>1, Rest
  <2>4. iChromo' \in 0 .. MaxChromo /\ iChromo' + Len(todo') =< MaxChromo
    BY <1>0, <2>2, <2>3
  <2>5. added' = "no"
    BY <1>1, <2>1
  <2> QED
    BY <1>0, <1>2, <2>1, <2>3, <2>4, <2>5
<1>5. CASE ApplyOther
  <2>1. /\ todo # <<>> /\ Head(todo) = [type |-> "other", when |-> "now"]
        /\ todo' = Tail(todo)
        /\ UNCHANGED <<mRroot, proxies, fate, flags, added, iChromo, remote>>
    BY <1>5 DEF ApplyOther
  <2>2. todo' \in Seq(Mutation) /\ Len(todo') = Len(todo) - 1 /\ Len(todo) > 0
    BY <1>0, <2>1, Rest
  <2>3. added' = "no"
    <3>1. Head(todo).type = "other"
      BY <2>1
    <3> QED
      BY <1>1, <2>1, <3>1
  <2>4. CASE UNCHANGED <<mRenvUri, accepted, link>>
    <3>1. UNCHANGED <<mRroot, proxies, rUp, rEnv, rCtx, uid>>
      BY <2>1 DEF remote, session
    <3> QED
      BY <1>0, <1>2, <2>1, <2>2, <2>3, <2>4, <3>1
  <2>5. ASSUME NEW val \in Uri, SetCont(val)
        PROVE  IInv'
    <3>1. iChromo + Len(todo') =< MaxChromo
      BY <1>0, <2>2
    <3> QED
      BY <2>1, <2>2, <2>3, <2>5, <3>1, SetContStep
  <2> QED
    BY <1>5, <2>4, <2>5 DEF ApplyOther
<1>6. CASE Caught
  <2>1. /\ todo' = <<>> /\ added' = "no" /\ fate' = "runs" /\ UNCHANGED <<flags, iChromo>>
        /\ UNCHANGED <<mRenvUri, accepted, link, mRroot, proxies, rUp, rEnv, rCtx, uid>>
    BY <1>6 DEF Caught, agent, remote, session
  <2>2. todo' \in Seq(Mutation) /\ Len(todo') = 0
    BY <2>1
  <2> QED
    BY <1>0, <1>2, <2>1, <2>2
<1> QED
  BY <1>3, <1>4, <1>5, <1>6

-----------------------------------------------------------------------------
\* The requests.
LEMMA CreateRemoteEnvStep ==
  ASSUME IInv, CreateRemoteEnv
  PROVE  IInv'
<1>1. CASE Fails
  BY <1>1, FailsStep
<1>2. CASE ~Fails
  <2>1. /\ link = "up" /\ added = "no" /\ todo # <<>>
        /\ Head(todo) = [type |-> "node", when |-> "now"]
        /\ UNCHANGED <<mRenvUri, accepted, link, mRroot, proxies, fate, todo, flags,
                       iChromo, rUp, rCtx, uid>>
    BY <1>2 DEF CreateRemoteEnv, Adding, agent
  <2>2. added' = IF rEnv = "none" /\ rEnv' = "published" THEN "ok" ELSE "error"
    BY <1>2 DEF CreateRemoteEnv
  <2>3. \/ rEnv = "none" /\ rEnv' \in {"none", "broken", "published"}
        \/ rEnv # "none" /\ rEnv' = rEnv
    BY <1>2 DEF CreateRemoteEnv
  <2>4. TypeOK'
    BY <2>1, <2>2, <2>3 DEF IInv, Types, TypeOK
  <2>5. Types'
    BY <2>1, <2>4 DEF IInv, Types, MutationsFit
  <2>6. Unconnected' /\ EnvFirst'
    BY <2>1, <2>3 DEF IInv, Unconnected, EnvFirst, NoContexts
  <2>7. RootFirst'
    BY <2>1, <2>2, <2>3 DEF IInv, EnvFirst, NoContexts, RootFirst
  <2>8. ProxiesResolve'
    BY <2>1 DEF IInv, ProxiesResolve, Target
  <2> QED
    BY <2>5, <2>6, <2>7, <2>8 DEF IInv
<1> QED
  BY <1>1, <1>2

\* The second request is never answered by the end of the server.
LEMMA RootIsNew ==
  ASSUME IInv, link = "up", added = "ok", Finds(RootNode)
  PROVE  /\ UNCHANGED <<rUp, rEnv, link, fate>>
         /\ rCtx' \in [Uid -> Node \cup {None}] /\ rCtx'[uid[RootNode]] # None
         /\ \A u \in Uid : rCtx[u] # None => rCtx'[u] # None
<1>1. NoContexts /\ TypeOK
  BY DEF IInv, RootFirst, Types
<1> QED
  BY <1>1, Found

\* A step by which the session ends, and the connection with it.
LEMMA GoneStep ==
  ASSUME IInv, Types', link' # "up", link' = "fresh" => link = "fresh",
         UNCHANGED <<mRroot, proxies>>, added' = added \/ added' = "no",
         NoContexts', rEnv' = "none"
  PROVE  IInv'
<1>1. Unconnected'
  BY DEF IInv, Unconnected
<1>2. EnvFirst' /\ RootFirst' /\ ProxiesResolve'
  BY DEF EnvFirst, NoContexts, RootFirst, ProxiesResolve
<1> QED
  BY <1>1, <1>2 DEF IInv

LEMMA GetRemoteRootStep ==
  ASSUME IInv, GetRemoteRoot
  PROVE  IInv' /\ (rUp => rUp') /\ (mRroot # None => mRroot' = mRroot)
<1>1. CASE Fails
  <2>1. UNCHANGED <<rUp, mRroot>>
    BY <1>1 DEF Fails, remote, session
  <2> QED
    BY <1>1, <2>1, FailsStep
<1>2. CASE ~Fails
  <2>0. /\ link = "up" /\ added # "no" /\ added' = "no" /\ todo' = Tail(todo)
        /\ todo # <<>> /\ UNCHANGED <<mRenvUri, accepted, flags, iChromo, uid>>
    BY <1>2 DEF GetRemoteRoot, Adding
  <2>1. /\ TypeOK /\ iChromo \in 0 .. MaxChromo /\ MaxChromo \in Nat
        /\ iChromo + Len(todo) =< MaxChromo
        /\ proxies \subseteq Seq(Context) /\ \A px \in proxies : Len(px) > 0
        /\ uid \in [Node -> Uid] /\ uid[RootNode] \in Context /\ uid[RootNode] \in Uid
        /\ NoObject \in Context /\ NoObject # uid[RootNode]
    BY DEF IInv, Types, TypeOK, MutationsFit, Context, NoObject
  <2>2. /\ todo' \in Seq(Mutation) /\ iChromo' + Len(todo') =< MaxChromo
    BY <2>0, <2>1, Rest
  <2>3. Types /\ RootFirst /\ EnvFirst /\ ProxiesResolve
    BY DEF IInv
  <2>4. ASSUME UNCHANGED <<rUp, rEnv, link, fate>>,
               rCtx' \in [Uid -> Node \cup {None}],
               \A u \in Uid : rCtx[u] # None => rCtx'[u] # None,
               rEnv # "published" => UNCHANGED rCtx,
               NEW c \in Context, c # NoObject => rCtx'[c] # None,
               \/ UNCHANGED <<mRroot, proxies>>
               \/ /\ rEnv = "published"
                  /\ mRroot' = c /\ proxies' = proxies \cup {<<c>>}
        PROVE  IInv'
    <3>0. <<c>> \in Seq(Context) /\ Len(<<c>>) = 1 /\ Last(<<c>>) = c
      BY DEF Last
    <3>1. TypeOK'
      BY <2>0, <2>1, <2>2, <2>4, <3>0 DEF TypeOK
    <3>2. Types'
      <4>1. MutationsFit'
        <5>1. iChromo' + Len(todo') =< MaxChromo /\ added' = "no"
          BY <2>0, <2>2
        <5> QED
          BY <5>1 DEF MutationsFit
      <4>2. \A px \in proxies' : Len(px) > 0
        <5> SUFFICES ASSUME NEW px \in proxies' PROVE Len(px) > 0
          OBVIOUS
        <5>1. CASE px \in proxies
          BY <2>1, <5>1
        <5>2. CASE px = <<c>>
          BY <3>0, <5>2
        <5> QED
          BY <2>4, <5>1, <5>2
      <4> QED
        BY <3>1, <4>1, <4>2 DEF Types
    <3>3. Unconnected' /\ EnvFirst' /\ RootFirst'
      BY <2>0, <2>3, <2>4 DEF Unconnected, EnvFirst, NoContexts, RootFirst
    <3>4. \A px \in proxies : Last(px) # NoObject => Last(px) \in Uid /\ rCtx[Last(px)] # None
      <4>1. \A px \in proxies : Last(px) \in Context
        BY <2>1 DEF Last
      <4> QED
        BY <2>0, <2>3, <4>1 DEF ProxiesResolve, Target, Context
    <3>5. ProxiesResolve'
      BY <2>4, <3>0, <3>4 DEF ProxiesResolve, Target
    <3> QED
      BY <3>2, <3>3, <3>5 DEF IInv
  <2>5. added = "ok" => rEnv = "published" /\ mRroot = None
    BY <2>0, <2>3 DEF RootFirst
  <2>6. CASE added = "ok" /\ Finds(RootNode)
             /\ IF rUp'
                THEN /\ mRroot' = uid[RootNode]
                     /\ proxies' = proxies \cup {<<uid[RootNode]>>}
                ELSE UNCHANGED <<mRroot, proxies>>
    <3>1. /\ UNCHANGED <<rUp, rEnv, link, fate>>
          /\ rCtx' \in [Uid -> Node \cup {None}] /\ rCtx'[uid[RootNode]] # None
          /\ \A u \in Uid : rCtx[u] # None => rCtx'[u] # None
      BY <2>0, <2>6, RootIsNew
    <3>2. IInv'
      BY <2>1, <2>4, <2>5, <2>6, <3>1
    <3> QED
      BY <2>5, <2>6, <3>1, <3>2
  <2>7. CASE /\ added = "ok" /\ mRroot' = NoObject
             /\ proxies' = proxies \cup {<<NoObject>>}
             /\ UNCHANGED <<fate, session, link>>
    <3>1. UNCHANGED <<rUp, rEnv, rCtx, link, fate>> /\ rCtx \in [Uid -> Node \cup {None}]
      BY <2>1, <2>7 DEF session, TypeOK
    <3>2. IInv'
      BY <2>1, <2>4, <2>5, <2>7, <3>1
    <3> QED
      BY <2>5, <2>7, <3>1, <3>2
  <2>8. CASE UNCHANGED <<mRroot, proxies, fate, session, link>>
    <3>1. UNCHANGED <<rUp, rEnv, rCtx, link, fate>> /\ rCtx \in [Uid -> Node \cup {None}]
      BY <2>1, <2>8 DEF session, TypeOK
    <3>2. IInv'
      BY <2>1, <2>4, <2>8, <3>1
    <3> QED
      BY <2>8, <3>1, <3>2
  <2> QED
    BY <1>2, <2>6, <2>7, <2>8 DEF GetRemoteRoot
<1> QED
  BY <1>1, <1>2

LEMMA GetNodeStep ==
  ASSUME IInv, NEW px \in proxies, GetNode(px)
  PROVE  IInv' /\ mRroot' = mRroot
<1>1. CASE Fails
  <2>1. UNCHANGED mRroot
    BY <1>1 DEF Fails
  <2> QED
    BY <1>1, <2>1, FailsStep
<1>2. CASE ~Fails
  <2>0. /\ link = "up" /\ todo = <<>> /\ Target(px) # None
        /\ UNCHANGED <<mRenvUri, accepted, mRroot, todo, flags, added, iChromo, uid>>
    BY <1>2 DEF GetNode, Idle, muting
  <2>1. /\ TypeOK /\ Types /\ MutationsFit /\ proxies \subseteq Seq(Context)
        /\ \A py \in proxies : Len(py) > 0
        /\ uid \in [Node -> Uid] /\ NoObject \in Context
    BY DEF IInv, Types, TypeOK, Context
  <2>2. RootFirst /\ EnvFirst /\ ProxiesResolve
    BY DEF IInv
  <2>3. \A py \in proxies : Last(py) \in Context
    BY <2>1 DEF Last
  <2>4. rEnv = "published" /\ added = "no"
    <3>1. Last(px) \in Uid /\ rCtx[Last(px)] # None
      BY <2>0, <2>3 DEF Target, Context
    <3>2. ~NoContexts
      BY <3>1 DEF NoContexts
    <3>3. rEnv = "published"
      BY <2>2, <3>2 DEF EnvFirst
    <3>4. added = "no"
      BY <2>0, <2>1 DEF MutationsFit
    <3> QED
      BY <3>3, <3>4
  <2>5. ASSUME UNCHANGED <<rUp, rEnv, link, fate>>,
               rCtx' \in [Uid -> Node \cup {None}],
               \A u \in Uid : rCtx[u] # None => rCtx'[u] # None,
               NEW c \in Context, c # NoObject => rCtx'[c] # None,
               \/ UNCHANGED proxies
               \/ proxies' = proxies \cup {Append(px, c)}
        PROVE  IInv'
    <3>0. /\ Append(px, c) \in Seq(Context) /\ Len(Append(px, c)) > 0
          /\ Last(Append(px, c)) = c
      BY <2>1, NewProxy
    <3>1. TypeOK'
      BY <2>0, <2>1, <2>5, <3>0 DEF TypeOK
    <3>2. Types'
      <4>1. MutationsFit'
        BY <2>0, <2>1 DEF MutationsFit
      <4>2. \A py \in proxies' : Len(py) > 0
        BY <2>1, <2>5, <3>0
      <4> QED
        BY <3>1, <4>1, <4>2 DEF Types
    <3>3. Unconnected' /\ EnvFirst' /\ RootFirst'
      BY <2>0, <2>2, <2>4, <2>5 DEF Unconnected, EnvFirst, NoContexts, RootFirst
    <3>4. \A py \in proxies : Last(py) # NoObject => Last(py) \in Uid /\ rCtx[Last(py)] # None
      BY <2>0, <2>2, <2>3 DEF ProxiesResolve, Target, Context
    <3>5. ProxiesResolve'
      BY <2>5, <3>0, <3>4 DEF ProxiesResolve, Target
    <3> QED
      BY <3>2, <3>3, <3>5 DEF IInv
  <2>6. ASSUME NEW n \in Node, Finds(n),
               proxies' = IF rUp' THEN proxies \cup {Append(px, uid[n])} ELSE proxies
        PROVE  IInv'
    <3>1. /\ rUp' \in BOOLEAN /\ rEnv' \in {rEnv, "none"}
          /\ rCtx' \in [Uid -> Node \cup {None}]
          /\ link' \in {link, "dead"} /\ fate' \in {fate, "thrown"}
      BY <2>1, <2>6, Found
    <3>2. \/ ~rUp' /\ rEnv' = "none" /\ NoContexts' /\ link' = "dead"
          \/ /\ UNCHANGED <<rUp, rEnv, link, fate>>
             /\ rCtx'[uid[n]] # None
             /\ \A u \in Uid : rCtx[u] # None => rCtx'[u] # None
      BY <2>0, <2>1, <2>6, Found
    <3>3. uid[n] \in Context
      BY <2>1 DEF Context
    <3>4. CASE ~rUp' /\ rEnv' = "none" /\ NoContexts' /\ link' = "dead"
      <4>1. UNCHANGED proxies
        BY <2>6, <3>4
      <4>2. TypeOK'
        BY <2>0, <2>1, <3>1, <4>1 DEF TypeOK
      <4>3. Types'
        BY <2>0, <2>1, <4>1, <4>2 DEF Types, MutationsFit
      <4> QED
        BY <2>0, <3>4, <4>1, <4>3, GoneStep
    <3>5. CASE /\ UNCHANGED <<rUp, rEnv, link, fate>>
               /\ rCtx'[uid[n]] # None
               /\ \A u \in Uid : rCtx[u] # None => rCtx'[u] # None
      BY <2>5, <2>6, <3>1, <3>3, <3>5
    <3> QED
      BY <3>2, <3>4, <3>5
  <2>7. CASE /\ proxies' = proxies \cup {Append(px, NoObject)}
             /\ UNCHANGED <<fate, session, link>>
    <3>1. UNCHANGED <<rUp, rEnv, rCtx, link, fate>> /\ rCtx \in [Uid -> Node \cup {None}]
      BY <2>1, <2>7 DEF session, TypeOK
    <3> QED
      BY <2>0, <2>1, <2>5, <2>7, <3>1
  <2>8. IInv'
    BY <1>2, <2>6, <2>7 DEF GetNode
  <2> QED
    BY <2>0, <2>8
<1> QED
  BY <1>1, <1>2

-----------------------------------------------------------------------------
\* The remote side's steps.
LEMMA RemoteStep ==
  ASSUME IInv, ServerStarts \/ ServerEnds \/ \E n \in Node, u \in Uid : Rename(n, u)
  PROVE  IInv' /\ mRroot' = mRroot
<1>0. TypeOK /\ Types /\ MutationsFit
  BY DEF IInv, Types
<1>1. CASE ServerStarts
  <2>1. /\ rUp' = TRUE
        /\ UNCHANGED <<mRenvUri, accepted, link, mRroot, proxies, fate, todo, flags, added,
                       iChromo, rEnv, rCtx, uid>>
    BY <1>1 DEF ServerStarts, agent, muting
  <2>2. TypeOK'
    BY <1>0, <2>1 DEF TypeOK
  <2>3. Types'
    BY <1>0, <2>1, <2>2 DEF Types, MutationsFit
  <2> QED
    BY <2>1, <2>3, LocalStep
<1>2. CASE ServerEnds
  <2>1. /\ rUp' = FALSE /\ rEnv' = "none" /\ rCtx' = [u \in Uid |-> None]
        /\ link' = IF link = "up" THEN "dead" ELSE link
        /\ UNCHANGED <<mRenvUri, accepted, mRroot, proxies, fate, todo, flags, added,
                       iChromo, uid>>
    BY <1>2 DEF ServerEnds, Gone, muting
  <2>2. TypeOK'
    BY <1>0, <2>1 DEF TypeOK
  <2>3. Types'
    BY <1>0, <2>1, <2>2 DEF Types, MutationsFit
  <2>4. NoContexts' /\ link' # "up" /\ (link' = "fresh" => link = "fresh")
    BY <2>1 DEF NoContexts
  <2> QED
    BY <2>1, <2>3, <2>4, GoneStep
<1>3. ASSUME NEW n \in Node, NEW u \in Uid, Rename(n, u)
      PROVE  IInv' /\ mRroot' = mRroot
  <2>1. /\ uid' = [uid EXCEPT ![n] = u]
        /\ UNCHANGED <<mRenvUri, accepted, link, mRroot, proxies, fate, todo, flags, added,
                       iChromo, rUp, rEnv, rCtx>>
    BY <1>3 DEF Rename, agent, muting, session
  <2>2. TypeOK'
    BY <1>0, <2>1 DEF TypeOK
  <2>3. Types'
    BY <1>0, <2>1, <2>2 DEF Types, MutationsFit
  <2> QED
    BY <2>1, <2>3, LocalStep
<1> QED
  BY <1>1, <1>2, <1>3

\* Every step keeps the invariant, and the agent's root if there is one.
LEMMA NextStep ==
  ASSUME IInv, [Next]_vars
  PROVE  IInv' /\ (mRroot # None => mRroot' = mRroot)
<1>1. CASE UNCHANGED vars
  <2>1. UNCHANGED <<mRenvUri, accepted, link, mRroot, proxies, fate, todo, flags, added,
                    iChromo, rUp, rEnv, rCtx, uid>>
    BY <1>1 DEF vars, agent, muting, remote, session
  <2> QED
    BY <2>1 DEF IInv, Types, TypeOK, MutationsFit, Unconnected, EnvFirst, NoContexts,
                RootFirst, ProxiesResolve, Target
<1>2. CASE \E val \in Uri : ChangeCont(val)
  BY <1>2, ChangeContStep DEF ChangeCont
<1>3. CASE \/ \E spec \in BoundedSeq(Mutation, MaxSpec), fl \in Flags : DoMutation(spec, fl)
           \/ Skip \/ ApplyOther \/ Caught
  <2>1. IInv'
    BY <1>3, MutationStep
  <2>2. UNCHANGED mRroot
    BY <1>3 DEF DoMutation, Skip, ApplyOther, Caught, agent
  <2> QED
    BY <2>1, <2>2
<1>4. CASE CreateRemoteEnv
  <2>1. UNCHANGED mRroot
    BY <1>4 DEF CreateRemoteEnv, Fails, agent
  <2> QED
    BY <1>4, <2>1, CreateRemoteEnvStep
<1>5. CASE GetRemoteRoot
  BY <1>5, GetRemoteRootStep
<1>6. CASE \E px \in proxies : GetNode(px)
  BY <1>6, GetNodeStep
<1>7. CASE ServerStarts \/ ServerEnds \/ \E n \in Node, u \in Uid : Rename(n, u)
  BY <1>7, RemoteStep
<1> QED
  BY <1>1, <1>2, <1>3, <1>4, <1>5, <1>6, <1>7 DEF Next, Ended

LEMMA AlwaysIInv == Spec => []IInv
<1>1. IInv /\ [Next]_vars => IInv'
  BY NextStep
<1> QED
  BY InitIInv, <1>1, PTL DEF Spec

-----------------------------------------------------------------------------
\* The state of the agent, its proxies and the session keeps its types.
THEOREM RemoteTypeCorrect == Spec => []TypeOK
<1>1. IInv => TypeOK
  BY DEF IInv, Types
<1> QED
  BY <1>1, AlwaysIInv, PTL

\* As long as the agent is connected, each of its proxies that has a uid stands
\* for an element, however the server was ended, started and renamed in.
THEOREM ProxiesStandForNodes == Spec => []ProxiesResolve
<1>1. IInv => ProxiesResolve
  BY DEF IInv
<1> QED
  BY <1>1, AlwaysIInv, PTL

\* No mutation, and no restart, replaces the agent's root.
THEOREM RootStays == Spec => RootStable
<1>1. IInv /\ [Next]_vars => [mRroot # None => mRroot' = mRroot]_vars
  BY NextStep
<1> QED
  BY <1>1, AlwaysIInv, PTL DEF Spec, RootStable

\* The request for the root never makes the server answer a uid twice.
THEOREM RootSparesServer == Spec => MutationsSpareServer
<1>1. IInv /\ [Next]_vars => [GetRemoteRoot /\ rUp => rUp']_vars
  BY GetRemoteRootStep
<1> QED
  BY <1>1, AlwaysIInv, PTL DEF Spec, MutationsSpareServer
=============================================================================
