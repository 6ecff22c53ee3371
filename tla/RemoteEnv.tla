----------------------------- MODULE RemoteEnv -----------------------------
(***************************************************************************)
(* The remote environment agent of dmas/renv.cpp (ARenv), the proxies of   *)
(* remote elements it and they create (dmas/melempx.cpp, dmas/daaproxy.cpp)*)
(* and the session it talks to, as server/sclient.cpp answers it.  ARenvu  *)
(* has the same code but for the mutation of nodes, which stays local.     *)
(*                                                                         *)
(* One thread uses the agent; a request is one step, RpcWire being about   *)
(* what can happen to it on the way.  The server may end and be started    *)
(* again at any moment: it keeps nothing.  Whoever called the agent may    *)
(* catch what is thrown out of it, as a session does, and go on.           *)
(***************************************************************************)
EXTENDS Integers, SequencesExt

CONSTANTS
  Uri,      \* contents an ARenv can be given
  Node,     \* the elements of the remote model
  RootNode, \* its root
  Uid,      \* the uids of elements
  None,     \* the null pointer
  MaxSpec,  \* bound: mutations in one chromo
  MaxChromo,\* bound: mutations kept in the agent's chromo
  MaxDepth  \* bound: length of a chain of proxies

ASSUME ConstantsAssumption ==
  /\ RootNode \in Node /\ None \notin Node \cup Uid \cup Uri
  /\ "OK" \notin Uid
  /\ MaxSpec \in Nat /\ MaxChromo \in Nat /\ MaxDepth \in Nat

\* A mutation: its type, and whether it is applied or left out as inactive or
\* as above the limit of the mutation order.
Mutation == [type : {"node", "other"}, when : {"now", "inactive", "above"}]
Flags    == [runTime : BOOLEAN, trial : BOOLEAN]

VARIABLES
  mRenvUri, \* the agent's content
  accepted, \* the last ChangeCont returned true
  link,     \* the socket of mRenvClient: "fresh", "up", "dead" when the server
            \* has gone, "reset" when that has been noticed
  fate,     \* of the client's process: "runs", "thrown" out of, "killed"
  mRroot,   \* the proxy of the remote root: its context, or None
  proxies,  \* the proxies: each the chain of contexts from the root's to its own
  todo,     \* the mutations DoMutation has still to look at
  flags,    \* the flags it was called with
  added,    \* what AddElemRmt's first request returned, "no" before it
  iChromo,  \* mutations put into the chromo unapplied
  rUp,      \* the remote server is alive
  rEnv,     \* its session's environment: "none", "broken", "published"
  rCtx,     \* its contexts: the element of each uid, or None
  uid       \* the uid that each element computes

agent  == <<mRenvUri, accepted, link, mRroot, proxies>>
muting == <<todo, flags, added, iChromo>>
session == <<rUp, rEnv, rCtx>>
remote == <<session, uid>>
vars   == <<agent, fate, muting, remote>>

\* The answer to a call that found no object, taken for a context.
NoObject == "OK"
Context  == Uid \cup {NoObject}

\* The element that a proxy stands for.
Target(px) == IF Last(px) = NoObject THEN None ELSE rCtx[Last(px)]
-----------------------------------------------------------------------------
Init ==
  /\ mRenvUri = None /\ accepted = FALSE /\ link = "fresh" /\ fate = "runs"
  /\ mRroot = None /\ proxies = {}
  /\ todo = <<>> /\ flags = [runTime |-> FALSE, trial |-> FALSE]
  /\ added = "no" /\ iChromo = 0
  /\ rUp \in BOOLEAN /\ rEnv = "none" /\ rCtx = [u \in Uid |-> None]
  /\ uid \in {f \in [Node -> Uid] : \A m, n \in Node : f[m] = f[n] => m = n}

Idle == fate = "runs" /\ todo = <<>>

\* Slip: a socket that is no longer connected is replaced by a new one.
SetContReconnects(val) ==
  IF val = mRenvUri
  THEN accepted' = TRUE /\ UNCHANGED <<mRenvUri, link>>
  ELSE LET connects == rUp /\ link # "up" IN
         /\ mRenvUri' = val
         /\ accepted' = connects
         /\ link' = IF connects THEN "up" ELSE link

\* The content is stored first; the agent connects, whatever the content says,
\* if it is a new one.  A failed connect is reported once.  A socket that has
\* been connected cannot be connected again.
SetCont(val) ==
  IF val = mRenvUri
  THEN accepted' = TRUE /\ UNCHANGED <<mRenvUri, link>>
  ELSE LET connects == rUp /\ link = "fresh" IN
         /\ mRenvUri' = val
         /\ accepted' = connects
         /\ link' = IF connects THEN "up" ELSE link

ChangeCont(val) ==
  /\ Idle
  /\ SetCont(val)
  /\ UNCHANGED <<mRroot, proxies, fate, muting, remote>>

DoMutation(spec, fl) ==
  /\ Idle /\ iChromo + Len(spec) =< MaxChromo
  /\ todo' = spec /\ flags' = fl
  /\ UNCHANGED <<agent, fate, added, iChromo, remote>>

\* Slip: the mutation left out is added to the chromo twice.
SkipTwice ==
  /\ fate = "runs" /\ todo # <<>>
  /\ Head(todo).when # "now"
  /\ iChromo' = iChromo + 2
  /\ todo' = Tail(todo)
  /\ UNCHANGED <<agent, fate, flags, added, remote>>

\* A mutation that is not applied is kept in the chromo, unless the mutation
\* is for run time only; one above the limit, unless it is a trial as well.
Skip ==
  /\ fate = "runs" /\ todo # <<>>
  /\ Head(todo).when # "now"
  /\ LET keeps == /\ ~flags.runTime
                  /\ Head(todo).when = "above" => ~flags.trial
     IN iChromo' = IF keeps THEN iChromo + 1 ELSE iChromo
  /\ todo' = Tail(todo)
  /\ UNCHANGED <<agent, fate, flags, added, remote>>

\* The other types of mutation are carried out by Elem, which calls ChangeCont
\* for one of the content.
ApplyOther ==
  /\ fate = "runs" /\ todo # <<>>
  /\ Head(todo) = [type |-> "other", when |-> "now"]
  /\ \/ UNCHANGED <<mRenvUri, accepted, link>>
     \/ \E val \in Uri : SetCont(val)
  /\ todo' = Tail(todo)
  /\ UNCHANGED <<mRroot, proxies, fate, flags, added, iChromo, remote>>

Adding == /\ fate = "runs" /\ todo # <<>>
          /\ Head(todo) = [type |-> "node", when |-> "now"]

\* A request on a connection that was never made ends the process by SIGPIPE.
\* One to a server that has gone throws, and lets the connection be reset,
\* sooner or later: then the next one ends the process as well.
Fails ==
  /\ link # "up"
  /\ IF link = "dead"
     THEN fate' = "thrown" /\ link' \in {"dead", "reset"}
     ELSE fate' = "killed" /\ UNCHANGED link
  /\ UNCHANGED <<mRenvUri, accepted, mRroot, proxies, muting, remote>>

\* AddElemRmt, the first request: CreateEnv.  Its failure is only logged.  The
\* session refuses a second environment, one that failed to build included.
CreateRemoteEnv ==
  /\ Adding /\ added = "no"
  /\ \/ Fails
     \/ /\ link = "up"
        /\ IF rEnv = "none"
           THEN rEnv' \in {"none", "broken", "published"}
           ELSE UNCHANGED rEnv
        /\ added' = IF rEnv = "none" /\ rEnv' = "published" THEN "ok" ELSE "error"
        /\ UNCHANGED <<agent, fate, todo, flags, iChromo, rUp, rCtx, uid>>

\* Slip: the context is answered but not added.
FindsUnadded(n) == UNCHANGED <<session, link, fate>>

\* The server process ends, and with it the session.
Gone == /\ rUp' = FALSE /\ rEnv' = "none" /\ rCtx' = [u \in Uid |-> None]
        /\ link' = IF link = "up" THEN "dead" ELSE link

\* The session found element n: it adds its uid to the contexts and answers
\* it.  A uid that it has already ends the server process, and the client
\* throws at the end of the connection.
Finds(n) ==
  IF rCtx[uid[n]] # None
  THEN Gone /\ fate' = "thrown"
  ELSE rCtx' = [rCtx EXCEPT ![uid[n]] = n] /\ UNCHANGED <<rUp, rEnv, link, fate>>

\* Slip: after a failed CreateEnv too, the root of "MEnv#0" is asked for.
GetRemoteRootAnyway ==
  /\ Adding /\ added # "no"
  /\ link = "up"
  /\ \/ /\ Finds(RootNode)
        /\ IF rUp' THEN mRroot' = uid[RootNode] ELSE UNCHANGED mRroot
     \/ mRroot' = NoObject /\ UNCHANGED <<fate, session, link>>
  /\ added' = "no"
  /\ todo' = Tail(todo)
  /\ UNCHANGED <<mRenvUri, accepted, proxies, flags, iChromo, uid>>

\* ... and the second: Root of the environment that the first one answered.  The
\* model may answer it with an error; the text of an error is no context, so that
\* after a failed CreateEnv it always is one.
GetRemoteRoot ==
  /\ Adding /\ added # "no"
  /\ \/ Fails
     \/ /\ link = "up"
        /\ \/ /\ added = "ok"
              /\ Finds(RootNode)
              /\ IF rUp'
                 THEN /\ mRroot' = uid[RootNode]
                      /\ proxies' = proxies \cup {<<uid[RootNode]>>}
                 ELSE UNCHANGED <<mRroot, proxies>>
           \/ /\ added = "ok"           \* the environment has no root
              /\ mRroot' = NoObject
              /\ proxies' = proxies \cup {<<NoObject>>}
              /\ UNCHANGED <<fate, session, link>>
           \/ UNCHANGED <<mRroot, proxies, fate, session, link>>  \* an error
        /\ added' = "no"
        /\ todo' = Tail(todo)
        /\ UNCHANGED <<mRenvUri, accepted, flags, iChromo, uid>>

\* GetNode of a proxy: a proxy of what was found, new unless the context of the
\* answer is one it has a proxy for.
GetNode(px) ==
  /\ Idle /\ Len(px) < MaxDepth
  /\ \/ Fails
     \/ /\ link = "up" /\ Target(px) # None
        /\ \/ \E n \in Node :
                /\ Finds(n)
                /\ proxies' = IF rUp' THEN proxies \cup {Append(px, uid[n])}
                              ELSE proxies
           \/ /\ proxies' = proxies \cup {Append(px, NoObject)}   \* no such node
              /\ UNCHANGED <<fate, session, link>>
        /\ UNCHANGED <<mRenvUri, accepted, mRroot, muting, uid>>

\* What was thrown is caught by the session that the agent works for: the rest
\* of the chromo is not applied.
Caught ==
  /\ fate = "thrown"
  /\ fate' = "runs" /\ todo' = <<>> /\ added' = "no"
  /\ UNCHANGED <<agent, flags, iChromo, remote>>
-----------------------------------------------------------------------------
(* The remote side.                                                        *)

ServerStarts ==
  /\ ~rUp
  /\ rUp' = TRUE
  /\ UNCHANGED <<agent, fate, muting, rEnv, rCtx, uid>>

ServerEnds ==
  /\ rUp
  /\ Gone
  /\ UNCHANGED <<mRenvUri, accepted, mRroot, proxies, fate, muting, uid>>

\* Another session renames an element, whose uid is its URI.
Rename(n, u) ==
  /\ rEnv = "published" /\ n # RootNode
  /\ \A m \in Node : uid[m] # u
  /\ uid' = [uid EXCEPT ![n] = u]
  /\ UNCHANGED <<agent, fate, muting, session>>

Ended == fate = "killed" /\ UNCHANGED vars

Next ==
  \/ \E val \in Uri : ChangeCont(val)
  \/ \E spec \in BoundedSeq(Mutation, MaxSpec), fl \in Flags : DoMutation(spec, fl)
  \/ Skip \/ ApplyOther \/ CreateRemoteEnv \/ GetRemoteRoot
  \/ \E px \in proxies : GetNode(px)
  \/ Caught
  \/ ServerStarts \/ ServerEnds
  \/ \E n \in Node, u \in Uid : Rename(n, u)
  \/ Ended

Spec == Init /\ [][Next]_vars
-----------------------------------------------------------------------------
TypeOK ==
  /\ mRenvUri \in Uri \cup {None} /\ accepted \in BOOLEAN
  /\ link \in {"fresh", "up", "dead", "reset"} /\ fate \in {"runs", "thrown", "killed"}
  /\ mRroot \in Context \cup {None}
  /\ proxies \subseteq Seq(Context)
  /\ todo \in Seq(Mutation) /\ flags \in Flags
  /\ added \in {"no", "ok", "error"} /\ iChromo \in 0 .. MaxChromo
  /\ rUp \in BOOLEAN /\ rEnv \in {"none", "broken", "published"}
  /\ rCtx \in [Uid -> Node \cup {None}] /\ uid \in [Node -> Uid]

\* A proxy that can be used, and whose context is a uid, stands for an element
\* of the session that answered it, whatever is renamed in the remote model,
\* and however often servers end and start: with a session of another server
\* an agent that has proxies is never connected.
ProxiesResolve ==
  link = "up" => \A px \in proxies : Last(px) # NoObject => Target(px) # None

\* The agent's root is replaced by no later mutation: AddElemRmt goes on after
\* a failed CreateEnv, but then asks for the root of nothing; and after the
\* restart of the server it gets no root of another environment.
RootStable == [][mRroot # None => mRroot' = mRroot]_vars

\* No mutation of the agent makes the remote server answer one uid twice, that
\* is, end.
MutationsSpareServer == [][GetRemoteRoot /\ rUp => rUp']_vars
-----------------------------------------------------------------------------
(* What the code, its tests and its design say, and the code does not do.  *)

\* "Connecting to [%s] failed" is when ChangeCont returns false.
ConnectedWhenAccepted == accepted => link = "up"

\* "Fail to get renv_l1node1" is what the tests report of a null pointer: a proxy
\* that GetNode returns has a node.
ProxyHasNode == \A px \in proxies : Last(px) # NoObject

\* "it would be convenient to have one-to-one relation": an element asked for
\* twice under one proxy has one proxy.
OneProxyPerNode ==
  \A px, py \in proxies :
    /\ Len(px) = Len(py) /\ Front(px) = Front(py)
    /\ Target(px) # None /\ Target(px) = Target(py)
    => px = py
=============================================================================
