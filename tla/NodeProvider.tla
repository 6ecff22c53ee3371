---------------------------- MODULE NodeProvider ----------------------------
(***************************************************************************)
(* The provider of agents, dmas/daaprov.cpp, in an environment that        *)
(* several session threads use after AttachEnv.                            *)
(*                                                                         *)
(* GetNode gives the class node of an agent type: it is made on first use, *)
(* put below the class node "Elem" of the environment's own provider and   *)
(* registered.  Nothing is locked.  CreateNode gives a new agent each time *)
(* and keeps nothing.                                                      *)
(***************************************************************************)
EXTENDS Integers, FiniteSets, Sequences

CONSTANTS
  Thread,   \* the threads that use the environment
  None,     \* the null pointer
  MaxCalls  \* bound: calls they make altogether

ASSUME ThreadAssumption == IsFiniteSet(Thread) /\ Thread # {}
ASSUME BoundAssumption  == MaxCalls \in Nat /\ None \notin Nat

Type == {"ARenv", "ARenvu"}
Uri  == Type \cup {"other"}   \* "other": what other providers serve

VARIABLES
  up,       \* the process is alive
  iReg,     \* the registry: the class node of each type, or None
  children, \* what was put below "Elem": class nodes, each with its type
  calls,    \* the number of calls made; a node is numbered by its call
  pc,       \* where each thread is
  call,     \* the number of its last call,
  uri,      \* ... what it asks for,
  result,   \* ... and what it returned
  raced,    \* history: types that two threads have been making at once
  orphans   \* history: class nodes made when "Elem" was not found

shared  == <<up, iReg, children>>
local   == <<calls, pc, call, uri, result>>
history == <<raced, orphans>>
vars    == <<shared, local, history>>

Node == 1 .. MaxCalls

Goto(t, location) == pc' = [pc EXCEPT ![t] = location]

\* The threads that have found u unregistered and not yet registered it.
Making(u) == {t \in Thread : pc[t] \in {"append", "insert"} /\ uri[t] = u}
-----------------------------------------------------------------------------
Init ==
  /\ up = TRUE
  /\ iReg = [u \in Type |-> None] /\ children = <<>>
  /\ calls = 0
  /\ pc = [t \in Thread |-> "idle"]
  /\ call = [t \in Thread |-> 0]
  /\ uri = [t \in Thread |-> "other"]
  /\ result = [t \in Thread |-> None]
  /\ raced = {} /\ orphans = {}

Starts(t, u) ==
  /\ pc[t] = "idle" /\ calls < MaxCalls
  /\ calls' = calls + 1
  /\ call' = [call EXCEPT ![t] = calls + 1]
  /\ uri' = [uri EXCEPT ![t] = u]

\* A new agent, for a type of this provider, which belongs to the caller.
CreateNode(t, u) ==
  /\ Starts(t, u)
  /\ result' = [result EXCEPT ![t] = IF u \in Type THEN calls + 1 ELSE None]
  /\ UNCHANGED <<shared, pc, history>>

GetNode(t, u) ==
  /\ Starts(t, u)
  /\ Goto(t, "lookup")
  /\ result' = [result EXCEPT ![t] = None]
  /\ UNCHANGED <<shared, history>>

\* Slip: every URI is taken for a type of this provider.
LookupAny(t) ==
  /\ pc[t] = "lookup"
  /\ Goto(t, "append")
  /\ result' = [result EXCEPT ![t] = call[t]]
  /\ UNCHANGED <<shared, calls, call, uri, history>>

\* The test of the registry.  For a type that has no class node yet the other
\* provider is asked for its class node "Elem", which it may not find, and a
\* node is made.
Lookup(t) ==
  /\ pc[t] = "lookup"
  /\ LET u == uri[t] IN
       IF u \in Type /\ iReg[u] = None
       THEN /\ result' = [result EXCEPT ![t] = call[t]]
            /\ \/ Goto(t, "append") /\ UNCHANGED orphans
               \/ Goto(t, "insert") /\ orphans' = orphans \cup {call[t]}
            /\ raced' = IF Making(u) = {} THEN raced ELSE raced \cup {u}
       ELSE /\ result' = [result EXCEPT ![t] = IF u \in Type THEN iReg[u] ELSE None]
            /\ Goto(t, "idle")
            /\ UNCHANGED history
  /\ UNCHANGED <<shared, calls, call, uri>>

\* Slip: the new class node is put below nothing.
AppendNothing(t) ==
  /\ pc[t] = "append"
  /\ Goto(t, "insert")
  /\ UNCHANGED <<shared, calls, call, uri, result, history>>

\* With no parent in hand this is passed over: see Lookup.
AppendChild(t) ==
  /\ pc[t] = "append"
  /\ children' = Append(children, [type |-> uri[t], node |-> result[t]])
  /\ Goto(t, "insert")
  /\ UNCHANGED <<up, iReg, calls, call, uri, result, history>>

\* Slip: nothing is registered.
InsertNothing(t) ==
  /\ pc[t] = "insert"
  /\ Goto(t, "idle")
  /\ UNCHANGED <<shared, calls, call, uri, result, history>>

\* insert() leaves an entry alone that another thread has put there since; the
\* call returns the node that it has made all the same.
Insert(t) ==
  /\ pc[t] = "insert"
  /\ iReg' = [iReg EXCEPT ![uri[t]] = IF @ = None THEN result[t] ELSE @]
  /\ Goto(t, "idle")
  /\ UNCHANGED <<up, children, calls, call, uri, result, history>>

\* Two threads are in the registry, or in the children of "Elem", and one of
\* them writes: the process may fault.
Fault ==
  /\ \E s, t \in Thread :
       /\ s # t
       /\ \/ pc[s] = "insert" /\ pc[t] \in {"lookup", "insert"}
          \/ pc[s] = "append" /\ pc[t] = "append"
  /\ up' = FALSE
  /\ UNCHANGED <<iReg, children, local, history>>

Stopped ==
  /\ \/ ~up
     \/ calls = MaxCalls /\ \A t \in Thread : pc[t] = "idle"
  /\ UNCHANGED vars

Next ==
  \/ /\ up
     /\ \E t \in Thread :
          \/ \E u \in Uri : CreateNode(t, u) \/ GetNode(t, u)
          \/ Lookup(t) \/ AppendChild(t) \/ Insert(t)
  \/ up /\ Fault
  \/ Stopped

Spec == Init /\ [][Next]_vars
-----------------------------------------------------------------------------
TypeOK ==
  /\ up \in BOOLEAN
  /\ iReg \in [Type -> Node \cup {None}]
  /\ children \in Seq([type : Type, node : Node])
  /\ calls \in 0 .. MaxCalls
  /\ pc \in [Thread -> {"idle", "lookup", "append", "insert"}]
  /\ call \in [Thread -> 0 .. MaxCalls] /\ uri \in [Thread -> Uri]
  /\ result \in [Thread -> Node \cup {None}]
  /\ raced \subseteq Type /\ orphans \subseteq Node

ChildrenOf(u) == {i \in DOMAIN children : children[i].type = u}

\* Whoever finds a class node in the registry finds one that is below "Elem",
\* however far the threads that make the same one have got: the only others are
\* those made by a thread that did not find "Elem" itself, and these are below
\* nothing for good.
RegisteredBelowElem ==
  \A u \in Type : iReg[u] # None =>
    (iReg[u] \notin orphans <=> \E i \in ChildrenOf(u) : children[i].node = iReg[u])

\* A second class node of a type comes from threads that made the first one at
\* the same time, and from nothing else.
OneClassNode ==
  \A u \in Type \ raced : Cardinality(ChildrenOf(u)) =< 1

\* GetNode tests the registry so that a type has one class node, and with two
\* threads it may have two.
OneClassNodeAlways == \A u \in Type : Cardinality(ChildrenOf(u)) =< 1
=============================================================================
