------------------------ MODULE NodeProvider_proofs ------------------------
(* Proofs about the provider: types, and the class nodes below "Elem".     *)
EXTENDS NodeProvider, FiniteSetTheorems, TLAPS

\* A thread that makes a class node makes one of a type of this provider, which
\* its call numbers.
MakersHold ==
  \A t \in Thread :
    /\ pc[t] = "lookup" => call[t] \in Node
    /\ pc[t] \in {"append", "insert"} => uri[t] \in Type /\ result[t] \in Node

\* A node about to be registered is below "Elem" already, unless its maker did
\* not find "Elem".
InsertedIsBelow ==
  \A t \in Thread : pc[t] = "insert" /\ result[t] \notin orphans =>
    \E i \in DOMAIN children : children[i] = [type |-> uri[t], node |-> result[t]]

\* Calls, and hence the nodes made in them, are told apart by their numbers.
CallsDiffer ==
  /\ \A t \in Thread : call[t] =< calls
  /\ \A s, t \in Thread : s # t /\ pc[s] # "idle" => call[t] # call[s]
  /\ \A t \in Thread : pc[t] \in {"append", "insert"} => result[t] = call[t]

\* A node made without "Elem" is never put below it: it is not the node of a
\* call that has still to decide, or to append.
OrphansStay ==
  /\ \A n \in orphans : n =< calls
  /\ \A t \in Thread : pc[t] \in {"lookup", "append"} => call[t] \notin orphans
  /\ \A i \in DOMAIN children : children[i].node \notin orphans /\ children[i].node =< calls
  /\ \A t \in Thread, i \in DOMAIN children :
       pc[t] = "lookup" => children[i].node # call[t]

\* A type has one maker at most, none once it is registered, no node below
\* "Elem" before the maker has put one there, and one node at most.
OneMakerOf(u) ==
  /\ \A s, t \in Making(u) : s = t
  /\ iReg[u] # None => Making(u) = {}
  /\ iReg[u] = None /\ (\A t \in Making(u) : pc[t] = "append") => ChildrenOf(u) = {}
  /\ \A i, j \in ChildrenOf(u) : i = j

\* This is so of a type that two threads have never been making together.
OneMaker == \A u \in Type \ raced : OneMakerOf(u)

\* The inductive invariant.
IInv ==
  /\ TypeOK /\ MakersHold /\ CallsDiffer /\ OrphansStay
  /\ RegisteredBelowElem /\ InsertedIsBelow /\ OneMaker

\* What is in a sequence over S is in S.
LEMMA ElementOfSeq ==
  ASSUME NEW S, NEW s \in Seq(S), NEW i \in DOMAIN s
  PROVE  s[i] \in S
OBVIOUS

USE ThreadAssumption, BoundAssumption

\* The invariant holds when the provider is made.
LEMMA InitIInv == Init => IInv
<1> SUFFICES ASSUME Init PROVE IInv
  OBVIOUS
<1>1. TypeOK
  BY DEF Init, TypeOK, Uri
<1>2. MakersHold /\ RegisteredBelowElem /\ InsertedIsBelow
  BY DEF Init, MakersHold, RegisteredBelowElem, InsertedIsBelow
<1>4. CallsDiffer /\ OrphansStay
  BY DEF Init, CallsDiffer, OrphansStay
<1>3. OneMaker
  BY DEF Init, OneMaker, OneMakerOf, Making, ChildrenOf
<1> QED
  BY <1>1, <1>2, <1>3, <1>4 DEF IInv

-----------------------------------------------------------------------------
\* Every step preserves the types.
LEMMA TypeStep ==
  ASSUME IInv, [Next]_vars
  PROVE  TypeOK' /\ MakersHold'
<1> USE DEF IInv, TypeOK, MakersHold, Goto, shared, local, history, Node
<1>1. CASE UNCHANGED vars
  BY <1>1 DEF vars
<1>2. ASSUME NEW t \in Thread, NEW u \in Uri, CreateNode(t, u)
      PROVE  TypeOK' /\ MakersHold'
  BY <1>2 DEF CreateNode, Starts
<1>3. ASSUME NEW t \in Thread, NEW u \in Uri, GetNode(t, u)
      PROVE  TypeOK' /\ MakersHold'
  BY <1>3 DEF GetNode, Starts
<1>4. ASSUME NEW t \in Thread, Lookup(t)
      PROVE  TypeOK' /\ MakersHold'
  <2>1. /\ pc[t] = "lookup" /\ call[t] \in Node /\ uri[t] \in Uri
        /\ UNCHANGED <<up, iReg, children, calls, call, uri>>
    BY <1>4 DEF Lookup
  <2>2. CASE uri[t] \in Type /\ iReg[uri[t]] = None
    <3>1. /\ result' = [result EXCEPT ![t] = call[t]]
          /\ \/ pc' = [pc EXCEPT ![t] = "append"]
             \/ pc' = [pc EXCEPT ![t] = "insert"]
          /\ raced' = raced \/ raced' = raced \cup {uri[t]}
          /\ orphans' = orphans \/ orphans' = orphans \cup {call[t]}
      BY <1>4, <2>2 DEF Lookup
    <3> QED
      BY <2>1, <2>2, <3>1
  <2>3. CASE ~(uri[t] \in Type /\ iReg[uri[t]] = None)
    <3>1. /\ result' = [result EXCEPT ![t] = IF uri[t] \in Type THEN iReg[uri[t]] ELSE None]
          /\ pc' = [pc EXCEPT ![t] = "idle"]
          /\ raced' = raced /\ orphans' = orphans
      BY <1>4, <2>3 DEF Lookup
    <3> QED
      BY <2>1, <3>1
  <2> QED
    BY <2>2, <2>3
<1>5. ASSUME NEW t \in Thread, AppendChild(t)
      PROVE  TypeOK' /\ MakersHold'
  BY <1>5 DEF AppendChild
<1>6. ASSUME NEW t \in Thread, Insert(t)
      PROVE  TypeOK' /\ MakersHold'
  BY <1>6 DEF Insert
<1>7. CASE Fault
  BY <1>7 DEF Fault
<1> QED
  BY <1>1, <1>2, <1>3, <1>4, <1>5, <1>6, <1>7 DEF Next, Stopped

-----------------------------------------------------------------------------
\* Every step keeps the numbers of the calls apart, and the nodes made without
\* "Elem" from those below it.
LEMMA NumberStep ==
  ASSUME IInv, [Next]_vars
  PROVE  CallsDiffer' /\ OrphansStay'
<1> USE DEF CallsDiffer, OrphansStay, Goto, shared, local, history
<1>types. /\ pc \in [Thread -> {"idle", "lookup", "append", "insert"}]
          /\ children \in Seq([type : Type, node : Node])
          /\ calls \in 0 .. MaxCalls /\ call \in [Thread -> 0 .. MaxCalls]
          /\ result \in [Thread -> Node \cup {None}]
          /\ orphans \subseteq Node
  BY DEF IInv, TypeOK
<1>0. CallsDiffer /\ OrphansStay /\ MakersHold
  BY DEF IInv
<1>1. CASE UNCHANGED vars
  BY <1>0, <1>1 DEF vars
<1>2. ASSUME NEW t \in Thread, NEW u \in Uri, CreateNode(t, u) \/ GetNode(t, u)
      PROVE  CallsDiffer' /\ OrphansStay'
  <2>1. /\ pc[t] = "idle" /\ calls' = calls + 1
        /\ call' = [call EXCEPT ![t] = calls + 1]
        /\ \/ pc' = pc
           \/ pc' = [pc EXCEPT ![t] = "lookup"]
        /\ \E r : result' = [result EXCEPT ![t] = r]
        /\ UNCHANGED <<children, orphans>>
    BY <1>2 DEF CreateNode, GetNode, Starts
  <2>2. CallsDiffer'
    BY <1>types, <1>0, <2>1
  <2>3. \A i \in DOMAIN children : children[i].node \in Nat
    <3> TAKE i \in DOMAIN children
    <3>1. children[i] \in [type : Type, node : Node]
      BY <1>types, ElementOfSeq
    <3>2. children[i].node \in Node
      BY <3>1
    <3> QED
      BY <3>2 DEF Node
  <2>4. \A n \in orphans : n \in Nat
    BY <1>types DEF Node
  <2>5. OrphansStay'
    BY <1>types, <1>0, <2>1, <2>3, <2>4
  <2> QED
    BY <2>2, <2>5
<1>3. ASSUME NEW t \in Thread, Lookup(t)
      PROVE  CallsDiffer' /\ OrphansStay'
  <2>1. pc[t] = "lookup" /\ UNCHANGED <<children, calls, call>>
    BY <1>3 DEF Lookup
  <2>2. CASE uri[t] \in Type /\ iReg[uri[t]] = None
    <3>1. /\ result' = [result EXCEPT ![t] = call[t]]
          /\ \/ pc' = [pc EXCEPT ![t] = "append"] /\ orphans' = orphans
             \/ pc' = [pc EXCEPT ![t] = "insert"] /\ orphans' = orphans \cup {call[t]}
      BY <1>3, <2>2 DEF Lookup
    <3> QED
      BY <1>types, <1>0, <2>1, <3>1
  <2>3. CASE ~(uri[t] \in Type /\ iReg[uri[t]] = None)
    <3>1. /\ pc' = [pc EXCEPT ![t] = "idle"] /\ orphans' = orphans
          /\ \E r : result' = [result EXCEPT ![t] = r]
      BY <1>3, <2>3 DEF Lookup
    <3> QED
      BY <1>types, <1>0, <2>1, <3>1
  <2> QED
    BY <2>2, <2>3
<1>4. ASSUME NEW t \in Thread, AppendChild(t)
      PROVE  CallsDiffer' /\ OrphansStay'
  <2> DEFINE e == [type |-> uri[t], node |-> result[t]]
  <2>1. /\ pc[t] = "append" /\ children' = Append(children, e)
        /\ pc' = [pc EXCEPT ![t] = "insert"]
        /\ UNCHANGED <<calls, call, result, orphans>>
    BY <1>4 DEF AppendChild
  <2>2. e \in [type : Type, node : Node] /\ e.node = call[t]
    BY <1>0, <2>1 DEF MakersHold
  <2> HIDE DEF e
  <2>3. /\ DOMAIN children' = DOMAIN children \cup {Len(children) + 1}
        /\ \A i \in DOMAIN children : children'[i] = children[i]
        /\ children'[Len(children) + 1] = e
    BY <1>types, <2>1, <2>2
  <2>4. CallsDiffer'
    BY <1>types, <1>0, <2>1
  <2>5. e.node \notin orphans /\ e.node =< calls
        /\ \A s \in Thread : pc'[s] = "lookup" => pc[s] = "lookup" /\ e.node # call[s]
    BY <1>types, <1>0, <2>1, <2>2
  <2>6. OrphansStay'
    BY <1>types, <1>0, <2>1, <2>3, <2>5
  <2> QED
    BY <2>4, <2>6
<1>5. ASSUME NEW t \in Thread, Insert(t)
      PROVE  CallsDiffer' /\ OrphansStay'
  BY <1>types, <1>0, <1>5 DEF Insert
<1>6. CASE Fault
  BY <1>0, <1>6 DEF Fault
<1> QED
  BY <1>1, <1>2, <1>3, <1>4, <1>5, <1>6 DEF Next, Stopped

-----------------------------------------------------------------------------
\* Every step keeps what is registered, or about to be, below "Elem", unless it
\* was made without it.
LEMMA BelowStep ==
  ASSUME IInv, [Next]_vars
  PROVE  RegisteredBelowElem' /\ InsertedIsBelow'
<1> USE DEF Goto, shared, local, history
<1> DEFINE Put(u, n) == \E i \in DOMAIN children : children[i] = [type |-> u, node |-> n]
<1>types. /\ pc \in [Thread -> {"idle", "lookup", "append", "insert"}]
          /\ iReg \in [Type -> Node \cup {None}]
          /\ children \in Seq([type : Type, node : Node])
          /\ uri \in [Thread -> Uri] /\ result \in [Thread -> Node \cup {None}]
          /\ call \in [Thread -> 0 .. MaxCalls]
  BY DEF IInv, TypeOK
<1>0. /\ RegisteredBelowElem /\ InsertedIsBelow /\ MakersHold
      /\ OrphansStay /\ CallsDiffer /\ OrphansStay'
  BY NumberStep DEF IInv
\* A node below "Elem" was not made without it: one direction is OrphansStay.
<1>half. ASSUME \A u \in Type : iReg'[u] # None /\ iReg'[u] \notin orphans' =>
                  \E i \in DOMAIN children' : children'[i] = [type |-> u, node |-> iReg'[u]]
         PROVE  RegisteredBelowElem'
  <2> SUFFICES ASSUME NEW u \in Type, iReg'[u] # None
               PROVE  iReg'[u] \notin orphans' <=>
                        \E i \in DOMAIN children' :
                          children'[i].type = u /\ children'[i].node = iReg'[u]
    BY DEF RegisteredBelowElem, ChildrenOf
  <2>1. iReg'[u] \notin orphans' =>
          \E i \in DOMAIN children' :
            children'[i].type = u /\ children'[i].node = iReg'[u]
    BY <1>half
  <2>2. \A i \in DOMAIN children' : children'[i].node \notin orphans'
    BY <1>0 DEF OrphansStay
  <2> QED
    BY <2>1, <2>2
<1>put. \A u \in Type : iReg[u] # None /\ iReg[u] \notin orphans => Put(u, iReg[u])
  <2> SUFFICES ASSUME NEW u \in Type, iReg[u] # None, iReg[u] \notin orphans
               PROVE  Put(u, iReg[u])
    OBVIOUS
  <2>1. PICK i \in DOMAIN children : children[i].type = u /\ children[i].node = iReg[u]
    BY <1>0 DEF RegisteredBelowElem, ChildrenOf
  <2>2. children[i] \in [type : Type, node : Node]
    BY <1>types, ElementOfSeq
  <2> QED
    BY <2>1, <2>2
\* What a step keeps that registers nothing, adds no node and starts the
\* registration of none but one made without "Elem".
<1>1. ASSUME UNCHANGED <<iReg, children>>, orphans \subseteq orphans',
             \A t \in Thread : pc'[t] = "insert" /\ result'[t] \notin orphans' =>
                pc[t] = "insert" /\ uri'[t] = uri[t] /\ result'[t] = result[t]
      PROVE  RegisteredBelowElem' /\ InsertedIsBelow'
  <2>1. RegisteredBelowElem'
    BY <1>put, <1>half, <1>1
  <2>2. InsertedIsBelow'
    BY <1>0, <1>1 DEF InsertedIsBelow
  <2> QED
    BY <2>1, <2>2
<1>2. CASE UNCHANGED vars
  BY <1>1, <1>2 DEF vars
<1>3. ASSUME NEW t \in Thread, NEW u \in Uri, CreateNode(t, u) \/ GetNode(t, u)
      PROVE  RegisteredBelowElem' /\ InsertedIsBelow'
  BY <1>types, <1>1, <1>3 DEF CreateNode, GetNode, Starts
<1>4. ASSUME NEW t \in Thread, Lookup(t)
      PROVE  RegisteredBelowElem' /\ InsertedIsBelow'
  <2>1. UNCHANGED <<iReg, children, uri>>
    BY <1>4 DEF Lookup
  <2>2. CASE uri[t] \in Type /\ iReg[uri[t]] = None
    <3>1. /\ result' = [result EXCEPT ![t] = call[t]]
          /\ \/ pc' = [pc EXCEPT ![t] = "append"] /\ orphans' = orphans
             \/ pc' = [pc EXCEPT ![t] = "insert"] /\ orphans' = orphans \cup {call[t]}
      BY <1>4, <2>2 DEF Lookup
    <3> QED
      BY <1>types, <1>1, <2>1, <3>1
  <2>3. CASE ~(uri[t] \in Type /\ iReg[uri[t]] = None)
    <3>1. /\ pc' = [pc EXCEPT ![t] = "idle"] /\ orphans' = orphans
          /\ \E r : result' = [result EXCEPT ![t] = r]
      BY <1>4, <2>3 DEF Lookup
    <3> QED
      BY <1>types, <1>1, <2>1, <3>1
  <2> QED
    BY <2>2, <2>3
<1>5. ASSUME NEW t \in Thread, AppendChild(t)
      PROVE  RegisteredBelowElem' /\ InsertedIsBelow'
  <2> DEFINE e == [type |-> uri[t], node |-> result[t]]
  <2>1. /\ pc[t] = "append" /\ children' = Append(children, e)
        /\ pc' = [pc EXCEPT ![t] = "insert"] /\ UNCHANGED <<iReg, uri, result, orphans>>
    BY <1>5 DEF AppendChild
  <2>2. e \in [type : Type, node : Node]
    BY <1>0, <2>1 DEF MakersHold
  <2> HIDE DEF e
  <2>3. /\ \A i \in DOMAIN children : i \in DOMAIN children' /\ children'[i] = children[i]
        /\ Len(children) + 1 \in DOMAIN children' /\ children'[Len(children) + 1] = e
    BY <1>types, <2>1, <2>2
  <2>4. RegisteredBelowElem'
    BY <1>put, <1>half, <2>1, <2>3
  <2>5. InsertedIsBelow'
    <3> SUFFICES ASSUME NEW s \in Thread, pc'[s] = "insert", result[s] \notin orphans
                 PROVE  \E i \in DOMAIN children' :
                           children'[i] = [type |-> uri[s], node |-> result[s]]
      BY <2>1 DEF InsertedIsBelow
    <3>1. CASE s = t
      BY <2>3, <3>1 DEF e
    <3>2. CASE s # t
      <4>1. pc[s] = "insert"
        BY <1>types, <2>1, <3>2
      <4> QED
        BY <1>0, <2>3, <4>1 DEF InsertedIsBelow
    <3> QED
      BY <3>1, <3>2
  <2> QED
    BY <2>4, <2>5
<1>6. ASSUME NEW t \in Thread, Insert(t)
      PROVE  RegisteredBelowElem' /\ InsertedIsBelow'
  <2>1. /\ pc[t] = "insert" /\ pc' = [pc EXCEPT ![t] = "idle"]
        /\ UNCHANGED <<children, uri, result, orphans>>
    BY <1>6 DEF Insert
  <2>2. uri[t] \in Type /\ result[t] \in Node
    BY <1>0, <2>1 DEF MakersHold
  <2>3. \A u \in Type : iReg'[u] = iReg[u] \/ (u = uri[t] /\ iReg'[u] = result[t])
    BY <1>types, <1>6, <2>2 DEF Insert
  <2>4. result[t] \notin orphans => Put(uri[t], result[t])
    BY <1>0, <2>1 DEF InsertedIsBelow
  <2>5. RegisteredBelowElem'
    BY <1>put, <1>half, <2>1, <2>3, <2>4
  <2>6. InsertedIsBelow'
    BY <1>types, <1>0, <2>1 DEF InsertedIsBelow
  <2> QED
    BY <2>5, <2>6
<1>7. CASE Fault
  BY <1>1, <1>7 DEF Fault
<1> QED
  BY <1>2, <1>3, <1>4, <1>5, <1>6, <1>7 DEF Next, Stopped

-----------------------------------------------------------------------------
\* Every step keeps that a type has one maker at a time, unless it was raced for.
LEMMA MakerStep ==
  ASSUME IInv, [Next]_vars
  PROVE  OneMaker'
<1> USE DEF Goto, shared, local, history
<1>types. /\ pc \in [Thread -> {"idle", "lookup", "append", "insert"}]
          /\ iReg \in [Type -> Node \cup {None}]
          /\ children \in Seq([type : Type, node : Node])
          /\ uri \in [Thread -> Uri] /\ result \in [Thread -> Node \cup {None}]
  BY DEF IInv, TypeOK
<1>0. /\ MakersHold
      /\ \A u \in Type \ raced : OneMakerOf(u)
  BY DEF IInv, OneMaker
<1>goal. (\A u \in Type \ raced' : OneMakerOf(u)') => OneMaker'
  BY DEF OneMaker
<1>1. ASSUME raced \subseteq raced', UNCHANGED <<iReg, children>>,
             \A t \in Thread :
                /\ pc'[t] \in {"append", "insert"} <=> pc[t] \in {"append", "insert"}
                /\ pc[t] \in {"append", "insert"} => pc'[t] = pc[t] /\ uri'[t] = uri[t]
      PROVE  OneMaker'
  <2>1. \A u \in Type : Making(u)' = Making(u) /\ ChildrenOf(u)' = ChildrenOf(u)
    BY <1>1 DEF Making, ChildrenOf
  <2>2. \A u \in Type : \A t \in Making(u) : pc'[t] = pc[t]
    BY <1>1 DEF Making
  <2>3. \A u \in Type \ raced' : OneMakerOf(u)'
    BY <1>0, <1>1, <2>1, <2>2 DEF OneMakerOf
  <2> QED
    BY <2>3, <1>goal
<1>2. CASE UNCHANGED vars
  BY <1>1, <1>2 DEF vars
<1>3. ASSUME NEW t \in Thread, NEW u \in Uri, CreateNode(t, u) \/ GetNode(t, u)
      PROVE  OneMaker'
  BY <1>types, <1>1, <1>3 DEF CreateNode, GetNode, Starts
<1>4. ASSUME NEW t \in Thread, Lookup(t)
      PROVE  OneMaker'
  <2> DEFINE w == uri[t]
  <2>1. pc[t] = "lookup" /\ UNCHANGED <<iReg, children, uri>>
    BY <1>4 DEF Lookup
  <2>2. CASE w \in Type /\ iReg[w] = None
    <3>1. /\ \/ pc' = [pc EXCEPT ![t] = "append"]
             \/ pc' = [pc EXCEPT ![t] = "insert"]
          /\ raced' = IF Making(w) = {} THEN raced ELSE raced \cup {w}
      BY <1>4, <2>2 DEF Lookup
    <3>2. ASSUME NEW u \in Type \ raced' PROVE OneMakerOf(u)'
      <4>1. u \in Type \ raced /\ OneMakerOf(u)
        BY <1>0, <3>1
      <4>2. ChildrenOf(u)' = ChildrenOf(u)
        BY <2>1 DEF ChildrenOf
      <4>3. CASE u # w
        <5>1. Making(u)' = Making(u) /\ \A s \in Making(u) : pc'[s] = pc[s]
          BY <1>types, <2>1, <3>1, <4>3 DEF Making
        <5> QED
          BY <2>1, <4>1, <4>2, <5>1 DEF OneMakerOf
      <4>4. CASE u = w
        <5>1. Making(w) = {}
          BY <3>1, <3>2, <4>4
        <5>2. Making(w)' = {t}
          BY <1>types, <2>1, <3>1, <5>1 DEF Making
        <5>3. ChildrenOf(w) = {}
          BY <2>2, <4>1, <4>4, <5>1 DEF OneMakerOf
        <5> QED
          BY <2>1, <2>2, <4>2, <4>4, <5>2, <5>3 DEF OneMakerOf
      <4> QED
        BY <4>3, <4>4
    <3> QED
      BY <3>2, <1>goal
  <2>3. CASE ~(w \in Type /\ iReg[w] = None)
    <3>1. pc' = [pc EXCEPT ![t] = "idle"] /\ raced' = raced
      BY <1>4, <2>3 DEF Lookup
    <3> QED
      BY <1>types, <1>1, <2>1, <3>1
  <2> QED
    BY <2>2, <2>3
<1>5. ASSUME NEW t \in Thread, AppendChild(t)
      PROVE  OneMaker'
  <2>1. /\ pc[t] = "append" /\ pc' = [pc EXCEPT ![t] = "insert"]
        /\ children' = Append(children, [type |-> uri[t], node |-> result[t]])
        /\ UNCHANGED <<iReg, uri, raced>>
    BY <1>5 DEF AppendChild
  <2>2. uri[t] \in Type /\ result[t] \in Node
    BY <1>0, <2>1 DEF MakersHold
  <2>3. PICK e \in [type : Type, node : Node] :
           children' = Append(children, e) /\ e.type = uri[t]
    BY <2>1, <2>2
  <2>4. /\ DOMAIN children' = DOMAIN children \cup {Len(children) + 1}
        /\ \A i \in DOMAIN children : children'[i] = children[i]
        /\ children'[Len(children) + 1] = e
    BY <1>types, <2>3
  <2>5. ASSUME NEW u \in Type \ raced' PROVE OneMakerOf(u)'
    <3>1. OneMakerOf(u) /\ Making(u)' = Making(u)
      BY <1>types, <1>0, <2>1 DEF Making
    <3>2. CASE u # uri[t]
      <4>1. ChildrenOf(u)' = ChildrenOf(u)
        BY <2>3, <2>4, <3>2 DEF ChildrenOf
      <4>2. \A s \in Making(u) : pc'[s] = pc[s]
        BY <1>types, <2>1, <3>2 DEF Making
      <4> QED
        BY <2>1, <3>1, <4>1, <4>2 DEF OneMakerOf
    <3>3. CASE u = uri[t]
      <4>1. t \in Making(u)
        BY <2>1, <3>3 DEF Making
      <4>2. iReg[u] = None /\ \A s \in Making(u) : pc[s] = "append"
        BY <2>1, <3>1, <4>1 DEF OneMakerOf
      <4>3. ChildrenOf(u) = {}
        BY <3>1, <4>2 DEF OneMakerOf
      <4>4. \A i \in ChildrenOf(u)' : i = Len(children) + 1
        BY <2>4, <4>3 DEF ChildrenOf
      <4>5. pc'[t] = "insert"
        BY <1>types, <2>1
      <4> QED
        BY <2>1, <3>1, <4>1, <4>2, <4>4, <4>5 DEF OneMakerOf
    <3> QED
      BY <3>2, <3>3
  <2> QED
    BY <2>5, <1>goal
<1>6. ASSUME NEW t \in Thread, Insert(t)
      PROVE  OneMaker'
  <2>1. /\ pc[t] = "insert" /\ pc' = [pc EXCEPT ![t] = "idle"]
        /\ UNCHANGED <<children, uri, raced>>
    BY <1>6 DEF Insert
  <2>2. uri[t] \in Type /\ result[t] \in Node
    BY <1>0, <2>1 DEF MakersHold
  <2>3. /\ \A u \in Type : u # uri[t] => iReg'[u] = iReg[u]
        /\ iReg[uri[t]] = None => iReg'[uri[t]] = result[t]
        /\ iReg[uri[t]] # None => iReg'[uri[t]] = iReg[uri[t]]
    BY <1>types, <1>6, <2>2 DEF Insert
  <2>4. ASSUME NEW u \in Type \ raced' PROVE OneMakerOf(u)'
    <3>1. OneMakerOf(u) /\ ChildrenOf(u)' = ChildrenOf(u)
      BY <1>0, <2>1 DEF ChildrenOf
    <3>2. CASE u # uri[t]
      <4>1. Making(u)' = Making(u) /\ \A s \in Making(u) : pc'[s] = pc[s]
        BY <1>types, <2>1, <3>2 DEF Making
      <4> QED
        BY <2>3, <3>1, <3>2, <4>1 DEF OneMakerOf
    <3>3. CASE u = uri[t]
      <4>1. t \in Making(u)
        BY <2>1, <3>3 DEF Making
      <4>2. iReg[u] = None /\ \A s \in Making(u) : s = t
        BY <3>1, <4>1 DEF OneMakerOf
      <4>3. Making(u)' = {}
        BY <1>types, <2>1, <4>2 DEF Making
      <4>4. iReg'[u] # None
        <5>1. iReg'[u] \in Node /\ None \notin Node
          BY <2>2, <2>3, <3>3, <4>2 DEF Node
        <5> QED
          BY <5>1
      <4> QED
        BY <3>1, <4>3, <4>4 DEF OneMakerOf
    <3> QED
      BY <3>2, <3>3
  <2> QED
    BY <2>4, <1>goal
<1>7. CASE Fault
  BY <1>1, <1>7 DEF Fault
<1> QED
  BY <1>2, <1>3, <1>4, <1>5, <1>6, <1>7 DEF Next, Stopped

-----------------------------------------------------------------------------
\* The invariant is inductive.
LEMMA IInvariant == Spec => []IInv
<1>1. IInv /\ [Next]_vars => IInv'
  BY TypeStep, NumberStep, BelowStep, MakerStep DEF IInv
<1> QED
  BY InitIInv, <1>1, PTL DEF Spec

\* The provider's state stays well typed, whatever the threads do.
THEOREM ProviderTypeCorrect == Spec => []TypeOK
<1>1. IInv => TypeOK
  BY DEF IInv
<1> QED
  BY IInvariant, <1>1, PTL

\* A class node that GetNode finds in the registry is below "Elem", unless the
\* thread that made it did not find "Elem"; then it never is.
THEOREM RegisteredAreBelow == Spec => []RegisteredBelowElem
<1>1. IInv => RegisteredBelowElem
  BY DEF IInv
<1> QED
  BY IInvariant, <1>1, PTL

\* GetNode makes a second class node of a type only if two threads have been
\* between its test of the registry and its insertion for that type.
THEOREM ClassNodesAreSingle == Spec => []OneClassNode
<1>1. IInv => OneClassNode
  <2> SUFFICES ASSUME IInv, NEW u \in Type \ raced
               PROVE  Cardinality(ChildrenOf(u)) =< 1
    BY DEF OneClassNode
  <2>1. \A i, j \in ChildrenOf(u) : i = j
    BY DEF IInv, OneMaker, OneMakerOf
  <2>2. CASE ChildrenOf(u) = {}
    BY <2>2, FS_EmptySet
  <2>3. CASE ChildrenOf(u) # {}
    <3>1. PICK i : ChildrenOf(u) = {i}
      BY <2>1, <2>3
    <3>2. Cardinality({i}) = 1
      BY FS_Singleton, Zenon
    <3> QED
      BY <3>1, <3>2
  <2> QED
    BY <2>2, <2>3
<1> QED
  BY IInvariant, <1>1, PTL
=============================================================================
