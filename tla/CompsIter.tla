----------------------------- MODULE CompsIter -----------------------------
(***************************************************************************)
(* ARenv::CompsIter and ARenvu::CompsIter of dmas/renv.cpp: the iterator   *)
(* over the local nodes that an element of a GUri names, in the loop its   *)
(* users write:                                                            *)
(*   for (it = NodesLoc_Begin(id); it != NodesLoc_End(id); it++) use *it   *)
(*                                                                         *)
(* The relation of the id decides what is iterated: the remote root        *)
(* (KNodeSep) or the children (KParentSep).  A child may be removed while  *)
(* a loop is running: it stays in place, marked.  The two classes differ   *)
(* in what they do without a remote root, which ARenvu never has.          *)
(***************************************************************************)
EXTENDS Integers, SequencesExt

CONSTANTS
  Name,      \* names of nodes
  AnyName,   \* KTypeAny
  None,      \* the null pointer, and no name
  MaxChilds  \* bound: children of the agent

ASSUME ConstantsAssumption ==
  AnyName \notin Name /\ None \notin Name \cup {AnyName} /\ MaxChilds \in Nat

\* The id: its relation, the name wanted and, where it has one, the name of
\* the owner or, for the root, of the parent.
Id == [rel : {"child", "node"}, name : Name \cup {AnyName},
       ext : Name \cup {AnyName, None}]

Child == [name : Name, owner : Name, removed : BOOLEAN]

VARIABLES
  agent,    \* whose iterator it is: "ARenv" or "ARenvu"
  iChilds,  \* the children registered, in the order of the multimap
  mRroot,   \* the remote root's name, None if there is no remote root
  iId,      \* what the loop is about
  pc,       \* the loop: "start", "test", "use", "done", or "lost" when the
            \* program has used a null or a past-the-end pointer
  it,       \* its iterator: position, mEnd, and whether it has its range
  used      \* what it has used so far: positions, 0 for the root

vars == <<agent, iChilds, mRroot, iId, pc, it, used>>

\* equal_range of the name, the whole map for any name: the first position and
\* the one past the last.
Named   == {i \in DOMAIN iChilds : iId.name \in {AnyName, iChilds[i].name}}
First   == IF Named = {} THEN Len(iChilds) + 1 ELSE Min(Named)
PastEnd == IF Named = {} THEN Len(iChilds) + 1 ELSE Max(Named) + 1

Filtered == iId.ext \notin {None, AnyName}
Owned(i) == Filtered => iChilds[i].owner = iId.ext
Fits(i)  == Owned(i) /\ ~iChilds[i].removed

\* Slip: the owner is not compared.
SeekUnowned(i, end) == LET fit == {j \in i .. end - 1 : ~iChilds[j].removed}
                       IN IF fit = {} THEN end ELSE Min(fit)

\* From position i on, the first child that the filters let through, before
\* the end the iterator knows; one that has no range finds no end, and what
\* it returns past the last child is not a child.
Seek(i, end) == LET fit == {j \in i .. end - 1 : Fits(j)}
                IN IF fit = {} THEN end ELSE Min(fit)

\* mEnd is set as the caller asked, and for children never again.
Iterator(pos, end) == [pos |-> pos, mEnd |-> end, ranged |-> TRUE]

\* NodesLoc_Begin.  For the root, the comparison of its name is overwritten.
Begin ==
  IF iId.rel = "child" THEN Iterator(Seek(First, PastEnd), FALSE)
  ELSE Iterator(0, Filtered)

\* NodesLoc_End.
End == IF iId.rel = "child" THEN Iterator(PastEnd, TRUE) ELSE Iterator(0, TRUE)

\* Slips: the iterator is not moved on, or once too often.
IncrementedFrom(i) ==
  IF iId.rel = "node" THEN [it EXCEPT !.mEnd = TRUE]
  ELSE [it EXCEPT !.pos = Seek(i, Len(iChilds) + 1)]
IncrementedStuck  == IncrementedFrom(it.pos)
IncrementedTwice  == IncrementedFrom(it.pos + 2)

\* The iterator after PostIncr: an iterator that is past the end of its range,
\* or that has lost it, goes on to the end of the map.
Incremented ==
  IF iId.rel = "node" THEN [it EXCEPT !.mEnd = TRUE]
  ELSE LET end == IF it.ranged /\ it.pos < PastEnd THEN PastEnd
                  ELSE Len(iChilds) + 1
       IN [it EXCEPT !.pos = Seek(it.pos + 1, end)]

IsEqual(x, y) == x.pos = y.pos /\ x.mEnd = y.mEnd
-----------------------------------------------------------------------------
\* A multimap keeps the children of one name together.
Grouped(s) ==
  \A i, j, k \in DOMAIN s : i < j /\ j < k /\ s[i].name = s[k].name =>
    s[j].name = s[i].name

Init ==
  /\ iChilds \in {s \in BoundedSeq(Child, MaxChilds) : Grouped(s)}
  /\ agent \in {"ARenv", "ARenvu"}
  /\ mRroot \in IF agent = "ARenv" THEN Name \cup {None} ELSE {None}
  /\ iId \in Id
  /\ pc = "start" /\ it = Iterator(0, FALSE) /\ used = <<>>

\* With a parent's name wanted, the root's parent is asked for its name; the
\* root is a proxy, which has no parent.  ARenv first tests that there is a
\* root, ARenvu does not, nor before it asks the root for its own name.
UsesNull ==
  /\ iId.rel = "node"
  /\ IF agent = "ARenv" THEN Filtered /\ mRroot # None
     ELSE Filtered \/ iId.name # AnyName

Start ==
  /\ pc = "start"
  /\ IF UsesNull
     THEN pc' = "lost" /\ UNCHANGED it
     ELSE pc' = "test" /\ it' = Begin
  /\ UNCHANGED <<agent, iChilds, mRroot, iId, used>>

\* The copy constructor does not copy the range.
Copy ==
  /\ pc = "test"
  /\ it' = [it EXCEPT !.ranged = FALSE]
  /\ UNCHANGED <<agent, iChilds, mRroot, iId, pc, used>>

Test ==
  /\ pc = "test"
  /\ pc' = IF IsEqual(it, End) THEN "done" ELSE "use"
  /\ UNCHANGED <<agent, iChilds, mRroot, iId, it, used>>

\* Slip: there always is an element.
UseUnchecked ==
  /\ pc = "use"
  /\ used' = Append(used, it.pos)
  /\ it' = Incremented
  /\ pc' = "test"
  /\ UNCHANGED <<agent, iChilds, mRroot, iId>>

\* GetElem has nothing to return: no root, or past the last child.
NoElement ==
  IF iId.rel = "node" THEN mRroot = None ELSE it.pos > Len(iChilds)

\* GetElem, and on to the next.  The loop uses what GetElem returns untested.
Use ==
  /\ pc = "use"
  /\ IF NoElement
     THEN pc' = "lost" /\ UNCHANGED <<it, used>>
     ELSE /\ used' = Append(used, it.pos)
          /\ it' = Incremented
          /\ pc' = "test"
  /\ UNCHANGED <<agent, iChilds, mRroot, iId>>

\* The node is removed by what is done with the nodes: it is only marked.
SetRemoved(i) ==
  /\ pc \in {"test", "use"}
  /\ iChilds' = [iChilds EXCEPT ![i].removed = TRUE]
  /\ UNCHANGED <<agent, mRroot, iId, pc, it, used>>

Over == pc \in {"done", "lost"} /\ UNCHANGED vars

Next == Start \/ Copy \/ Test \/ Use \/ Over \/ \E i \in DOMAIN iChilds : SetRemoved(i)

Spec == Init /\ [][Next]_vars
-----------------------------------------------------------------------------
TypeOK ==
  /\ agent \in {"ARenv", "ARenvu"}
  /\ iChilds \in Seq(Child) /\ mRroot \in Name \cup {None} /\ iId \in Id
  /\ pc \in {"start", "test", "use", "done", "lost"}
  /\ it \in [pos : 0 .. MaxChilds + 1, mEnd : BOOLEAN, ranged : BOOLEAN]
  /\ used \in Seq(0 .. MaxChilds)

\* As long as the loop is before the end of the range, every child it has used
\* has the name and the owner wanted.
UsedFit ==
  iId.rel = "child" /\ it.pos =< PastEnd /\ it.ranged =>
    \A i \in ToSet(used) : i \in Named /\ Owned(i)

\* A loop that gets to the end of its range has used every child that fits and
\* is still there, although others were removed under it.
NoneMissed ==
  iId.rel = "child" /\ pc # "start" /\ it.ranged /\ it.pos >= PastEnd =>
    \A i \in Named : Fits(i) => i \in ToSet(used)

\* A loop over the remote root uses it at most once, and one over children uses
\* none of them twice.
UsedOnce == \A i, j \in DOMAIN used : used[i] = used[j] => i = j

\* A loop over children that goes on until its iterator equals the end iterator
\* stays inside its range.
StaysInRange ==
  pc = "use" /\ iId.rel = "child" /\ it.ranged => it.pos < PastEnd
=============================================================================
