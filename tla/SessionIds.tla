----------------------------- MODULE SessionIds -----------------------------
(***************************************************************************)
(* What the table of sessions promises: a session joins once and leaves    *)
(* once, and the id it is given is the number of sessions present when it  *)
(* joins.  Nothing says that two present sessions have different ids: an   *)
(* id freed by the departure of one session can be the id of another.      *)
(***************************************************************************)
EXTENDS Integers, FiniteSets

CONSTANTS Session

NoId == -1

VARIABLES
  present,  \* the sessions in the table
  id        \* the id given to each session, NoId before it joins

vars == <<present, id>>

Init == present = {} /\ id = [s \in Session |-> NoId]

Join(s) ==
  /\ id[s] = NoId
  /\ id' = [id EXCEPT ![s] = Cardinality(present)]
  /\ present' = present \cup {s}

Leave(s) ==
  /\ s \in present
  /\ present' = present \ {s}
  /\ UNCHANGED id

Next == \E s \in Session : Join(s) \/ Leave(s)

Spec == Init /\ [][Next]_vars
=============================================================================
