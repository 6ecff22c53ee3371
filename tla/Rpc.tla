-------------------------------- MODULE Rpc --------------------------------
(***************************************************************************)
(* What BaseClient::Request promises: one call at a time; the server runs  *)
(* a request at most once; a call returns the answer to its own request,   *)
(* which has then been run, or reports a failure.                          *)
(***************************************************************************)
EXTENDS Naturals

CONSTANTS MaxCalls

VARIABLES
  call,    \* the number of calls made
  busy,    \* a call is in progress
  runs,    \* how often the server ran the request of this call
  outcome  \* what the last call reported

vars == <<call, busy, runs, outcome>>

Outcome == {"none", "answer", "failure"}

Init == call = 0 /\ busy = FALSE /\ runs = 0 /\ outcome = "none"

Call ==
  /\ ~busy /\ call < MaxCalls
  /\ call' = call + 1 /\ busy' = TRUE /\ runs' = 0 /\ outcome' = "none"

\* A call that fails before anything is sent.
CallFails ==
  /\ ~busy /\ call < MaxCalls
  /\ call' = call + 1 /\ runs' = 0 /\ outcome' = "failure"
  /\ UNCHANGED busy

Run ==
  /\ busy /\ runs = 0
  /\ runs' = 1
  /\ UNCHANGED <<call, busy, outcome>>

Return ==
  /\ busy /\ busy' = FALSE
  /\ \/ runs = 1 /\ outcome' = "answer"
     \/ outcome' = "failure"
  /\ UNCHANGED <<call, runs>>

Next == Call \/ CallFails \/ Run \/ Return

Spec == Init /\ [][Next]_vars
=============================================================================
