----------------------------- MODULE JobPromise -----------------------------
(***************************************************************************)
(* What a producer may rely on once its request is in the job queue:       *)
(* at-least-once execution.  A request stays open until the end of its job *)
(* has been announced; success is announced only for a job whose script    *)
(* exited with status 0; both an announcement and a closed request are for *)
(* good.  Nothing is promised about how often the script runs, nor that    *)
(* only one outcome is announced.                                          *)
(***************************************************************************)
CONSTANT Requests

VARIABLES
  phase,      \* phase[r]: "absent", "open" or "closed"
  ran,        \* requests whose script exited with status 0 at least once
  announced   \* announced[r]: the terminal outcomes published so far

vars == <<phase, ran, announced>>

Terminal == {"SUCCEEDED", "FAILED_FINAL"}

Init ==
  /\ phase = [r \in Requests |-> "absent"]
  /\ ran = {}
  /\ announced = [r \in Requests |-> {}]

Submit(r) ==
  /\ phase[r] = "absent"
  /\ phase' = [phase EXCEPT ![r] = "open"]
  /\ UNCHANGED <<ran, announced>>

Run(r) ==
  /\ phase[r] # "absent"
  /\ ran' = ran \cup {r}
  /\ UNCHANGED <<phase, announced>>

Announce(r, outcome) ==
  /\ phase[r] # "absent"
  /\ outcome = "SUCCEEDED" => r \in ran
  /\ announced' = [announced EXCEPT ![r] = @ \cup {outcome}]
  /\ UNCHANGED <<phase, ran>>

Close(r) ==
  /\ phase[r] = "open"
  /\ announced[r] # {}
  /\ phase' = [phase EXCEPT ![r] = "closed"]
  /\ UNCHANGED <<ran, announced>>

Next == \E r \in Requests : \/ Submit(r) \/ Run(r) \/ Close(r)
                            \/ \E outcome \in Terminal : Announce(r, outcome)

Spec == Init /\ [][Next]_vars

\* An open request is eventually closed.
FairSpec == Spec /\ \A r \in Requests : phase[r] = "open" ~> phase[r] = "closed"
=============================================================================
