-------------------------- MODULE ConfirmContract --------------------------
(***************************************************************************)
(* What a confirmation promises of each pending action, with no files and  *)
(* no workers: it is stated, its call runs at most once, and it is closed  *)
(* once and for all with an outcome that agrees with what happened.        *)
(***************************************************************************)
EXTENDS Integers

CONSTANT Actions

VARIABLES outcome, ran

vars == <<outcome, ran>>

NotRun == {"declined", "superseded", "drifted", "expired"}

Init ==
  /\ outcome = [a \in Actions |-> "absent"]
  /\ ran = [a \in Actions |-> 0]

State(a) ==
  /\ outcome[a] = "absent"
  /\ outcome' = [outcome EXCEPT ![a] = "open"]
  /\ UNCHANGED ran

Perform(a) ==
  /\ outcome[a] = "open"
  /\ ran[a] = 0
  /\ ran' = [ran EXCEPT ![a] = 1]
  /\ UNCHANGED outcome

\* A failed call may have had its effect before it raised.
Close(a, o) ==
  /\ outcome[a] = "open"
  /\ o = "executed" => ran[a] = 1
  /\ o \in NotRun => ran[a] = 0
  /\ outcome' = [outcome EXCEPT ![a] = o]
  /\ UNCHANGED ran

Next ==
  \E a \in Actions :
    \/ State(a)
    \/ Perform(a)
    \/ \E o \in NotRun \cup {"executed", "failed"} : Close(a, o)

Spec == Init /\ [][Next]_vars

=============================================================================
