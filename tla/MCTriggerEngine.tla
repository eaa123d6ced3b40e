--------------------------- MODULE MCTriggerEngine ---------------------------
\* TriggerEngine on two rules, one scheduled and one watching a session.
EXTENDS TriggerEngine

CONSTANTS w1, w2, q1

ScheduleFirst == [e \in Events |-> IF e = q1 THEN 2 ELSE 1]
AllRemote == [r \in Rules |-> "remote"]
FirstRemote == [r \in Rules |-> IF r = 1 THEN "remote" ELSE "quiet"]

\* The first instant could fire twice, if the engine let it.
Twice == [e \in Events |-> IF e = 1 THEN 2 ELSE 1]

\* Two small instances in one run: two instants of the schedule while no session waits and
\* no rule is muted, or one instant and a session, of which only the session comes once
\* something has gone wrong.
VARIABLE scene
Scenes == {"schedule", "session"}
InScene ==
  /\ scene = "schedule" => \A w \in Workers : q1 \notin loop'[w].batch /\ mem'[w].muted = {}
  /\ scene = "session" => due' \subseteq {1} /\ (faults' = 0 \/ due' = {})

SceneInit == Init /\ scene \in Scenes
SceneSpec == SceneInit /\ [][Next /\ InScene /\ UNCHANGED scene]_<<vars, scene>>
FairSceneSpec == SceneSpec /\ Fairness

=============================================================================
