--------------------------- MODULE MCRunExecutor ---------------------------
(***************************************************************************)
(* Instances of RunExecutor for TLC.  The safety properties are checked in *)
(* four scenes, one for each kind of run: a behaviour creates the runs of  *)
(* its scene only and makes as many calls as the scene allows.             *)
(***************************************************************************)
EXTENDS RunExecutor, TLC

\* The calls of one operation are interchangeable.
CallSymmetry == Permutations(Starts) \cup Permutations(Stops) \cup Permutations(Renews)

CONSTANTS Plain, Online, Leased, Batch   \* the runs of the scenes

VARIABLE scene

Scenes ==
  [plain  |-> [runs |-> Plain, inputs |-> {"good", "broken", "invalid"}, starts |-> 2, stops |-> 1, renews |-> 0, time |-> 1],
   online |-> [runs |-> Online, inputs |-> {"good"}, starts |-> 2, stops |-> 0, renews |-> 0, time |-> 0],
   lease  |-> [runs |-> Leased, inputs |-> {"good", "broken"}, starts |-> 1, stops |-> 1, renews |-> 1, time |-> 1],
   batch  |-> [runs |-> Batch, inputs |-> {"good"}, starts |-> 2, stops |-> 1, renews |-> 0, time |-> 0]]

Made(calls) == Cardinality({c \in calls : pc[c] # "idle"})

WithinScene ==
  LET s == Scenes[scene] IN
  /\ used \subseteq s.runs /\ now <= s.time
  /\ \A r \in used : runs[r].input \in s.inputs \cup {"nil"}
  /\ \A c \in Calls : tgt[c] \in s.runs \cup {None}
  /\ Made(Starts) <= s.starts /\ Made(Stops) <= s.stops /\ Made(Renews) <= s.renews

SceneInit == Init /\ scene \in DOMAIN Scenes

SceneSpec ==
  /\ SceneInit
  /\ [][Next /\ UNCHANGED scene /\ WithinScene']_<<vars, scene>>

\* For liveness, a plain run with as many calls as the constants give.
DrainInit == Init /\ scene = "plain"

DrainSpec == DrainInit /\ [][Next /\ UNCHANGED scene]_<<vars, scene>> /\ Fairness
=============================================================================
