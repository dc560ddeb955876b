----------------------------- MODULE MCRunStore -----------------------------
(***************************************************************************)
(* An instance of RunStore for TLC, in two scenes: online runs that        *)
(* compete for the slots and are created again, and ended runs under the   *)
(* retention policy.  A behaviour stays within the runs and parts of its   *)
(* scene.                                                                  *)
(***************************************************************************)
EXTENDS RunStore

CONSTANTS Competing, Retiring   \* the runs of the two scenes

VARIABLE scene

Scenes ==
  [competition |-> [runs |-> Competing, parts |-> {"collector"}, time |-> 0],
   retention   |-> [runs |-> Retiring, parts |-> {}, time |-> MaxTime]]

WithinScene ==
  LET s == Scenes[scene] IN
  /\ used \subseteq s.runs /\ now <= s.time
  /\ \A r \in used : /\ runs[r].parts \subseteq s.parts
                     /\ runs[r].candidates \cup {runs[r].best} \subseteq s.runs \cup {None}

SceneInit == StoreInit /\ scene \in DOMAIN Scenes

SceneSpec ==
  /\ SceneInit
  /\ [][StoreNext /\ UNCHANGED scene /\ WithinScene']_<<runs, used, now, scene>>
=============================================================================
