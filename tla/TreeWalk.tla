-------------------------------- MODULE TreeWalk --------------------------------
(***************************************************************************)
(* What a scan promises: whatever order it goes in, it finds only what can *)
(* be reached from the roots, forgets nothing it has found, and ends only  *)
(* with all of it. "opens" is fixed when the walk begins: a scan that is   *)
(* not recursive opens nothing.                                            *)
(***************************************************************************)
CONSTANTS File, Start,
  Kids,    \* Kids[f]: what opening f shows
  Modes    \* the sets of files a walk may open

\* What an instance has to satisfy; Scanner's own assumption is stronger.
WalkConstants ==
  Start \subseteq File /\ Kids \in [File -> SUBSET File] /\ Modes \subseteq SUBSET File

VARIABLES found, opens, done

walk == <<found, opens, done>>

Closed(S, o) == Start \subseteq S /\ \A f \in S \cap o : Kids[f] \subseteq S

\* The least closed set: what is in every one of them.
Reach == [o \in Modes |-> {f \in File : \A S \in SUBSET File : Closed(S, o) => f \in S}]

Init == found \in {{}, Start} /\ opens \in Modes /\ done = FALSE

Discover ==
  /\ ~done
  /\ \E S \in SUBSET (Reach[opens] \ found) : S # {} /\ found' = found \cup S
  /\ UNCHANGED <<opens, done>>

Finish ==
  /\ Closed(found, opens)
  /\ done' = TRUE
  /\ UNCHANGED <<found, opens>>

Next == Discover \/ Finish
Spec == Init /\ [][Next]_walk

\* A finished walk has found what can be reached, and nothing else.
Complete == done => found = Reach[opens]
================================================================================
