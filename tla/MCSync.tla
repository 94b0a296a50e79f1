--------------------------------- MODULE MCSync ---------------------------------
EXTENDS Sync, TLC
CONSTANTS n1, n2

\* Link treats the devices alike.
BothWays == {<<n1, n2>>, <<n2, n1>>}
Symmetry == Permutations(Node) \cup Permutations(Key) \cup Permutations(Value)

(* Either the replicated maps, their files and checkpoints, with no mesh, or    *)
(* the mesh and the offline queue, over maps that nobody writes to.             *)
VARIABLE part

MCInit == Init /\ part \in {"map", "mesh"}

InPart ==
  \/ part = "map" /\ <<meshVars, tries, queueVars, blobs>>' = <<meshVars, tries, queueVars, blobs>>
  \/ /\ part = "mesh" /\ <<state, restarts>>' = <<state, restarts>>
     /\ \A n \in Node : clock'[n][n] = clock[n][n]

MCNext == Next /\ InPart /\ UNCHANGED part

MCSpec == MCInit /\ [][MCNext]_<<vars, part>>
===============================================================================
