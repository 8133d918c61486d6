------------------------- MODULE MC_ClientTransport -------------------------
(* Threads and volumes for the runs of ClientTransport.                    *)
EXTENDS ClientTransport, TLC

CONSTANTS t1, t2, v1, v2

(* Both threads call into one mount.                                       *)
OneVolume == [t \in Threads |-> v1]

(* Two mounts of the same tag, one thread in each.                         *)
TwoVolumes == [t \in Threads |-> IF t = t1 THEN v1 ELSE v2]

ThreadSymmetry == Permutations({t1, t2})
=============================================================================
