------------------------------ MODULE Electrode ------------------------------
(***************************************************************************)
(* A replica with the programs of samples/electrode loaded.  In the view   *)
(* of the cluster it is either a follower, whose XDP program answers       *)
(* PrepareMessages, or the leader, whose programs broadcast them and count *)
(* the answers; the maps of the other role stay as they were made.         *)
(***************************************************************************)
EXTENDS ElectrodeReplica, ElectrodeLeader

VARIABLE role   \* what the replica is

vars == <<role, replicaVars, leaderVars>>

Init == /\ role \in {"follower", "leader"}
        /\ ReplicaInit /\ LeaderInit
        /\ role = "follower" => leader_idx = 0

Next == /\ UNCHANGED role
        /\ \/ role = "follower" /\ ReplicaNext /\ UNCHANGED leaderVars
           \/ role = "leader" /\ LeaderNext /\ UNCHANGED replicaVars

Spec == Init /\ [][Next]_vars /\ LeaderFairness
=============================================================================
