-------------------------- MODULE MCClusterMonitor ---------------------------
(***************************************************************************)
(* Instances of ClusterMonitor for TLC.                                    *)
(***************************************************************************)
EXTENDS ClusterMonitor

\* The active daemon has an id of its own, the standby the one its role has on the
\* dashboard from the start.
Ids == [r \in Roles |-> IF r = "ACTIVE" THEN {"pod-1", "spot-node-active"}
                        ELSE {"spot-node-us-east-1b", "spot-node-standby"}]
StandIns == [r \in Roles |-> IF r = "ACTIVE" THEN "spot-node-active" ELSE "spot-node-standby"]
DemoNodes == [r \in Roles |-> IF r = "ACTIVE" THEN "spot-node-us-east-1a"
                              ELSE "spot-node-us-east-1b"]
==============================================================================
