-------------------------------- MODULE Cluster --------------------------------
(***************************************************************************)
(* The slot table of the cluster demo (cluster.cpp) and the test with      *)
(* which process_command decides that a key belongs to another node.  The  *)
(* table never changes after main has filled it in.                        *)
(***************************************************************************)
EXTENDS Naturals, Sequences, SequencesExt

CONSTANT KeyHash        \* std::hash of each key

\* initialize_cluster_mvc
my_node_id == "node1"
total_slots == 4
nodes == <<[node_id |-> "node1", port |-> 6379, assigned_slots |-> {0, 1}],
           [node_id |-> "node2", port |-> 6380, assigned_slots |-> {2, 3}]>>

\* The first node that has the key's slot, else the first node.
get_node_for_key(k) ==
  LET slot == KeyHash[k] % total_slots
      i == SelectInSeq(nodes, LAMBDA n : slot \in n.assigned_slots)
  IN  nodes[IF i = 0 THEN 1 ELSE i]

\* The keys this node serves.
ServedKeys == {k \in DOMAIN KeyHash : get_node_for_key(k).node_id = my_node_id}
=============================================================================
