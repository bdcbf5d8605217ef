------------------------------ MODULE MCRaft ------------------------------
(* One member, a process that may join it and one that may not.  Either    *)
(* the second stays away while clients insert and read; or both try to     *)
(* join at once, without faults or clients; or none joins and clients      *)
(* insert and delete.                                                      *)
EXTENDS Raft, TLC

CONSTANTS c1, c2, c3, c4, k, n1, n2, n3, n4
MCScript ==
  c1 :> [at |-> n1, op |-> "insert", key |-> k]
  @@ c2 :> [at |-> n2, op |-> "insert", key |-> k]
  @@ c3 :> [at |-> n2, op |-> "get", key |-> k]
  @@ c4 :> [at |-> n1, op |-> "delete", key |-> k]

Away == [NoCall EXCEPT !.phase = "done", !.try = MaxTries, !.result = "shutdown"]
Absent(cs, tries) == [c \in Callers |-> IF c \in cs THEN Away ELSE [NoCall EXCEPT !.try = tries]]
MCInit ==
  \/ InitWith(Absent({n3, c4}, 1), 0)
  \/ InitWith(Absent(Calls, 0), MaxFaults)
  \/ InitWith(Absent({n2, n3, c2, c3}, 0), 0)
MCSpec == MCInit /\ [][RaftNext]_raftVars
=============================================================================
