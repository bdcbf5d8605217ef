------------------------------- MODULE MCNode -------------------------------
(* Small instances of Node: an issuance, two payments that compete for its *)
(* output, and a transaction with two prevouts of which one is missing.    *)
EXTENDS NodeLedger, TLC

CONSTANTS n1, o1, o2, o3, o4

MCNonce == {n1}
MCOutput == {o1, o2, o3, o4}
MCExpiry == n1 :> 2

Issue == [valid |-> TRUE, nonces |-> {n1}, spent |-> {}, results |-> {o1},
          minTime |-> 1, maxTime |-> 2]
Pay   == [valid |-> TRUE, nonces |-> {}, spent |-> {o1}, results |-> {o2},
          minTime |-> 0, maxTime |-> 0]
Rival == [valid |-> TRUE, nonces |-> {}, spent |-> {o1}, results |-> {o3},
          minTime |-> 2, maxTime |-> 0]
Merge == [valid |-> TRUE, nonces |-> {}, spent |-> {o1, o4}, results |-> {o2},
          minTime |-> 0, maxTime |-> 0]

\* Each of these has a single prevout or nonce: ApplyTx takes or leaves it whole.
MCSingleTx == {Issue, Pay, Rival}
MCTwoTx == {Issue, Pay}
MCTx == {Issue, Merge}
=============================================================================
