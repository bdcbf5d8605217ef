------------------------------- MODULE Replica -------------------------------
(***************************************************************************)
(* What core/fetch promises to a core that does not generate blocks: its   *)
(* chain is a prefix of the generator's and follows it up to the first     *)
(* block that is not valid.  The height last polled may be stale.          *)
(***************************************************************************)
EXTENDS Integers, Sequences

CONSTANTS Tx, MaxBlocks

VARIABLES chain,           \* blocks of the generator: [txs, valid]
          applied,         \* blocks of this core
          generatorHeight  \* as last polled

rvars == <<chain, applied, generatorHeight>>

ReplicaInit == chain = <<>> /\ applied = <<>> /\ generatorHeight = 0

\* The generator's next block, with the transactions txs.
GeneratorBlock(txs, valid) ==
  /\ Len(chain) < MaxBlocks
  /\ chain' = Append(chain, [txs |-> txs, valid |-> valid])
  /\ UNCHANGED <<applied, generatorHeight>>

Apply ==
  /\ Len(applied) < Len(chain)
  /\ chain[Len(applied) + 1].valid
  /\ applied' = Append(applied, chain[Len(applied) + 1])
  /\ UNCHANGED <<chain, generatorHeight>>

updateGeneratorHeight ==
  /\ generatorHeight' = Len(chain)
  /\ generatorHeight' # generatorHeight
  /\ UNCHANGED <<chain, applied>>

Restart == generatorHeight' = 0 /\ UNCHANGED <<chain, applied>>

ReplicaNext ==
  (\E txs \in SUBSET Tx, valid \in BOOLEAN : GeneratorBlock(txs, valid)) \/ Apply \/ updateGeneratorHeight \/ Restart
ReplicaSpec == ReplicaInit /\ [][ReplicaNext]_rvars /\ WF_rvars(Apply)
=============================================================================
