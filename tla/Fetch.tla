-------------------------------- MODULE Fetch --------------------------------
(***************************************************************************)
(* core/fetch: a core that does not generate blocks downloads them from    *)
(* the generator and applies them to its own chain.  Two goroutines hand   *)
(* blocks and errors over on unbuffered channels; a third polls the height *)
(* of the generator.  A call of the peer may fail or time out.             *)
(***************************************************************************)
EXTENDS Replica

CONSTANTS MaxErrors, MaxRestarts

VARIABLES download,  \* DownloadBlocks: what it is at, and the next height
          fetching,  \* Fetch: the height of the block it applies; 0: at its channels
          errors, restarts

fetchvars == <<download, fetching, errors, restarts>>
netvars == <<rvars, fetchvars>>

FetchInit ==
  /\ ReplicaInit
  /\ download = [at |-> "get", height |-> 1] /\ fetching = 0
  /\ errors = 0 /\ restarts = 0
-----------------------------------------------------------------------------
\* The peer waits for a block it does not have yet; when that takes too long nothing
\* is returned and the call is repeated.
getBlock ==
  /\ download.at = "get"
  /\ download.height <= Len(chain)
  /\ download' = [download EXCEPT !.at = "block"]
  /\ UNCHANGED <<rvars, fetching, errors, restarts>>
getBlockFails ==
  /\ download.at = "get" /\ errors < MaxErrors
  /\ errors' = errors + 1
  /\ download' = [download EXCEPT !.at = "error"]
  /\ UNCHANGED <<rvars, fetching, restarts>>

\* Fetch receives from errch or from blockch.
ReceiveError ==
  /\ fetching = 0 /\ download.at = "error"
  /\ download' = [download EXCEPT !.at = "get"]
  /\ UNCHANGED <<rvars, fetching, errors, restarts>>
ReceiveBlock ==
  /\ fetching = 0 /\ download.at = "block"
  /\ download' = [at |-> "get", height |-> download.height + 1]
  /\ fetching' = download.height
  /\ UNCHANGED <<rvars, errors, restarts>>

\* applyBlock succeeds.  A block that does not validate is tried again and again: its
\* error is wrapped and so is never protocol.ErrBadBlock.
applyBlock ==
  /\ fetching = Len(applied) + 1
  /\ chain[fetching].valid
  /\ applied' = Append(applied, chain[fetching])
  /\ fetching' = 0
  /\ UNCHANGED <<chain, generatorHeight, download, errors, restarts>>

\* Mutant: the newest block is downloaded again.
StartHeightAgain == IF applied = <<>> THEN 1 ELSE Len(applied)

StartHeight == Len(applied) + 1

\* The process ends and Fetch is called again.
Refetch ==
  /\ restarts < MaxRestarts
  /\ restarts' = restarts + 1
  /\ download' = [at |-> "get", height |-> StartHeight] /\ fetching' = 0
  /\ Restart
  /\ UNCHANGED errors

Fetching == getBlock \/ ReceiveError \/ ReceiveBlock \/ applyBlock
FetchNext ==
  \/ Fetching \/ getBlockFails \/ Refetch
  \/ UNCHANGED fetchvars /\ (updateGeneratorHeight \/ \E valid \in BOOLEAN : GeneratorBlock({}, valid))
FetchSpec == FetchInit /\ [][FetchNext]_netvars
-----------------------------------------------------------------------------
\* Whatever calls fail and whenever the core is restarted, its chain follows the
\* generator's, block by block, up to one that is not valid (fetch.go, Fetch,
\* DownloadBlocks).
ImplementsReplica == ReplicaSpec
=============================================================================
