------------------------------ MODULE Snapshot ------------------------------
(***************************************************************************)
(* The blockchain state of protocol/state/snapshot.go: the set of unspent  *)
(* output IDs (the patricia tree) and the set of nonce IDs that still      *)
(* protect an issuance from being replayed.                                *)
(*                                                                         *)
(* A transaction is a record: whether it passes Chain.ValidateTx, the      *)
(* nonces of its issuances, the outputs it spends, the outputs it creates  *)
(* (retirements left out) and its time range.  IDs are hashes, so they are *)
(* model values.  legacy.MapTx collects the nonce and prevout IDs in Go    *)
(* maps and copies them out with "range", so their order is arbitrary:     *)
(* they are sets here, and what depends on the order is a choice.          *)
(***************************************************************************)
EXTENDS Naturals

CONSTANTS Nonce,    \* IDs of nonce entries
          Output,   \* IDs of outputs
          Expiry,   \* Expiry[n]: end of the time range that nonce n commits to
          Tx        \* the transactions anybody may submit

Transaction == [valid   : BOOLEAN,
                nonces  : SUBSET Nonce,
                spent   : SUBSET Output,
                results : SUBSET Output,
                minTime : Nat,
                maxTime : Nat]

ASSUME TxAssumption ==
  /\ Expiry \in [Nonce -> Nat]
  /\ Tx \subseteq Transaction

(***************************************************************************)
(* What mapTx and checkValid guarantee of a transaction that validates.    *)
(* A nonce entry commits to the transaction's time range, and a valid one  *)
(* has a nonzero end (errZeroTime).  An output exists only through a mux,  *)
(* which has a spend or a nonce-anchored issuance behind it, and its ID    *)
(* commits to the mux's sources: two transactions that create the same     *)
(* output consume the same prevouts and nonces, and none creates an output *)
(* it spends.                                                              *)
(***************************************************************************)
ASSUME EntryAssumption ==
  \A t \in Tx : t.valid =>
    /\ \A n \in t.nonces : Expiry[n] = t.maxTime /\ t.maxTime > 0
    /\ t.results # {} => t.nonces \cup t.spent # {}
    /\ t.results \cap t.spent = {}
    /\ \A u \in Tx : u.valid /\ t.results \cap u.results # {} =>
          t.nonces = u.nonces /\ t.spent = u.spent

SnapshotType == [tree : SUBSET Output, nonces : SUBSET Nonce]

Empty == [tree |-> {}, nonces |-> {}]

\* Mutant: a nonce goes at its expiry time, not after it.
PruneNoncesEarly(s, ts) == [s EXCEPT !.nonces = {n \in s.nonces : ~(ts >= Expiry[n])}]

\* PruneNonces drops the nonces that expire before ts.
PruneNonces(s, ts) == [s EXCEPT !.nonces = {n \in s.nonces : ~(ts > Expiry[n])}]

CanApply(s, tx) ==
  /\ tx.nonces \cap s.nonces = {}
  /\ tx.spent \subseteq s.tree

\* Mutant: the spent outputs stay.
AppliedKeepSpent(s, tx) == [tree   |-> s.tree \cup tx.results,
                            nonces |-> s.nonces \cup tx.nonces]

\* The snapshot after an ApplyTx that returns nil.
Applied(s, tx) == [tree   |-> (s.tree \ tx.spent) \cup tx.results,
                   nonces |-> s.nonces \cup tx.nonces]

(***************************************************************************)
(* The snapshots an ApplyTx that returns an error may leave behind.  It    *)
(* works in place and undoes nothing: the nonces (or, past the nonces, the *)
(* prevouts) visited before the offending one stay added (removed).        *)
(***************************************************************************)
FailedApply(s, tx) ==
  IF tx.nonces \cap s.nonces # {}
  THEN {[s EXCEPT !.nonces = s.nonces \cup N] : N \in SUBSET (tx.nonces \ s.nonces)}
  ELSE {[tree |-> s.tree \ P, nonces |-> s.nonces \cup tx.nonces] :
          P \in SUBSET (tx.spent \cap s.tree)}

\* GenerateBlock and ValidateBlock: the block's timestamp lies in tx's range.
Timely(tx, ts) ==
  /\ tx.minTime > 0 => tx.minTime <= ts
  /\ tx.maxTime > 0 => tx.maxTime >= ts

=============================================================================
