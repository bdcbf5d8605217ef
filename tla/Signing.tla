------------------------------ MODULE Signing -------------------------------
(***************************************************************************)
(* The generator collects block signatures (core/generator) from block     *)
(* signers (core/blocksigner), each with its own copy of the chain, its    *)
(* table signed_blocks and a key in an HSM.  A signer in Local is called   *)
(* in the generator's process (SignBlock, no validation), the others over  *)
(* HTTP (ValidateAndSignBlock).  A call that has reached a remote signer   *)
(* goes on when the generator gives it up or ends.                         *)
(*                                                                         *)
(* A block hash is injective: a block is the sequence of the contents      *)
(* (time, transactions) of the chain up to it, its height is the length.   *)
(* The initial block needs no signatures and is there from the start.      *)
(***************************************************************************)
EXTENDS Integers, Sequences, FiniteSets

CONSTANTS Signer,
          Local,        \* the signers in the generator's process
          Exposed,      \* remote signers that others than the generator call too
          Content,      \* what tells apart the blocks of a height
          Quorum,       \* of the consensus program
          None,
          MaxHeight,
          MaxFail,      \* bound on the calls that fail
          MaxRestart    \* bound on the restarts of the generator

Block == Seq(Content)

ASSUME SigningAssumption ==
  /\ IsFiniteSet(Signer) /\ Local \subseteq Signer /\ Exposed \subseteq Signer
  /\ Quorum \in Nat /\ MaxHeight \in Nat /\ MaxFail \in Nat /\ MaxRestart \in Nat
  /\ None \notin Block

VARIABLES chain,      \* the generator's last committed block
          pending,    \* table generator_pending_block
          asked,      \* the block MakeBlock collects signatures for, or None
          waiting,    \* the signers whose reply is outstanding
          good,       \* the signers whose signature has arrived (goodSigs)
          calls,      \* the calls at the signers: [signer, b, pc, live]
          locked,     \* table signed_blocks of each signer
          known,      \* the height of each signer's own chain
          signatures, \* every signature a signer has ever made
          fails, restarts

vars == <<chain, pending, asked, waiting, good, calls, locked, known, signatures,
          fails, restarts>>

Call == [signer : Signer, b : Block, pc : {"call", "locked"}, live : BOOLEAN]

Init ==
  /\ \E c \in Content : chain = <<c>>
  /\ pending = None
  /\ asked = None
  /\ waiting = {}
  /\ good = {}
  /\ calls = {}
  /\ locked = [s \in Signer |-> {}]
  /\ known = [s \in Signer |-> 0]
  /\ signatures = {}
  /\ fails = 0
  /\ restarts = 0

Fail == fails < MaxFail /\ fails' = fails + 1

-----------------------------------------------------------------------------
(* The generator.                                                          *)

HavePending == pending # None /\ Len(pending) = Len(chain) + 1

\* MakeBlock generates a block and saves it.  (When saving reports an error
\* the row is there, and this is what happened, or it is not.)
Generate(c) ==
  /\ asked = None
  /\ ~HavePending
  /\ Len(chain) < MaxHeight
  /\ pending' = Append(chain, c)
  /\ UNCHANGED <<chain, asked, waiting, good, calls, locked, known, signatures, fails, restarts>>

\* getAndAddBlockSignatures starts one goroutine per signer.
Collect ==
  /\ asked = None
  /\ HavePending
  /\ Cardinality(Signer) >= Quorum
  /\ asked' = pending
  /\ waiting' = Signer
  /\ calls' = calls \cup {[signer |-> s, b |-> pending, pc |-> "call", live |-> TRUE] :
                            s \in Signer}
  /\ UNCHANGED <<chain, pending, good, locked, known, signatures, fails, restarts>>

\* The context of the calls is cancelled; the signers may carry on with them.
Abandon(kept) ==
  /\ asked' = None
  /\ waiting' = {}
  /\ good' = {}
  /\ calls' = {[c EXCEPT !.live = FALSE] : c \in kept}

\* Mutant: one signature less is enough.
CommitEarly ==
  /\ asked # None
  /\ Cardinality(good) >= Quorum - 1
  /\ chain' = asked
  /\ Abandon(calls)
  /\ UNCHANGED <<pending, locked, known, signatures, fails, restarts>>

\* There are enough signatures: the block is committed, or that fails.
Commit ==
  /\ asked # None
  /\ Cardinality(good) >= Quorum
  /\ \/ chain' = asked /\ UNCHANGED fails
     \/ Fail /\ UNCHANGED chain
  /\ Abandon(calls)
  /\ UNCHANGED <<pending, locked, known, signatures, restarts>>

\* "got %d of %d needed signatures"
GiveUp ==
  /\ asked # None
  /\ waiting = {}
  /\ Cardinality(good) < Quorum
  /\ Abandon(calls)
  /\ UNCHANGED <<chain, pending, locked, known, signatures, fails, restarts>>

Restart ==
  /\ restarts < MaxRestart
  /\ restarts' = restarts + 1
  /\ Abandon({c \in calls : c.signer \notin Local})
  /\ UNCHANGED <<chain, pending, locked, known, signatures, fails>>

-----------------------------------------------------------------------------
(* The signers.                                                            *)

\* Somebody else asks a signer to sign a block of its own.
Request(s, h, c) ==
  /\ s \in Exposed
  /\ h \in 1 .. Len(chain) /\ h < MaxHeight
  /\ calls' = calls \cup {[signer |-> s, b |-> Append(SubSeq(chain, 1, h), c),
                           pc |-> "call", live |-> FALSE]}
  /\ UNCHANGED <<chain, pending, asked, waiting, good, locked, known, signatures, fails, restarts>>

\* The call is over; a generator that still listens counts the signature.
Reply(c, signed) ==
  /\ calls' = calls \ {c}
  /\ waiting' = IF c.live THEN waiting \ {c.signer} ELSE waiting
  /\ good' = IF c.live /\ signed THEN good \cup {c.signer} ELSE good
  /\ UNCHANGED <<chain, pending, asked, known, restarts>>

\* BlockSoonWaiter and ValidateBlockForSig: the block extends the signer's
\* chain.  SignBlock, called locally, validates nothing.
Valid(s, b) ==
  s \notin Local => /\ known[s] >= Len(b) - 1
                    /\ SubSeq(chain, 1, Len(b) - 1) = SubSeq(b, 1, Len(b) - 1)

\* Mutant: lockBlockHeight finds no conflict.
HeightFreeAlways(s, b) == TRUE

\* Mutant: the height was locked for the very same block, and that is refused.
HeightFreeOnce(s, b) == \A x \in locked[s] : Len(x) # Len(b)

\* lockBlockHeight: the unique index on the height of signed_blocks.
HeightFree(s, b) == \A x \in locked[s] : Len(x) = Len(b) => x = b

Lock(c) ==
  /\ c.pc = "call"
  /\ Valid(c.signer, c.b)
  /\ HeightFree(c.signer, c.b)
  /\ locked' = [locked EXCEPT ![c.signer] = @ \cup {c.b}]
  /\ calls' = (calls \ {c}) \cup {[c EXCEPT !.pc = "locked"]}
  /\ UNCHANGED <<chain, pending, asked, waiting, good, known, signatures, fails, restarts>>

\* The signer refuses: its chain is not that far, the block is not valid on
\* it, or it has signed another block of that height.
Refuse(c) ==
  /\ c.pc = "call"
  /\ ~(Valid(c.signer, c.b) /\ HeightFree(c.signer, c.b))
  /\ Reply(c, FALSE)
  /\ UNCHANGED <<locked, signatures, fails>>

Sign(c) ==
  /\ c.pc = "locked"
  /\ signatures' = signatures \cup {[signer |-> c.signer, b |-> c.b]}
  /\ Reply(c, TRUE)
  /\ UNCHANGED <<locked, fails>>

\* The database, the HSM or the connection fails, before or after signing.
CallFails(c) ==
  /\ Fail
  /\ \/ UNCHANGED signatures
     \/ c.pc = "locked" /\ signatures' = signatures \cup {[signer |-> c.signer, b |-> c.b]}
  /\ Reply(c, FALSE)
  /\ UNCHANGED locked

\* The signer's chain grows (it fetches the generator's blocks).
Learn(s) ==
  /\ known[s] < Len(chain)
  /\ known' = [known EXCEPT ![s] = @ + 1]
  /\ UNCHANGED <<chain, pending, asked, waiting, good, calls, locked, signatures, fails, restarts>>

-----------------------------------------------------------------------------
MakeBlock == Collect \/ Commit \/ GiveUp
SignBlock(c) == Lock(c) \/ Refuse(c) \/ Sign(c)

Next ==
  \/ \E c \in Content : Generate(c)
  \/ MakeBlock
  \/ Restart
  \/ \E c \in calls : SignBlock(c) \/ CallFails(c)
  \/ \E s \in Exposed, h \in 1 .. MaxHeight, c \in Content : Request(s, h, c)
  \/ \E s \in Signer : Learn(s)

Spec == Init /\ [][Next]_vars

(***************************************************************************)
(* The generator keeps calling MakeBlock, the signers answer the calls     *)
(* that are waited for, and their chains follow the generator's.           *)
(***************************************************************************)
FairSpec ==
  /\ Spec
  /\ WF_vars(MakeBlock)
  /\ \A s \in Signer :
       /\ WF_vars(\E c \in calls : c.live /\ c.signer = s /\ SignBlock(c))
       /\ WF_vars(Learn(s))

-----------------------------------------------------------------------------
TypeOK ==
  /\ chain \in Block
  /\ pending \in Block \cup {None} /\ asked \in Block \cup {None}
  /\ waiting \subseteq Signer /\ good \subseteq Signer
  /\ calls \subseteq Call
  /\ locked \in [Signer -> SUBSET Block]
  /\ known \in [Signer -> Nat]
  /\ signatures \subseteq [signer : Signer, b : Block]
  /\ fails \in Nat /\ restarts \in Nat

(***************************************************************************)
(* No signer signs two blocks of a height, whatever is retried, repeated   *)
(* or late: SignBlock "fails if this node has ever signed a different      *)
(* block at the same height as b".                                         *)
(***************************************************************************)
OneBlockPerHeight ==
  \A x, y \in signatures : x.signer = y.signer /\ Len(x.b) = Len(y.b) => x.b = y.b

(***************************************************************************)
(* A signer is never bound to a block the generator has forgotten: what a  *)
(* signer has locked above the chain is the pending row, because           *)
(* savePendingBlock runs before the signers are asked.                     *)
(***************************************************************************)
LockedIsPending ==
  \A s \in Signer \ Exposed : \A b \in locked[s] : Len(b) > Len(chain) => b = pending

(***************************************************************************)
(* Every committed block above the initial one has a quorum of signatures  *)
(* over its own hash.                                                      *)
(***************************************************************************)
CommittedIsSigned ==
  \A h \in 2 .. Len(chain) :
    Cardinality({x \in signatures : x.b = SubSeq(chain, 1, h)}) >= Quorum

(***************************************************************************)
(* A saved pending block gets its signatures and is committed, although    *)
(* calls fail, replies are lost, the generator restarts and the signers    *)
(* beyond a quorum are bound to other blocks.                              *)
(***************************************************************************)
PendingSigned ==
  \A h \in 2 .. MaxHeight :
    (pending # None /\ Len(pending) = h) ~> (Len(chain) >= h)
=============================================================================
