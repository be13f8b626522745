------------------------- MODULE OwnershipIndexing -------------------------
(***************************************************************************)
(* How the bridge follows the owners of OCLs: the LabNFT contract grows    *)
(* and finalizes blocks, App::init and App::update read the latest         *)
(* finalized block number, fetch the OclTransfer logs up to it and fold    *)
(* them into the ownership projection, and the process can die between any *)
(* two steps, which loses everything but the chain.                        *)
(*                                                                         *)
(* Block numbers are relative to labnft_contract_birth_block, which is     *)
(* block 1.  A block holds at most one transfer: several transfers that    *)
(* become final together are several blocks finalized by one step.         *)
(***************************************************************************)
EXTENDS OclOwnership, Sequences

CONSTANTS NoOcl,      \* the token of a block without a transfer
          MaxBlocks,  \* bound: blocks ever mined
          MaxCrashes  \* bound: times the process dies

ASSUME NoOclAssumption == NoOcl \notin OclIds
ASSUME BoundsAssumption == MaxBlocks \in Nat /\ MaxCrashes \in Nat

VARIABLES
  chain,       \* the contract: every block's transfer and the owners after it
  finalized,   \* the latest finalized block number
  phase,       \* where the main loop is
  target,      \* the finalized block number this iteration read
  latest_indexed_block_number,
  entries,     \* on_chain_ocl_ownership_projection_map
  diff,        \* the OclOwnershipDiffMap of the last indexing
  served,      \* history: owners this process has seen as current, per OCL
  crashes      \* history: how often the process died

chainVars == <<chain, finalized>>
processVars == <<phase, target, latest_indexed_block_number, entries, diff, served>>
vars == <<chainVars, processVars, crashes>>

Phases == {"down", "starting", "sleeping", "updating"}

Block == [ocl_id : OclIds \cup {NoOcl}, to : Addresses \cup {NoOwner},
          owners : [OclIds -> Addresses \cup {NoOwner}]]
Unminted == [o \in OclIds |-> NoOwner]
OwnersAt(b) == IF b = 0 THEN Unminted ELSE chain[b].owners

IsTransfer(b) == chain[b].ocl_id \in OclIds

\* The empty map.
Nothing == [o \in {} |-> NoOwner]

-----------------------------------------------------------------------------
(* The contract and its chain (outside the program). *)

MineTransfer ==
  /\ Len(chain) < MaxBlocks
  /\ \E o \in OclIds, a \in Addresses :
       chain' = Append(chain, [ocl_id |-> o, to |-> a,
                               owners |-> [OwnersAt(Len(chain)) EXCEPT ![o] = a]])
  /\ UNCHANGED <<finalized, processVars, crashes>>

MineOther ==
  /\ Len(chain) < MaxBlocks
  /\ chain' = Append(chain, [ocl_id |-> NoOcl, to |-> NoOwner,
                             owners |-> OwnersAt(Len(chain))])
  /\ UNCHANGED <<finalized, processVars, crashes>>

Finalize ==
  /\ \E b \in (finalized + 1)..Len(chain) : finalized' = b
  /\ UNCHANGED <<chain, processVars, crashes>>

-----------------------------------------------------------------------------
(* The program. *)

\* A plausible slip: the first block of the range is left out.
IndexLabnftContractExclusive(from_block, to_block) ==
  [b \in {b \in (from_block + 1)..to_block : IsTransfer(b)} |->
     [ocl_id |-> chain[b].ocl_id, to |-> chain[b].to]]

\* The events of the LabNFT contract from one block to another.
IndexLabnftContract(from_block, to_block) ==
  [b \in {b \in from_block..to_block : IsTransfer(b)} |->
     [ocl_id |-> chain[b].ocl_id, to |-> chain[b].to]]

\* A plausible slip: the position is read anew from the chain, which has moved on.
IndexingToFinalized(to_block) ==
  LET applied == ApplyEvents(entries,
                   IndexLabnftContract(latest_indexed_block_number + 1, to_block))
  IN  /\ entries' = applied.entries
      /\ diff' = applied.diff
      /\ latest_indexed_block_number' = finalized
      /\ served' = [o \in OclIds |->
                      IF o \in DOMAIN entries' THEN served[o] \cup {entries'[o].current}
                      ELSE served[o]]

\* The ownership half of App::indexing: fetch, fold, remember the position.
Indexing(to_block) ==
  LET applied == ApplyEvents(entries,
                   IndexLabnftContract(latest_indexed_block_number + 1, to_block))
  IN  /\ entries' = applied.entries
      /\ diff' = applied.diff
      /\ latest_indexed_block_number' = to_block
      /\ served' = [o \in OclIds |->
                      IF o \in DOMAIN entries' THEN served[o] \cup {entries'[o].current}
                      ELSE served[o]]

\* App::init reads the finalized block; the contract has been deployed.
StartInit ==
  /\ phase = "down"
  /\ finalized >= 1
  /\ phase' = "starting"
  /\ target' = finalized
  /\ UNCHANGED <<chainVars, latest_indexed_block_number, entries, diff, served, crashes>>

InitState ==
  /\ phase = "starting"
  /\ Indexing(target)
  /\ phase' = "sleeping"
  /\ UNCHANGED <<chainVars, target, crashes>>

\* App::update reads the finalized block after the delay.
StartUpdate ==
  /\ phase = "sleeping"
  /\ phase' = "updating"
  /\ target' = finalized
  /\ UNCHANGED <<chainVars, latest_indexed_block_number, entries, diff, served, crashes>>

\* A plausible slip: one more block is left for a later iteration.
NothingToIndexByTwo == target <= latest_indexed_block_number + 2

NothingToIndex == target <= latest_indexed_block_number + 1

SkipUpdate ==
  /\ phase = "updating"
  /\ NothingToIndex
  /\ phase' = "sleeping"
  /\ UNCHANGED <<chainVars, target, latest_indexed_block_number, entries, diff, served, crashes>>

Update ==
  /\ phase = "updating"
  /\ ~NothingToIndex
  /\ Indexing(target)
  /\ phase' = "sleeping"
  /\ UNCHANGED <<chainVars, target, crashes>>

\* Any error ends main, and the process can be killed: the state is memory only.
Crash ==
  /\ phase # "down"
  /\ crashes < MaxCrashes
  /\ crashes' = crashes + 1
  /\ phase' = "down"
  /\ target' = 0
  /\ latest_indexed_block_number' = 0
  /\ entries' = Nothing
  /\ diff' = Nothing
  /\ served' = [o \in OclIds |-> {}]
  /\ UNCHANGED chainVars

-----------------------------------------------------------------------------
Init ==
  /\ chain = <<>>
  /\ finalized = 0
  /\ phase = "down"
  /\ target = 0
  /\ latest_indexed_block_number = 0
  /\ entries = Nothing
  /\ diff = Nothing
  /\ served = [o \in OclIds |-> {}]
  /\ crashes = 0

Chain == MineTransfer \/ MineOther \/ Finalize
Program == StartInit \/ InitState \/ StartUpdate \/ SkipUpdate \/ Update

Next == Chain \/ Program \/ Crash

Spec == Init /\ [][Next]_vars

\* The loop of App::main never stops taking steps while the process lives, and
\* the deployment starts the process again.  Nothing is assumed of the chain.
FairSpec == Spec /\ WF_vars(Program)

-----------------------------------------------------------------------------
(* Properties *)

\* Every variable has the shape the program gives it.
TypeOK ==
  /\ chain \in Seq(Block)
  /\ finalized \in 0..Len(chain)
  /\ phase \in Phases
  /\ target \in 0..finalized
  /\ latest_indexed_block_number \in 0..target
  /\ DOMAIN entries \subseteq OclIds
  /\ \A o \in DOMAIN entries : entries[o] \in OclOwnershipProjection
  /\ DOMAIN diff \subseteq DOMAIN entries
  /\ \A o \in DOMAIN diff : diff[o] \in OclOwnershipChange
  /\ served \in [OclIds -> SUBSET Addresses]
  /\ crashes \in 0..MaxCrashes

\* The owner the bridge believes in, NoOwner for an OCL it does not know.
View == [o \in OclIds |-> IF o \in DOMAIN entries THEN entries[o].current ELSE NoOwner]

\* The projection is the contract's own state at the block indexed last: no
\* transfer is missed, applied twice or out of order across iterations
\* (indexing, apply_events and compress_events together).
CurrentIsOnChainOwner == View = OwnersAt(latest_indexed_block_number)

\* An address listed as a previous owner really lost that OCL: it owned it at
\* an indexed block and is not the owner now.  Revoking is therefore justified.
PreviousLostTheToken ==
  \A o \in DOMAIN entries : \A a \in entries[o].previous :
    /\ a # entries[o].current
    /\ \E b \in 1..latest_indexed_block_number : OwnersAt(b)[o] = a

\* No owner the process has acted for is forgotten: it is the current owner or
\* stays in `previous`, whichever way the OCL moved since.
NoServedOwnerForgotten ==
  \A o \in OclIds :
    served[o] = IF o \in DOMAIN entries
                THEN entries[o].previous \cup {entries[o].current}
                ELSE {}

\* What one indexing reports is the net change of the contract between the two
\* blocks: every OCL whose owner differs, with its owner at the old block as the
\* former one, and nothing else.  OCLs that come back to their owner are silent.
DiffIsNetChange ==
  [][ (InitState \/ Update) =>
        LET before == OwnersAt(latest_indexed_block_number)
            after  == OwnersAt(target)
        IN  diff' = [o \in {o \in OclIds : before[o] # after[o]} |->
                       [former_owner |-> before[o], current_owner |-> after[o]]] ]_vars

\* The main loop keeps up: once a block is final, every block before it gets
\* indexed, crashes included.  (The last final block waits for the next one.)
CatchesUp ==
  \A b \in 1..MaxBlocks : (finalized >= b) ~> (latest_indexed_block_number >= b - 1)

\* The indexer implements the abstract mirror of the contract's state.
Mirror == INSTANCE LedgerMirror WITH
            Tokens <- OclIds, Holders <- Addresses, Nobody <- NoOwner,
            ledger <- [b \in 1..Len(chain) |-> chain[b].owners], settled <- finalized,
            view <- View, position <- latest_indexed_block_number

\* Every step of the indexer is a step of the mirror or changes nothing it shows:
\* the view is the contract's state at one final block and never moves backwards
\* while the process lives.
ImplementsMirror == Mirror!Spec
=============================================================================
