-------------------------- MODULE MultisigTracking --------------------------
(***************************************************************************)
(* How the bridge follows the owners of the Safe wallets that own OCLs.    *)
(* App::get_owners asks the Safe API for the owners of an address it meets *)
(* for the first time, as they are at the head of the chain, and           *)
(* App::index_multisig_safes replays AddedOwner and RemovedOwner logs up   *)
(* to the finalized block, which is behind the head.  The two sources      *)
(* disagree in between.                                                    *)
(*                                                                         *)
(* Safes are deployed with their first owners and no log of them.  A block *)
(* holds at most one of these events.  The head is not reorganized, and    *)
(* the Safe API is never behind the finalized block.                       *)
(***************************************************************************)
EXTENDS MultisigWallets, Sequences

CONSTANTS Undeployed,  \* the owners of an address without code
          NoWallet,    \* the wallet of a block without a Safe event
          MaxBlocks,   \* bound: blocks ever mined
          MaxCrashes   \* bound: times the process dies

ASSUME UndeployedAssumption == \A owners \in SUBSET People : owners # Undeployed
ASSUME NoWalletAssumption == NoWallet \notin Wallets
ASSUME BoundsAssumption == MaxBlocks \in Nat /\ MaxCrashes \in Nat

VARIABLES
  chain,       \* the Safes: every block's event and the owners after it
  finalized,   \* the latest finalized block number
  phase,       \* where the main loop is
  target,      \* the finalized block number this iteration read
  latest_indexed_block_number,
  scanned,     \* the last block whose Safe logs were replayed
  to_block,    \* the block get_owners is asked for
  multisig,    \* the map of known wallets
  snapshot,    \* history: the block at which the API answered, per known Safe
  reported,    \* history: people returned as owners of a wallet since the start
  crashes      \* history: how often the process died

chainVars == <<chain, finalized>>
loopVars == <<phase, target, latest_indexed_block_number, scanned, to_block>>
walletVars == <<multisig, snapshot, reported>>
vars == <<chainVars, loopVars, walletVars, crashes>>

Kinds == {"setup", "added", "removed", "other"}
Phases == {"down", "starting", "applying", "sleeping", "updating", "scanning"}

Block == [wallet : Wallets \cup {NoWallet}, kind : Kinds, person : People \cup {NoWallet},
          owners : [Wallets -> (SUBSET People) \cup {Undeployed}]]
OwnersAt(b) == IF b = 0 THEN [w \in Wallets |-> Undeployed] ELSE chain[b].owners
ChainHead == Len(chain)

\* The empty map.
Nothing == [w \in {} |-> Regular]

-----------------------------------------------------------------------------
(* The Safes and their chain (outside the program). *)

Mine(w, kind, p, owners) ==
  /\ ChainHead < MaxBlocks
  /\ chain' = Append(chain, [wallet |-> w, kind |-> kind, person |-> p,
                             owners |-> IF w \in Wallets
                                        THEN [OwnersAt(ChainHead) EXCEPT ![w] = owners]
                                        ELSE OwnersAt(ChainHead)])
  /\ UNCHANGED <<finalized, loopVars, walletVars, crashes>>

DeploySafe ==
  \E w \in Wallets, owners \in (SUBSET People) \ {{}} :
    /\ OwnersAt(ChainHead)[w] = Undeployed
    /\ Mine(w, "setup", NoWallet, owners)

AddOwner ==
  \E w \in Wallets, p \in People :
    /\ OwnersAt(ChainHead)[w] # Undeployed
    /\ p \notin OwnersAt(ChainHead)[w]
    /\ Mine(w, "added", p, OwnersAt(ChainHead)[w] \cup {p})

\* A Safe keeps at least one owner.
RemoveOwner ==
  \E w \in Wallets, p \in People :
    /\ OwnersAt(ChainHead)[w] # Undeployed
    /\ p \in OwnersAt(ChainHead)[w]
    /\ OwnersAt(ChainHead)[w] # {p}
    /\ Mine(w, "removed", p, OwnersAt(ChainHead)[w] \ {p})

MineOther == Mine(NoWallet, "other", NoWallet, {})

Finalize ==
  /\ \E b \in (finalized + 1)..ChainHead : finalized' = b
  /\ UNCHANGED <<chain, loopVars, walletVars, crashes>>

-----------------------------------------------------------------------------
(* The main loop. *)

StartInit ==
  /\ phase = "down"
  /\ finalized >= 1
  /\ phase' = "starting"
  /\ target' = finalized
  /\ UNCHANGED <<chainVars, latest_indexed_block_number, scanned, to_block, walletVars, crashes>>

\* No wallet is known yet, so the initial indexing replays no Safe log.
InitState ==
  /\ phase = "starting"
  /\ phase' = "applying"
  /\ latest_indexed_block_number' = target
  /\ scanned' = target
  /\ to_block' = target
  /\ UNCHANGED <<chainVars, target, walletVars, crashes>>

EndApplying ==
  /\ phase = "applying"
  /\ phase' = "sleeping"
  /\ UNCHANGED <<chainVars, target, latest_indexed_block_number, scanned, to_block, walletVars,
                 crashes>>

StartUpdate ==
  /\ phase = "sleeping"
  /\ phase' = "updating"
  /\ target' = finalized
  /\ UNCHANGED <<chainVars, latest_indexed_block_number, scanned, to_block, walletVars, crashes>>

SkipUpdate ==
  /\ phase = "updating"
  /\ target <= latest_indexed_block_number + 1
  /\ phase' = "sleeping"
  /\ UNCHANGED <<chainVars, target, latest_indexed_block_number, scanned, to_block, walletVars,
                 crashes>>

\* A plausible slip: the scan leaves out its first block.
StartScanAfterFirst ==
  /\ phase = "updating"
  /\ target > latest_indexed_block_number + 1
  /\ phase' = "scanning"
  /\ to_block' = latest_indexed_block_number + 1
  /\ scanned' = latest_indexed_block_number + 1
  /\ UNCHANGED <<chainVars, target, latest_indexed_block_number, walletVars, crashes>>

StartScan ==
  /\ phase = "updating"
  /\ target > latest_indexed_block_number + 1
  /\ phase' = "scanning"
  /\ to_block' = latest_indexed_block_number + 1
  /\ UNCHANGED <<chainVars, target, latest_indexed_block_number, scanned, walletVars, crashes>>

-----------------------------------------------------------------------------
(* App::index_multisig_safes: the logs of every known wallet, in order. *)

Log == chain[scanned + 1]

\* The next log of the scanned range is one of the wallet.
ScansLogOf(w, kind) ==
  /\ phase = "scanning"
  /\ scanned < target
  /\ Log.wallet = w
  /\ Log.kind = kind
  /\ w \in DOMAIN multisig

Replay(w, state) ==
  /\ scanned' = scanned + 1
  /\ multisig' = [multisig EXCEPT ![w] = state]
  /\ UNCHANGED <<chainVars, phase, target, latest_indexed_block_number, to_block, snapshot,
                 reported, crashes>>

ScanAddedOwner ==
  \E w \in Wallets : /\ ScansLogOf(w, "added")
                     /\ multisig[w] # Regular
                     /\ Replay(w, AddedOwner(multisig[w], Log.person))

ScanRemovedOwner ==
  \E w \in Wallets : /\ ScansLogOf(w, "removed")
                     /\ multisig[w] # Regular
                     /\ Replay(w, RemovedOwner(multisig[w], Log.person))

\* A block without a log of a known wallet.
ScanOther ==
  /\ phase = "scanning"
  /\ scanned < target
  /\ ~ \E w \in DOMAIN multisig : Log.wallet = w /\ Log.kind \in {"added", "removed"}
  /\ scanned' = scanned + 1
  /\ UNCHANGED <<chainVars, phase, target, latest_indexed_block_number, to_block, walletVars,
                 crashes>>

\* A plausible slip: the position is read anew from the chain, which has moved on.
EndScanAtFinalized ==
  /\ phase = "scanning"
  /\ scanned = target
  /\ phase' = "applying"
  /\ latest_indexed_block_number' = finalized
  /\ UNCHANGED <<chainVars, target, scanned, to_block, walletVars, crashes>>

EndScan ==
  /\ phase = "scanning"
  /\ scanned = target
  /\ phase' = "applying"
  /\ latest_indexed_block_number' = target
  /\ UNCHANGED <<chainVars, target, scanned, to_block, walletVars, crashes>>

-----------------------------------------------------------------------------
(* App::get_owners, asked while access is applied. *)

Report(w, known) ==
  reported' = [reported EXCEPT ![w] = @ \cup GetOwnersResponse(w, known).current_owners]

\* A known wallet is answered from the map.
GetKnownOwners ==
  \E w \in DOMAIN multisig :
    /\ phase = "applying"
    /\ Report(w, multisig[w])
    /\ UNCHANGED <<chainVars, loopVars, multisig, snapshot, crashes>>

Remember(w, known, b) ==
  /\ multisig' = [v \in DOMAIN multisig \cup {w} |-> IF v = w THEN known ELSE multisig[v]]
  /\ snapshot' = [snapshot EXCEPT ![w] = b]
  /\ Report(w, known)
  /\ UNCHANGED <<chainVars, loopVars, crashes>>

\* get_multisig_owners: nothing for an address without code, else the owners as of the
\* block the Safe API has reached.
MultisigOwners(w, b) == OwnersAt(b)[w]

\* An address without code at the head is a regular wallet, for good.
GetRegularWallet ==
  \E w \in Wallets \ DOMAIN multisig, b \in finalized..ChainHead :
    /\ phase = "applying"
    /\ MultisigOwners(w, b) = Undeployed
    /\ Remember(w, Regular, b)

RemovedOwnerLogs(w, to) ==
  {chain[b].person : b \in {b \in 1..to : chain[b].wallet = w /\ chain[b].kind = "removed"}}

\* A plausible slip: the logs are asked for up to the latest block.
GetNewSafeOwnersToHead ==
  \E w \in Wallets \ DOMAIN multisig, b \in finalized..ChainHead :
    /\ phase = "applying"
    /\ MultisigOwners(w, b) # Undeployed
    /\ Remember(w, NewMultisigState(MultisigOwners(w, b), RemovedOwnerLogs(w, ChainHead)), b)

\* The first question about a Safe: its owners from the API, its former owners from
\* the RemovedOwner logs up to the requested block.
GetNewSafeOwners ==
  \E w \in Wallets \ DOMAIN multisig, b \in finalized..ChainHead :
    /\ phase = "applying"
    /\ MultisigOwners(w, b) # Undeployed
    /\ Remember(w, NewMultisigState(MultisigOwners(w, b), RemovedOwnerLogs(w, to_block)), b)

-----------------------------------------------------------------------------
LoseProcess ==
  /\ crashes < MaxCrashes
  /\ crashes' = crashes + 1
  /\ phase' = "down"
  /\ target' = 0
  /\ latest_indexed_block_number' = 0
  /\ scanned' = 0
  /\ to_block' = 0
  /\ multisig' = Nothing
  /\ snapshot' = [w \in Wallets |-> 0]
  /\ reported' = [w \in Wallets |-> {}]
  /\ UNCHANGED chainVars

Crash == phase # "down" /\ LoseProcess

\* A log of an address the map holds as a regular wallet.
ScansLogOfRegularWallet ==
  \E w \in Wallets, kind \in {"added", "removed"} :
    ScansLogOf(w, kind) /\ multisig[w] = Regular

\* The `unreachable!()` of the scan ends the process.
Panic == ScansLogOfRegularWallet /\ LoseProcess

Init ==
  /\ chain = <<>>
  /\ finalized = 0
  /\ phase = "down"
  /\ target = 0
  /\ latest_indexed_block_number = 0
  /\ scanned = 0
  /\ to_block = 0
  /\ multisig = Nothing
  /\ snapshot = [w \in Wallets |-> 0]
  /\ reported = [w \in Wallets |-> {}]
  /\ crashes = 0

Safes == DeploySafe \/ AddOwner \/ RemoveOwner \/ MineOther \/ Finalize
MainLoop == StartInit \/ InitState \/ EndApplying \/ StartUpdate \/ SkipUpdate \/ StartScan
Scan == ScanAddedOwner \/ ScanRemovedOwner \/ ScanOther \/ EndScan
GetOwners == GetKnownOwners \/ GetRegularWallet \/ GetNewSafeOwners

Next == Safes \/ MainLoop \/ Scan \/ GetOwners \/ Crash \/ Panic

Spec == Init /\ [][Next]_vars

-----------------------------------------------------------------------------
(* Properties *)

KnownSafes == {w \in DOMAIN multisig : multisig[w] # Regular}

\* Every variable has the shape the program gives it.
TypeOK ==
  /\ chain \in Seq(Block)
  /\ finalized \in 0..ChainHead
  /\ phase \in Phases
  /\ target \in 0..finalized
  /\ scanned \in 0..target
  /\ latest_indexed_block_number \in 0..scanned
  /\ phase # "scanning" => latest_indexed_block_number = scanned
  /\ to_block \in 0..finalized
  /\ DOMAIN multisig \subseteq Wallets
  /\ \A w \in DOMAIN multisig : multisig[w] \in MultisigState \cup {Regular}
  /\ snapshot \in [Wallets -> 0..ChainHead]
  /\ reported \in [Wallets -> SUBSET (People \cup Wallets)]
  /\ crashes \in 0..MaxCrashes

\* The owner set of the map, which starts at the head and is then moved by logs
\* from further back, is never older than those logs: whether a person is in it
\* is what the Safe said at some block from the scanned one to the API's.
TrackedOwnersAreRecent ==
  \A w \in KnownSafes, p \in People :
    \E b \in scanned..ChainHead :
      /\ b = scanned \/ b <= snapshot[w]
      /\ OwnersAt(b)[w] # Undeployed
      /\ p \in multisig[w].current_owners <=> p \in OwnersAt(b)[w]

\* Once the replayed logs have reached the block of the API's answer, the owners
\* of a known Safe are exactly those on chain at the scanned block.
TrackedOwnersConverge ==
  \A w \in KnownSafes :
    snapshot[w] <= scanned => multisig[w].current_owners = OwnersAt(scanned)[w]

\* A person listed as a former owner was removed from that Safe by a final block.
FormerOwnersWereRemoved ==
  \A w \in KnownSafes : multisig[w].former_owners \subseteq RemovedOwnerLogs(w, finalized)

\* Nobody the bridge has treated as an owner of a Safe drops out of its state:
\* they are current owners or former ones, so that access can still be revoked.
NoReportedOwnerForgotten ==
  \A w \in KnownSafes :
    reported[w] \subseteq multisig[w].current_owners \cup multisig[w].former_owners

\* A person removed from a known Safe up to the indexed block is a former owner
\* of it, unless it is an owner: "Restore state up to the requested block
\* (typically the last finalized block)".
FormerOwnersAreComplete ==
  phase = "applying" =>
    \A w \in KnownSafes :
      RemovedOwnerLogs(w, latest_indexed_block_number) \subseteq
        multisig[w].current_owners \cup multisig[w].former_owners

\* A log never comes from an address the map holds as a regular wallet, as the
\* `unreachable!()` of the scan asserts.
LogsComeFromKnownSafes == ~ScansLogOfRegularWallet
=============================================================================
