----------------------- MODULE MultisigTrackingProofs -----------------------
(***************************************************************************)
(* The safety of MultisigTracking for any wallets and people, any chain    *)
(* length and any number of crashes.                                       *)
(*                                                                         *)
(* The inductive invariant adds to the checked properties what the Safes   *)
(* guarantee from one block to the next (OwnersFollowLogs) and that the    *)
(* bridge has told nothing about wallets it does not know.                 *)
(***************************************************************************)
EXTENDS MultisigTracking, TLAPS

\* The owners of a deployed Safe change by its logs only.
OwnersFollowLogs ==
  \A b \in 1..Len(chain), w \in Wallets :
    LET before == OwnersAt(b - 1)[w]
        after  == OwnersAt(b)[w]
        logged == chain[b].wallet = w
    IN  /\ logged /\ chain[b].kind = "added" =>
             /\ before # Undeployed
             /\ chain[b].person \in People
             /\ after = before \cup {chain[b].person}
        /\ logged /\ chain[b].kind = "removed" =>
             /\ before # Undeployed
             /\ chain[b].person \in People
             /\ after = before \ {chain[b].person}
        /\ ~(logged /\ chain[b].kind \in {"added", "removed"}) /\ before # Undeployed =>
             after = before

UnknownUnreported ==
  \A w \in Wallets \ DOMAIN multisig : reported[w] = {}

\* No wallet is known before access is applied for the first time.
NothingKnownAtStart ==
  phase \in {"down", "starting"} => DOMAIN multisig = {} /\ latest_indexed_block_number = 0

IInv == /\ TypeOK
        /\ NothingKnownAtStart
        /\ OwnersFollowLogs
        /\ UnknownUnreported
        /\ TrackedOwnersAreRecent
        /\ FormerOwnersWereRemoved
        /\ NoReportedOwnerForgotten

-----------------------------------------------------------------------------
(* The chain. *)

\* After any block, an address is undeployed or has a set of owners.
LEMMA OwnersAtType ==
  ASSUME chain \in Seq(Block), NEW b \in 0..Len(chain)
  PROVE  OwnersAt(b) \in [Wallets -> (SUBSET People) \cup {Undeployed}]
<1>1. CASE b = 0
  BY <1>1 DEF OwnersAt
<1>2. CASE b # 0
  <2>1. chain[b] \in Block
    BY <1>2
  <2> QED BY <1>2, <2>1 DEF OwnersAt, Block
<1> QED BY <1>1, <1>2

\* Mining a block keeps the earlier ones and the states after them.
LEMMA MiningKeepsHistory ==
  ASSUME chain \in Seq(Block), NEW block \in Block, chain' = Append(chain, block)
  PROVE  /\ chain' \in Seq(Block)
         /\ Len(chain) \in Nat
         /\ Len(chain') = Len(chain) + 1
         /\ chain'[Len(chain) + 1] = block
         /\ \A b \in 1..Len(chain) : chain'[b] = chain[b]
         /\ \A b \in 0..Len(chain) : OwnersAt(b)' = OwnersAt(b)
         /\ \A b \in Nat : b = Len(chain) + 1 => OwnersAt(b)' = block.owners
<1>1. /\ chain' \in Seq(Block)
      /\ Len(chain) \in Nat
      /\ Len(chain') = Len(chain) + 1
      /\ chain'[Len(chain) + 1] = block
      /\ \A b \in 1..Len(chain) : chain'[b] = chain[b]
  OBVIOUS
<1>2. \A b \in 0..Len(chain) : OwnersAt(b)' = OwnersAt(b)
  BY <1>1 DEF OwnersAt
<1>3. \A b \in Nat : b = Len(chain) + 1 => OwnersAt(b)' = block.owners
  BY <1>1 DEF OwnersAt
<1> QED BY <1>1, <1>2, <1>3

\* What a new block must satisfy for the chain to keep its invariant: it changes
\* the owners of one wallet, and a deployed Safe's only by a log.
BlockFollows(block) ==
  /\ block \in Block
  /\ \A w \in Wallets :
       LET before == OwnersAt(Len(chain))[w]
           after  == block.owners[w]
           logged == block.wallet = w
       IN  /\ logged /\ block.kind = "added" =>
                /\ before # Undeployed
                /\ block.person \in People
                /\ after = before \cup {block.person}
           /\ logged /\ block.kind = "removed" =>
                /\ before # Undeployed
                /\ block.person \in People
                /\ after = before \ {block.person}
           /\ ~(logged /\ block.kind \in {"added", "removed"}) /\ before # Undeployed =>
                after = before

\* A new block that follows the Safe's rules keeps the whole chain following them.
LEMMA MiningKeepsOwnersFollowLogs ==
  ASSUME chain \in Seq(Block), OwnersFollowLogs, NEW block, BlockFollows(block),
         chain' = Append(chain, block)
  PROVE  OwnersFollowLogs'
<1>1. block \in Block
  BY DEF BlockFollows
<1>2. PICK top \in Nat : top = Len(chain) + 1
  OBVIOUS
<1>3. /\ Len(chain) \in Nat
      /\ Len(chain') = top
      /\ chain'[top] = block
      /\ \A b \in 1..Len(chain) : chain'[b] = chain[b]
      /\ \A b \in 0..Len(chain) : OwnersAt(b)' = OwnersAt(b)
      /\ OwnersAt(top)' = block.owners
  BY <1>1, <1>2, MiningKeepsHistory
<1> DEFINE Follows(b, w) ==
             LET before == OwnersAt(b - 1)[w]
                 after  == OwnersAt(b)[w]
                 logged == chain[b].wallet = w
             IN  /\ logged /\ chain[b].kind = "added" =>
                      /\ before # Undeployed
                      /\ chain[b].person \in People
                      /\ after = before \cup {chain[b].person}
                 /\ logged /\ chain[b].kind = "removed" =>
                      /\ before # Undeployed
                      /\ chain[b].person \in People
                      /\ after = before \ {chain[b].person}
                 /\ ~(logged /\ chain[b].kind \in {"added", "removed"}) /\ before # Undeployed =>
                      after = before
<1>4. ASSUME NEW b \in 1..Len(chain'), NEW w \in Wallets
      PROVE  Follows(b, w)'
  <2>1. CASE b \in 1..Len(chain)
    <3>1. /\ chain'[b] = chain[b] /\ OwnersAt(b)' = OwnersAt(b)
          /\ b - 1 \in 0..Len(chain) /\ b \in 0..Len(chain)
      BY <1>3, <2>1
    <3>2. OwnersAt(b - 1)' = OwnersAt(b - 1)
      BY <1>3, <3>1
    <3>3. Follows(b, w)
      BY <2>1 DEF OwnersFollowLogs
    <3> QED BY <3>1, <3>2, <3>3
  <2>2. CASE b = top
    <3>1. /\ b - 1 = Len(chain) /\ OwnersAt(b - 1)' = OwnersAt(b - 1)
          /\ chain'[b] = block /\ OwnersAt(b)' = block.owners
      <4>1. b - 1 = Len(chain) /\ b - 1 \in 0..Len(chain)
        BY <1>2, <1>3, <2>2
      <4> QED BY <1>3, <2>2, <4>1
    <3> QED BY <3>1 DEF BlockFollows
  <2> QED BY <1>2, <1>3, <2>1, <2>2
<1> QED BY <1>4 DEF OwnersFollowLogs

\* A Safe has owners after each of its logs.
LEMMA SafeStaysDeployed ==
  ASSUME chain \in Seq(Block), OwnersFollowLogs, NEW b \in 1..Len(chain), NEW w \in Wallets,
         OwnersAt(b - 1)[w] # Undeployed
  PROVE  OwnersAt(b)[w] # Undeployed
<1>1. OwnersAt(b - 1)[w] \in SUBSET People
  <2>1. b - 1 \in 0..Len(chain)
    OBVIOUS
  <2> QED BY <2>1, OwnersAtType
<1>3. CASE chain[b].wallet = w /\ chain[b].kind = "added"
  <2>1. /\ OwnersAt(b)[w] = OwnersAt(b - 1)[w] \cup {chain[b].person}
        /\ chain[b].person \in People
    BY <1>3 DEF OwnersFollowLogs
  <2>2. OwnersAt(b)[w] \in SUBSET People
    BY <1>1, <2>1
  <2> QED BY <2>2, UndeployedAssumption
<1>4. CASE chain[b].wallet = w /\ chain[b].kind = "removed"
  <2>1. OwnersAt(b)[w] = OwnersAt(b - 1)[w] \ {chain[b].person}
    BY <1>4 DEF OwnersFollowLogs
  <2>2. OwnersAt(b)[w] \in SUBSET People
    BY <1>1, <2>1
  <2> QED BY <2>2, UndeployedAssumption
<1>5. CASE ~(chain[b].wallet = w /\ chain[b].kind \in {"added", "removed"})
  BY <1>5 DEF OwnersFollowLogs
<1> QED BY <1>3, <1>4, <1>5

\* What the chain says is about the chain alone.
LEMMA OwnersFollowLogsFrame ==
  ASSUME OwnersFollowLogs, UNCHANGED chain
  PROVE  OwnersFollowLogs'
<1>1. \A b : OwnersAt(b)' = OwnersAt(b)
  BY DEF OwnersAt
<1> QED BY <1>1 DEF OwnersFollowLogs

-----------------------------------------------------------------------------
(* The invariant. *)

\* Before the first block no wallet is known.
LEMMA InitEstablishesIInv == Init => IInv
<1> SUFFICES ASSUME Init PROVE IInv
  OBVIOUS
<1>1. chain = <<>> /\ Len(chain) = 0
  BY DEF Init
<1>2. TypeOK
  BY <1>1, BoundsAssumption DEF Init, TypeOK, Nothing, Phases, ChainHead
<1>3. OwnersFollowLogs
  BY <1>1 DEF OwnersFollowLogs
<1>4. UnknownUnreported
  BY DEF Init, UnknownUnreported
<1> QED BY <1>2, <1>3, <1>4
        DEF Init, IInv, NothingKnownAtStart, Nothing, KnownSafes, TrackedOwnersAreRecent, FormerOwnersWereRemoved,
            NoReportedOwnerForgotten

\* The removed owners of a wallet are found up to any block that is there, whatever
\* comes after it.
LEMMA RemovedOwnerLogsKept ==
  ASSUME chain \in Seq(Block), NEW block \in Block, chain' = Append(chain, block),
         NEW b \in 0..Len(chain), NEW w
  PROVE  RemovedOwnerLogs(w, b)' = RemovedOwnerLogs(w, b)
<1>1. \A i \in 1..b : chain'[i] = chain[i]
  BY MiningKeepsHistory
<1> QED BY <1>1 DEF RemovedOwnerLogs

\* Any block the Safes can produce keeps the invariant.
LEMMA MiningKeepsIInv ==
  ASSUME IInv, NEW block, BlockFollows(block), chain' = Append(chain, block),
         UNCHANGED <<finalized, phase, target, latest_indexed_block_number, scanned, to_block,
                     multisig, snapshot, reported, crashes>>
  PROVE  IInv'
<1>0. block \in Block /\ chain \in Seq(Block)
  BY DEF BlockFollows, IInv, TypeOK
<1>1. /\ chain' \in Seq(Block)
      /\ Len(chain) \in Nat
      /\ Len(chain') = Len(chain) + 1
      /\ \A b \in 0..Len(chain) : OwnersAt(b)' = OwnersAt(b)
  BY <1>0, MiningKeepsHistory
<1>2. /\ scanned \in 0..Len(chain) /\ finalized \in 0..Len(chain)
      /\ snapshot \in [Wallets -> 0..Len(chain)]
      /\ DOMAIN multisig \subseteq Wallets
  BY DEF IInv, TypeOK, ChainHead
<1>3. TypeOK'
  BY <1>1, <1>2 DEF IInv, TypeOK, ChainHead
<1>4. OwnersFollowLogs'
  BY <1>0, MiningKeepsOwnersFollowLogs DEF IInv
<1>5. KnownSafes' = KnownSafes /\ KnownSafes \subseteq Wallets
  BY <1>2 DEF KnownSafes
<1>6. TrackedOwnersAreRecent'
  <2>1. ASSUME NEW w \in KnownSafes, NEW p \in People
        PROVE  \E b \in scanned..Len(chain') :
                 /\ b = scanned \/ b <= snapshot[w]
                 /\ OwnersAt(b)'[w] # Undeployed
                 /\ p \in multisig[w].current_owners <=> p \in OwnersAt(b)'[w]
    <3>1. PICK b \in scanned..Len(chain) :
            /\ b = scanned \/ b <= snapshot[w]
            /\ OwnersAt(b)[w] # Undeployed
            /\ p \in multisig[w].current_owners <=> p \in OwnersAt(b)[w]
      BY DEF IInv, TrackedOwnersAreRecent, ChainHead
    <3>2. b \in 0..Len(chain) /\ b \in scanned..Len(chain')
      BY <1>1, <1>2
    <3> QED BY <1>1, <3>1, <3>2
  <2> QED BY <1>5, <2>1 DEF TrackedOwnersAreRecent, ChainHead
<1>7. FormerOwnersWereRemoved'
  BY <1>0, <1>2, <1>5, RemovedOwnerLogsKept DEF IInv, FormerOwnersWereRemoved
<1>8. NoReportedOwnerForgotten' /\ UnknownUnreported' /\ NothingKnownAtStart'
  BY <1>5 DEF IInv, NoReportedOwnerForgotten, UnknownUnreported, NothingKnownAtStart
<1> QED BY <1>3, <1>4, <1>6, <1>7, <1>8 DEF IInv

\* Every event of a Safe is such a block.
LEMMA MineBlockKeepsIInv ==
  ASSUME IInv, DeploySafe \/ AddOwner \/ RemoveOwner \/ MineOther
  PROVE  IInv'
<1>1. /\ OwnersAt(Len(chain)) \in [Wallets -> (SUBSET People) \cup {Undeployed}]
      /\ NoWallet \notin Wallets
  BY OwnersAtType, NoWalletAssumption DEF IInv, TypeOK
<1>2. ASSUME NEW w \in Wallets \cup {NoWallet}, NEW kind \in Kinds,
             NEW p \in People \cup {NoWallet}, NEW owners \in SUBSET People,
             Mine(w, kind, p, owners),
             w \in Wallets =>
               LET before == OwnersAt(Len(chain))[w]
               IN  /\ kind = "added" =>
                        before # Undeployed /\ p \in People /\ owners = before \cup {p}
                   /\ kind = "removed" =>
                        before # Undeployed /\ p \in People /\ owners = before \ {p}
                   /\ kind \notin {"added", "removed"} => before = Undeployed
      PROVE  IInv'
  <2> DEFINE block == [wallet |-> w, kind |-> kind, person |-> p,
                       owners |-> IF w \in Wallets
                                  THEN [OwnersAt(Len(chain)) EXCEPT ![w] = owners]
                                  ELSE OwnersAt(Len(chain))]
  <2>1. block \in Block
    BY <1>1 DEF Block
  <2>2. ASSUME NEW v \in Wallets
        PROVE  block.owners[v] = IF v = w THEN owners ELSE OwnersAt(Len(chain))[v]
    BY <1>1
  <2>3. block.wallet = w /\ block.kind = kind /\ block.person = p
    OBVIOUS
  <2>4. chain' = Append(chain, block)
    BY <1>2 DEF Mine, ChainHead
  <2>5. UNCHANGED <<finalized, phase, target, latest_indexed_block_number, scanned, to_block,
                    multisig, snapshot, reported, crashes>>
    BY <1>2 DEF Mine, loopVars, walletVars
  <2> HIDE DEF block
  <2>6. BlockFollows(block)
    BY <1>2, <2>1, <2>2, <2>3 DEF BlockFollows
  <2> QED BY <2>4, <2>5, <2>6, MiningKeepsIInv
<1>3. CASE DeploySafe
  <2>1. PICK w \in Wallets, owners \in (SUBSET People) \ {{}} :
          OwnersAt(Len(chain))[w] = Undeployed /\ Mine(w, "setup", NoWallet, owners)
    BY <1>3 DEF DeploySafe, ChainHead
  <2> QED BY <1>2, <2>1 DEF Kinds
<1>4. CASE AddOwner
  <2>1. PICK w \in Wallets, p \in People :
          /\ OwnersAt(Len(chain))[w] # Undeployed
          /\ Mine(w, "added", p, OwnersAt(Len(chain))[w] \cup {p})
    BY <1>4 DEF AddOwner, ChainHead
  <2>2. OwnersAt(Len(chain))[w] \cup {p} \in SUBSET People
    BY <1>1, <2>1
  <2> QED BY <1>2, <2>1, <2>2 DEF Kinds
<1>5. CASE RemoveOwner
  <2>1. PICK w \in Wallets, p \in People :
          /\ OwnersAt(Len(chain))[w] # Undeployed
          /\ Mine(w, "removed", p, OwnersAt(Len(chain))[w] \ {p})
    BY <1>5 DEF RemoveOwner, ChainHead
  <2>2. OwnersAt(Len(chain))[w] \ {p} \in SUBSET People
    BY <1>1, <2>1
  <2> QED BY <1>2, <2>1, <2>2 DEF Kinds
<1>6. CASE MineOther
  <2>1. Mine(NoWallet, "other", NoWallet, {})
    BY <1>6 DEF MineOther
  <2> QED BY <1>1, <1>2, <2>1 DEF Kinds
<1> QED BY <1>3, <1>4, <1>5, <1>6

\* Finalizing blocks leaves the bridge's memory of wallets justified.
LEMMA FinalizeKeepsIInv == IInv /\ Finalize => IInv'
<1> SUFFICES ASSUME IInv, Finalize PROVE IInv'
  OBVIOUS
<1>1. /\ UNCHANGED <<chain, phase, target, latest_indexed_block_number, scanned, to_block,
                     multisig, snapshot, reported, crashes>>
      /\ finalized' \in (finalized + 1)..Len(chain)
  BY DEF Finalize, loopVars, walletVars, ChainHead
<1>2. TypeOK'
  BY <1>1 DEF IInv, TypeOK, ChainHead
<1>3. OwnersFollowLogs'
  BY <1>1, OwnersFollowLogsFrame DEF IInv
<1>4. /\ KnownSafes' = KnownSafes
      /\ \A b : OwnersAt(b)' = OwnersAt(b)
      /\ \A w : RemovedOwnerLogs(w, finalized) \subseteq RemovedOwnerLogs(w, finalized')
      /\ \A w, b : RemovedOwnerLogs(w, b)' = RemovedOwnerLogs(w, b)
  BY <1>1 DEF KnownSafes, OwnersAt, RemovedOwnerLogs, IInv, TypeOK, ChainHead
<1>5. TrackedOwnersAreRecent'
  BY <1>1, <1>4 DEF IInv, TrackedOwnersAreRecent, ChainHead
<1>6. FormerOwnersWereRemoved'
  BY <1>1, <1>4 DEF IInv, FormerOwnersWereRemoved
<1> QED BY <1>1, <1>2, <1>3, <1>4, <1>5, <1>6
        DEF IInv, NoReportedOwnerForgotten, UnknownUnreported, NothingKnownAtStart

\* The steps of the main loop that neither scan nor ask.  The position of the scan
\* moves only while no wallet is known.
LEMMA MainLoopKeepsIInv == IInv /\ (MainLoop \/ EndScan) => IInv'
<1> SUFFICES ASSUME IInv, MainLoop \/ EndScan PROVE IInv'
  OBVIOUS
<1>1. UNCHANGED <<chain, finalized, multisig, snapshot, reported, crashes>>
  BY DEF MainLoop, StartInit, InitState, EndApplying, StartUpdate, SkipUpdate, StartScan, EndScan,
         chainVars, walletVars
<1>2. TypeOK'
  <2>1. CASE StartInit
    BY <1>1, <2>1 DEF IInv, TypeOK, Phases, ChainHead, StartInit
  <2>2. CASE InitState
    BY <1>1, <2>2 DEF IInv, TypeOK, Phases, ChainHead, InitState
  <2>3. CASE EndApplying
    BY <1>1, <2>3 DEF IInv, TypeOK, Phases, ChainHead, EndApplying
  <2>4. CASE StartUpdate
    BY <1>1, <2>4 DEF IInv, TypeOK, Phases, ChainHead, StartUpdate
  <2>5. CASE SkipUpdate
    BY <1>1, <2>5 DEF IInv, TypeOK, Phases, ChainHead, SkipUpdate
  <2>6. CASE StartScan
    BY <1>1, <2>6 DEF IInv, TypeOK, Phases, ChainHead, StartScan
  <2>7. CASE EndScan
    BY <1>1, <2>7 DEF IInv, TypeOK, Phases, ChainHead, EndScan
  <2> QED BY <2>1, <2>2, <2>3, <2>4, <2>5, <2>6, <2>7 DEF MainLoop
<1>3. OwnersFollowLogs'
  BY <1>1, OwnersFollowLogsFrame DEF IInv
<1>4. /\ KnownSafes' = KnownSafes
      /\ \A b : OwnersAt(b)' = OwnersAt(b)
      /\ \A w, b : RemovedOwnerLogs(w, b)' = RemovedOwnerLogs(w, b)
  BY <1>1 DEF KnownSafes, OwnersAt, RemovedOwnerLogs
<1>5. scanned' = scanned \/ KnownSafes = {}
  BY DEF MainLoop, StartInit, InitState, EndApplying, StartUpdate, SkipUpdate, StartScan, EndScan,
         IInv, NothingKnownAtStart, KnownSafes
<1>6. TrackedOwnersAreRecent'
  BY <1>1, <1>4, <1>5 DEF IInv, TrackedOwnersAreRecent, ChainHead
<1>7. FormerOwnersWereRemoved'
  BY <1>1, <1>4 DEF IInv, FormerOwnersWereRemoved
<1>8. NothingKnownAtStart'
  BY <1>1 DEF IInv, NothingKnownAtStart, MainLoop, StartInit, InitState, EndApplying, StartUpdate,
              SkipUpdate, StartScan, EndScan
<1> QED BY <1>1, <1>2, <1>3, <1>4, <1>6, <1>7, <1>8
        DEF IInv, NoReportedOwnerForgotten, UnknownUnreported

\* Replaying the next block, whatever it holds: TrackedOwnersAreRecent is the one
\* conjunct that looks at the position and the states together.
LEMMA ScanKeepsRecency ==
  ASSUME IInv, scanned < target, scanned' = scanned + 1,
         UNCHANGED <<chain, snapshot>>, DOMAIN multisig' = DOMAIN multisig,
         KnownSafes' = KnownSafes,
         \A w \in KnownSafes :
           LET before == multisig[w].current_owners
               after  == multisig'[w].current_owners
               logged == chain[scanned'].wallet = w
           IN  /\ logged /\ chain[scanned'].kind = "added" =>
                    after = before \cup {chain[scanned'].person}
               /\ logged /\ chain[scanned'].kind = "removed" =>
                    after = before \ {chain[scanned'].person}
               /\ ~(logged /\ chain[scanned'].kind \in {"added", "removed"}) => after = before
  PROVE  TrackedOwnersAreRecent'
<1> DEFINE n == scanned + 1
<1>1. /\ scanned \in Nat /\ Len(chain) \in Nat /\ n <= Len(chain) /\ n \in 1..Len(chain)
      /\ scanned = n - 1 /\ n \in n..Len(chain) /\ scanned' = n
      /\ KnownSafes \subseteq Wallets
      /\ snapshot \in [Wallets -> 0..Len(chain)]
  BY DEF IInv, TypeOK, ChainHead, KnownSafes
<1>2. \A b : OwnersAt(b)' = OwnersAt(b)
  BY DEF OwnersAt
<1> HIDE DEF n
<1>3. ASSUME NEW w \in KnownSafes, NEW p \in People
      PROVE  \E b \in n..Len(chain) :
               /\ b = n \/ b <= snapshot[w]
               /\ OwnersAt(b)[w] # Undeployed
               /\ p \in multisig'[w].current_owners <=> p \in OwnersAt(b)[w]
  <2>1. PICK b \in (n - 1)..Len(chain) :
          /\ b = n - 1 \/ b <= snapshot[w]
          /\ OwnersAt(b)[w] # Undeployed
          /\ p \in multisig[w].current_owners <=> p \in OwnersAt(b)[w]
    BY <1>1 DEF IInv, TrackedOwnersAreRecent, ChainHead
  <2>2. /\ chain[n].wallet = w /\ chain[n].kind = "added" =>
             /\ OwnersAt(n - 1)[w] # Undeployed
             /\ OwnersAt(n)[w] = OwnersAt(n - 1)[w] \cup {chain[n].person}
        /\ chain[n].wallet = w /\ chain[n].kind = "removed" =>
             /\ OwnersAt(n - 1)[w] # Undeployed
             /\ OwnersAt(n)[w] = OwnersAt(n - 1)[w] \ {chain[n].person}
        /\ ~(chain[n].wallet = w /\ chain[n].kind \in {"added", "removed"})
             /\ OwnersAt(n - 1)[w] # Undeployed => OwnersAt(n)[w] = OwnersAt(n - 1)[w]
    BY <1>1 DEF IInv, OwnersFollowLogs
  <2>3. /\ chain[n].wallet = w /\ chain[n].kind = "added" =>
             multisig'[w].current_owners = multisig[w].current_owners \cup {chain[n].person}
        /\ chain[n].wallet = w /\ chain[n].kind = "removed" =>
             multisig'[w].current_owners = multisig[w].current_owners \ {chain[n].person}
        /\ ~(chain[n].wallet = w /\ chain[n].kind \in {"added", "removed"}) =>
             multisig'[w].current_owners = multisig[w].current_owners
    BY <1>1
  <2>5. CASE chain[n].wallet = w /\ chain[n].kind \in {"added", "removed"} /\ chain[n].person = p
    <3>1. OwnersAt(n - 1)[w] # Undeployed
      BY <2>2, <2>5
    <3>2. OwnersAt(n)[w] # Undeployed
      BY <1>1, <3>1, SafeStaysDeployed DEF IInv, TypeOK
    <3>3. p \in multisig'[w].current_owners <=> p \in OwnersAt(n)[w]
      BY <2>2, <2>3, <2>5
    <3> QED BY <1>1, <3>2, <3>3
  <2>6. CASE ~(chain[n].wallet = w /\ chain[n].kind \in {"added", "removed"} /\ chain[n].person = p)
    <3>1. p \in multisig'[w].current_owners <=> p \in multisig[w].current_owners
      BY <2>3, <2>6
    <3>2. CASE b = n - 1
      <4>1. OwnersAt(n)[w] # Undeployed
        BY <1>1, <2>1, <3>2, SafeStaysDeployed DEF IInv, TypeOK
      <4>2. p \in OwnersAt(n)[w] <=> p \in OwnersAt(n - 1)[w]
        BY <2>1, <2>2, <2>6, <3>2
      <4> QED BY <1>1, <2>1, <3>1, <3>2, <4>1, <4>2
    <3>3. CASE b # n - 1
      <4>1. b \in n..Len(chain) /\ b <= snapshot[w]
        BY <1>1, <2>1, <3>3
      <4> QED BY <2>1, <3>1, <4>1
    <3> QED BY <3>2, <3>3
  <2> QED BY <2>5, <2>6
<1> QED BY <1>1, <1>2, <1>3 DEF TrackedOwnersAreRecent, ChainHead

\* A log of a known Safe, added or removed: its person moves as on chain, and one
\* who leaves is remembered as a former owner.
LEMMA ScanLogKeepsIInv == IInv /\ (ScanAddedOwner \/ ScanRemovedOwner) => IInv'
<1> SUFFICES ASSUME IInv,
                    NEW w \in Wallets, NEW kind \in {"added", "removed"}, ScansLogOf(w, kind),
                    multisig[w] # Regular,
                    Replay(w, IF kind = "added" THEN AddedOwner(multisig[w], Log.person)
                              ELSE RemovedOwner(multisig[w], Log.person))
             PROVE  IInv'
  BY DEF ScanAddedOwner, ScanRemovedOwner
<1> DEFINE n == scanned + 1
           before == multisig[w]
           after == multisig'[w]
<1>1. /\ UNCHANGED <<chain, finalized, phase, target, latest_indexed_block_number, to_block,
                     snapshot, reported, crashes>>
      /\ scanned' = n /\ scanned < target
      /\ phase = "scanning"
      /\ Log = chain[n] /\ chain[n].wallet = w /\ chain[n].kind = kind
      /\ w \in DOMAIN multisig
  BY DEF Replay, ScansLogOf, chainVars, Log
<1>2. /\ n \in 1..Len(chain) /\ n \in 1..target /\ n <= finalized /\ n \in 1..finalized
      /\ before \in MultisigState
  <2>1. /\ scanned \in Nat /\ target \in Nat /\ finalized \in Nat /\ Len(chain) \in Nat
        /\ target <= finalized /\ finalized <= Len(chain)
        /\ multisig[w] \in MultisigState \cup {Regular}
    BY <1>1 DEF IInv, TypeOK, ChainHead
  <2> QED BY <1>1, <2>1
<1>3. chain[n].person \in People
  <2>1. CASE kind = "added"
    BY <1>1, <1>2, <2>1 DEF IInv, OwnersFollowLogs
  <2>2. CASE kind = "removed"
    BY <1>1, <1>2, <2>2 DEF IInv, OwnersFollowLogs
  <2> QED BY <2>1, <2>2
<1>4. /\ DOMAIN multisig' = DOMAIN multisig
      /\ \A v \in DOMAIN multisig : v # w => multisig'[v] = multisig[v]
      /\ after = IF kind = "added" THEN AddedOwner(before, chain[n].person)
                 ELSE RemovedOwner(before, chain[n].person)
  BY <1>1 DEF Replay
<1>5. /\ after \in MultisigState
      /\ kind = "added" =>
           /\ after.current_owners = before.current_owners \cup {chain[n].person}
           /\ after.former_owners = before.former_owners
      /\ kind = "removed" =>
           /\ after.current_owners = before.current_owners \ {chain[n].person}
           /\ after.former_owners = before.former_owners \cup {chain[n].person}
  <2>1. /\ before.current_owners \in SUBSET People /\ before.former_owners \in SUBSET People
        /\ before = [current_owners |-> before.current_owners,
                     former_owners |-> before.former_owners]
    BY <1>2 DEF MultisigState
  <2> HIDE DEF before
  <2>2. CASE kind = "added"
    <3>1. after = [current_owners |-> before.current_owners \cup {chain[n].person},
                   former_owners |-> before.former_owners]
      BY <1>4, <2>1, <2>2 DEF AddedOwner
    <3> QED BY <1>3, <2>1, <2>2, <3>1 DEF MultisigState
  <2>3. CASE kind = "removed"
    <3>1. after = [current_owners |-> before.current_owners \ {chain[n].person},
                   former_owners |-> before.former_owners \cup {chain[n].person}]
      BY <1>4, <2>1, <2>3 DEF RemovedOwner
    <3> QED BY <1>3, <2>1, <2>3, <3>1 DEF MultisigState
  <2> QED BY <2>2, <2>3
<1>6. /\ KnownSafes' = KnownSafes /\ w \in KnownSafes
      /\ \A b : OwnersAt(b)' = OwnersAt(b)
      /\ \A v, b : RemovedOwnerLogs(v, b)' = RemovedOwnerLogs(v, b)
      /\ KnownSafes \subseteq DOMAIN multisig
  BY <1>1, <1>4, <1>5, RegularAssumption DEF KnownSafes, OwnersAt, RemovedOwnerLogs
<1>7. TypeOK'
  <2>1. \A v \in DOMAIN multisig : multisig'[v] \in MultisigState \cup {Regular}
    BY <1>4, <1>5 DEF IInv, TypeOK
  <2> QED BY <1>1, <1>2, <1>4, <2>1 DEF IInv, TypeOK, ChainHead
<1>8. OwnersFollowLogs'
  BY <1>1, OwnersFollowLogsFrame DEF IInv
<1> HIDE DEF before, after
<1>9. TrackedOwnersAreRecent'
  <2>1. ASSUME NEW v \in KnownSafes
        PROVE  LET old == multisig[v].current_owners
                   new == multisig'[v].current_owners
                   logged == chain[scanned'].wallet = v
               IN  /\ logged /\ chain[scanned'].kind = "added" =>
                        new = old \cup {chain[scanned'].person}
                   /\ logged /\ chain[scanned'].kind = "removed" =>
                        new = old \ {chain[scanned'].person}
                   /\ ~(logged /\ chain[scanned'].kind \in {"added", "removed"}) => new = old
    BY <1>1, <1>4, <1>5, <1>6 DEF before, after
  <2> QED BY <1>1, <1>4, <1>6, <2>1, ScanKeepsRecency
<1>10. FormerOwnersWereRemoved'
  <2>1. kind = "removed" => chain[n].person \in RemovedOwnerLogs(w, finalized)
    BY <1>1, <1>2 DEF RemovedOwnerLogs
  <2>2. before.former_owners \subseteq RemovedOwnerLogs(w, finalized)
    BY <1>6 DEF IInv, FormerOwnersWereRemoved, before
  <2>3. after.former_owners \subseteq RemovedOwnerLogs(w, finalized)
    BY <1>5, <2>1, <2>2
  <2> QED BY <1>1, <1>4, <1>6, <2>3 DEF IInv, FormerOwnersWereRemoved, after
<1>11. NoReportedOwnerForgotten'
  <2>1. before.current_owners \cup before.former_owners
          \subseteq after.current_owners \cup after.former_owners
    BY <1>5
  <2> QED BY <1>1, <1>4, <1>6, <2>1 DEF IInv, NoReportedOwnerForgotten, before, after
<1>12. UnknownUnreported' /\ NothingKnownAtStart'
  BY <1>1, <1>4 DEF IInv, UnknownUnreported, NothingKnownAtStart
<1> QED BY <1>7, <1>8, <1>9, <1>10, <1>11, <1>12 DEF IInv

\* A block without a log of a known wallet only moves the position.
LEMMA ScanOtherKeepsIInv == IInv /\ ScanOther => IInv'
<1> SUFFICES ASSUME IInv, ScanOther PROVE IInv'
  OBVIOUS
<1>1. /\ UNCHANGED <<chain, finalized, phase, target, latest_indexed_block_number, to_block,
                     multisig, snapshot, reported, crashes>>
      /\ scanned' = scanned + 1 /\ scanned < target /\ phase = "scanning"
      /\ \A w \in DOMAIN multisig :
           ~(chain[scanned'].wallet = w /\ chain[scanned'].kind \in {"added", "removed"})
  BY DEF ScanOther, Log, chainVars, walletVars
<1>2. TypeOK'
  BY <1>1 DEF IInv, TypeOK, ChainHead
<1>3. OwnersFollowLogs'
  BY <1>1, OwnersFollowLogsFrame DEF IInv
<1>4. /\ KnownSafes' = KnownSafes /\ KnownSafes \subseteq DOMAIN multisig
      /\ \A w, b : RemovedOwnerLogs(w, b)' = RemovedOwnerLogs(w, b)
  BY <1>1 DEF KnownSafes, RemovedOwnerLogs
<1>5. TrackedOwnersAreRecent'
  BY <1>1, <1>4, ScanKeepsRecency
<1>6. FormerOwnersWereRemoved'
  BY <1>1, <1>4 DEF IInv, FormerOwnersWereRemoved
<1> QED BY <1>1, <1>2, <1>3, <1>4, <1>5, <1>6
        DEF IInv, NoReportedOwnerForgotten, UnknownUnreported, NothingKnownAtStart

\* Answering from the map adds only current owners to what was reported.
LEMMA GetKnownOwnersKeepsIInv == IInv /\ GetKnownOwners => IInv'
<1> SUFFICES ASSUME IInv, NEW w \in DOMAIN multisig, Report(w, multisig[w]),
                    UNCHANGED <<chain, finalized, phase, target, latest_indexed_block_number,
                                scanned, to_block, multisig, snapshot, crashes>>
             PROVE  IInv'
  BY DEF GetKnownOwners, chainVars, loopVars
<1>1. /\ w \in Wallets
      /\ multisig[w] \in MultisigState \cup {Regular}
      /\ reported \in [Wallets -> SUBSET (People \cup Wallets)]
  BY DEF IInv, TypeOK
<1> DEFINE answer == GetOwnersResponse(w, multisig[w]).current_owners
<1>2. /\ answer \subseteq People \cup Wallets
      /\ multisig[w] # Regular => answer = multisig[w].current_owners
  BY <1>1 DEF GetOwnersResponse, MultisigState
<1>3. reported' = [reported EXCEPT ![w] = @ \cup answer]
  BY DEF Report
<1> HIDE DEF answer
<1>4. TypeOK'
  BY <1>1, <1>2, <1>3 DEF IInv, TypeOK, ChainHead
<1>5. OwnersFollowLogs'
  BY OwnersFollowLogsFrame DEF IInv
<1>6. /\ KnownSafes' = KnownSafes
      /\ \A b : OwnersAt(b)' = OwnersAt(b)
      /\ \A v, b : RemovedOwnerLogs(v, b)' = RemovedOwnerLogs(v, b)
  BY DEF KnownSafes, OwnersAt, RemovedOwnerLogs
<1>7. TrackedOwnersAreRecent' /\ FormerOwnersWereRemoved'
  BY <1>6 DEF IInv, TrackedOwnersAreRecent, FormerOwnersWereRemoved, ChainHead
<1>8. NoReportedOwnerForgotten'
  <2>1. ASSUME NEW v \in KnownSafes
        PROVE  reported'[v] \subseteq multisig[v].current_owners \cup multisig[v].former_owners
    <3>1. reported[v] \subseteq multisig[v].current_owners \cup multisig[v].former_owners
      BY DEF IInv, NoReportedOwnerForgotten
    <3>2. v \in Wallets /\ (v = w => multisig[w] # Regular)
      BY DEF KnownSafes, IInv, TypeOK
    <3> QED BY <1>1, <1>2, <1>3, <3>1, <3>2
  <2> QED BY <1>6, <2>1 DEF NoReportedOwnerForgotten
<1>9. UnknownUnreported' /\ NothingKnownAtStart'
  BY <1>1, <1>3 DEF IInv, UnknownUnreported, NothingKnownAtStart
<1> QED BY <1>4, <1>5, <1>7, <1>8, <1>9 DEF IInv

\* The first answer about a wallet: what the map remembers of it is what the API and
\* the logs said, and nothing was reported of it before.
LEMMA RememberKeepsIInv ==
  ASSUME IInv, phase = "applying", NEW w \in Wallets \ DOMAIN multisig,
         NEW b \in finalized..Len(chain), NEW known \in MultisigState \cup {Regular},
         known # Regular =>
           /\ OwnersAt(b)[w] # Undeployed
           /\ known.current_owners = OwnersAt(b)[w]
           /\ known.former_owners \subseteq RemovedOwnerLogs(w, finalized),
         Remember(w, known, b)
  PROVE  IInv'
<1> DEFINE answer == GetOwnersResponse(w, known).current_owners
<1>1. /\ UNCHANGED <<chain, finalized, phase, target, latest_indexed_block_number, scanned,
                     to_block, crashes>>
      /\ multisig' = [v \in DOMAIN multisig \cup {w} |-> IF v = w THEN known ELSE multisig[v]]
      /\ snapshot' = [snapshot EXCEPT ![w] = b]
      /\ reported' = [reported EXCEPT ![w] = @ \cup answer]
  BY DEF Remember, Report, chainVars, loopVars
<1>2. /\ answer \subseteq People \cup Wallets
      /\ known # Regular => answer = known.current_owners
  BY DEF GetOwnersResponse, MultisigState
<1> HIDE DEF answer
<1>3. /\ reported \in [Wallets -> SUBSET (People \cup Wallets)]
      /\ snapshot \in [Wallets -> 0..Len(chain)]
      /\ DOMAIN multisig \subseteq Wallets
      /\ scanned \in Nat /\ finalized \in Nat /\ Len(chain) \in Nat /\ scanned <= finalized
      /\ b \in 0..Len(chain) /\ b \in scanned..Len(chain)
      /\ reported[w] = {}
  BY DEF IInv, TypeOK, UnknownUnreported, ChainHead
<1>4. /\ DOMAIN multisig' = DOMAIN multisig \cup {w}
      /\ multisig'[w] = known
      /\ \A v \in DOMAIN multisig : multisig'[v] = multisig[v]
      /\ snapshot'[w] = b /\ reported'[w] = answer
      /\ \A v \in DOMAIN multisig : snapshot'[v] = snapshot[v] /\ reported'[v] = reported[v]
  BY <1>1, <1>3
<1>5. TypeOK'
  <2>1. \A v \in DOMAIN multisig' : multisig'[v] \in MultisigState \cup {Regular}
    BY <1>4 DEF IInv, TypeOK
  <2>2. snapshot' \in [Wallets -> 0..Len(chain)]
    BY <1>1, <1>3
  <2>3. reported' \in [Wallets -> SUBSET (People \cup Wallets)]
    BY <1>1, <1>2, <1>3
  <2> QED BY <1>1, <1>3, <1>4, <2>1, <2>2, <2>3 DEF IInv, TypeOK, ChainHead
<1>6. OwnersFollowLogs'
  BY <1>1, OwnersFollowLogsFrame DEF IInv
<1>7. /\ \A v \in KnownSafes' : v \in KnownSafes \/ (v = w /\ known # Regular)
      /\ KnownSafes \subseteq DOMAIN multisig
      /\ \A c : OwnersAt(c)' = OwnersAt(c)
      /\ \A v, c : RemovedOwnerLogs(v, c)' = RemovedOwnerLogs(v, c)
  BY <1>1, <1>4 DEF KnownSafes, OwnersAt, RemovedOwnerLogs
<1>8. TrackedOwnersAreRecent'
  <2>1. ASSUME NEW v \in KnownSafes', NEW p \in People
        PROVE  \E c \in scanned..Len(chain) :
                 /\ c = scanned \/ c <= snapshot'[v]
                 /\ OwnersAt(c)[v] # Undeployed
                 /\ p \in multisig'[v].current_owners <=> p \in OwnersAt(c)[v]
    <3>1. CASE v \in KnownSafes
      BY <1>4, <1>7, <3>1 DEF IInv, TrackedOwnersAreRecent, ChainHead
    <3>2. CASE v = w /\ known # Regular
      <4>1. /\ b \in scanned..Len(chain) /\ b <= snapshot'[v]
            /\ OwnersAt(b)[v] # Undeployed
            /\ p \in multisig'[v].current_owners <=> p \in OwnersAt(b)[v]
        BY <1>3, <1>4, <3>2
      <4> QED BY <4>1
    <3> QED BY <1>7, <3>1, <3>2
  <2> QED BY <1>1, <1>7, <2>1 DEF TrackedOwnersAreRecent, ChainHead
<1>9. FormerOwnersWereRemoved'
  BY <1>1, <1>4, <1>7 DEF IInv, FormerOwnersWereRemoved
<1>10. NoReportedOwnerForgotten'
  BY <1>2, <1>4, <1>7 DEF IInv, NoReportedOwnerForgotten
<1>11. UnknownUnreported' /\ NothingKnownAtStart'
  BY <1>1, <1>3, <1>4 DEF IInv, UnknownUnreported, NothingKnownAtStart
<1> QED BY <1>5, <1>6, <1>8, <1>9, <1>10, <1>11 DEF IInv

\* The first question about a wallet, whichever kind of wallet it turns out to be.
LEMMA GetNewOwnersKeepsIInv == IInv /\ (GetRegularWallet \/ GetNewSafeOwners) => IInv'
<1>1. ASSUME IInv, GetRegularWallet PROVE IInv'
  <2>1. PICK w \in Wallets \ DOMAIN multisig, b \in finalized..Len(chain) :
          phase = "applying" /\ Remember(w, Regular, b)
    BY <1>1 DEF GetRegularWallet, ChainHead
  <2> QED BY <1>1, <2>1, RememberKeepsIInv
<1>2. ASSUME IInv, GetNewSafeOwners PROVE IInv'
  <2>1. PICK w \in Wallets \ DOMAIN multisig, b \in finalized..Len(chain) :
          /\ phase = "applying"
          /\ OwnersAt(b)[w] # Undeployed
          /\ Remember(w, NewMultisigState(OwnersAt(b)[w], RemovedOwnerLogs(w, to_block)), b)
    BY <1>2 DEF GetNewSafeOwners, MultisigOwners, ChainHead
  <2>2. OwnersAt(b)[w] \in SUBSET People
    <3>1. b \in 0..Len(chain)
      BY <1>2 DEF IInv, TypeOK, ChainHead
    <3> QED BY <1>2, <2>1, <3>1, OwnersAtType DEF IInv, TypeOK
  <2>3. RemovedOwnerLogs(w, to_block) \subseteq RemovedOwnerLogs(w, finalized) \cap People
    <3>1. \A i \in 1..to_block : i \in 1..finalized /\ i \in 1..Len(chain)
      BY <1>2 DEF IInv, TypeOK, ChainHead
    <3>2. \A i \in 1..to_block : chain[i].wallet = w /\ chain[i].kind = "removed" =>
                                   chain[i].person \in People
      BY <1>2, <3>1 DEF IInv, OwnersFollowLogs
    <3> QED BY <3>1, <3>2 DEF RemovedOwnerLogs
  <2> DEFINE known == NewMultisigState(OwnersAt(b)[w], RemovedOwnerLogs(w, to_block))
  <2>4. /\ known \in MultisigState
        /\ known.current_owners = OwnersAt(b)[w]
        /\ known.former_owners \subseteq RemovedOwnerLogs(w, finalized)
    BY <2>2, <2>3 DEF NewMultisigState, MultisigState
  <2> HIDE DEF known
  <2>5. Remember(w, known, b)
    BY <2>1 DEF known
  <2> QED BY <1>2, <2>1, <2>4, <2>5, RememberKeepsIInv
<1> QED BY <1>1, <1>2

\* Losing the process, by an error or the panic of the scan, loses the map.
LEMMA LoseProcessKeepsIInv == IInv /\ (Crash \/ Panic) => IInv'
<1> SUFFICES ASSUME IInv, LoseProcess PROVE IInv'
  BY DEF Crash, Panic
<1>1. /\ UNCHANGED <<chain, finalized>> /\ phase' = "down" /\ target' = 0 /\ scanned' = 0
      /\ latest_indexed_block_number' = 0 /\ to_block' = 0 /\ multisig' = Nothing
      /\ snapshot' = [w \in Wallets |-> 0] /\ reported' = [w \in Wallets |-> {}]
      /\ crashes' = crashes + 1 /\ crashes < MaxCrashes
  BY DEF LoseProcess, chainVars
<1>2. TypeOK'
  BY <1>1, BoundsAssumption DEF IInv, TypeOK, Phases, Nothing, ChainHead
<1>3. OwnersFollowLogs'
  BY <1>1, OwnersFollowLogsFrame DEF IInv
<1> QED BY <1>1, <1>2, <1>3
        DEF IInv, Nothing, KnownSafes, TrackedOwnersAreRecent, FormerOwnersWereRemoved,
            NoReportedOwnerForgotten, UnknownUnreported, NothingKnownAtStart

\* A step of somebody else changes nothing.
LEMMA StutterKeepsIInv == IInv /\ UNCHANGED vars => IInv'
<1> SUFFICES ASSUME IInv, UNCHANGED vars PROVE IInv'
  OBVIOUS
<1>1. UNCHANGED <<chain, finalized, phase, target, latest_indexed_block_number, scanned, to_block,
                  multisig, snapshot, reported, crashes>>
  BY DEF vars, chainVars, loopVars, walletVars
<1>2. TypeOK'
  BY <1>1 DEF IInv, TypeOK, ChainHead
<1>3. OwnersFollowLogs'
  BY <1>1, OwnersFollowLogsFrame DEF IInv
<1>4. /\ KnownSafes' = KnownSafes
      /\ \A b : OwnersAt(b)' = OwnersAt(b)
      /\ \A w, b : RemovedOwnerLogs(w, b)' = RemovedOwnerLogs(w, b)
  BY <1>1 DEF KnownSafes, OwnersAt, RemovedOwnerLogs
<1>5. TrackedOwnersAreRecent' /\ FormerOwnersWereRemoved'
  BY <1>1, <1>4 DEF IInv, TrackedOwnersAreRecent, FormerOwnersWereRemoved, ChainHead
<1> QED BY <1>1, <1>2, <1>3, <1>4, <1>5
        DEF IInv, NoReportedOwnerForgotten, UnknownUnreported, NothingKnownAtStart

\* Every step keeps the invariant: one lemma for each kind of action.
LEMMA NextKeepsIInv == IInv /\ [Next]_vars => IInv'
<1>1. IInv /\ Safes => IInv'
  BY MineBlockKeepsIInv, FinalizeKeepsIInv DEF Safes
<1>2. IInv /\ (MainLoop \/ Scan) => IInv'
  BY MainLoopKeepsIInv, ScanLogKeepsIInv, ScanOtherKeepsIInv DEF Scan
<1>3. IInv /\ GetOwners => IInv'
  BY GetKnownOwnersKeepsIInv, GetNewOwnersKeepsIInv DEF GetOwners
<1> QED BY <1>1, <1>2, <1>3, LoseProcessKeepsIInv, StutterKeepsIInv DEF Next

\* The strengthened invariant holds in every reachable state of the tracker.
THEOREM IInvInvariant == Spec => []IInv
BY InitEstablishesIInv, NextKeepsIInv, PTL DEF Spec

\* Every variable keeps the shape the program gives it.
THEOREM TypeCorrect == Spec => []TypeOK
<1>1. IInv => TypeOK
  BY DEF IInv
<1> QED BY <1>1, IInvInvariant, PTL

\* The two sources of a Safe's owners, the API at the head and the logs behind it,
\* never leave the map with a membership older than the scanned block.
THEOREM TrackingIsRecent == Spec => []TrackedOwnersAreRecent
<1>1. IInv => TrackedOwnersAreRecent
  BY DEF IInv
<1> QED BY <1>1, IInvInvariant, PTL

\* When the logs have caught up with the API's answer, the map shows the owners on
\* chain: every membership comes from the scanned block itself.
THEOREM TrackingConverges == Spec => []TrackedOwnersConverge
<1>1. ASSUME IInv PROVE TrackedOwnersConverge
  <2> SUFFICES ASSUME NEW w \in KnownSafes, snapshot[w] <= scanned
               PROVE  multisig[w].current_owners = OwnersAt(scanned)[w]
    BY DEF TrackedOwnersConverge
  <2>1. /\ scanned \in 0..Len(chain) /\ w \in Wallets
        /\ multisig[w] \in MultisigState
        /\ snapshot[w] \in Nat
    BY <1>1 DEF IInv, TypeOK, KnownSafes, ChainHead
  <2>2. OwnersAt(scanned)[w] \in (SUBSET People) \cup {Undeployed}
    BY <1>1, <2>1, OwnersAtType DEF IInv, TypeOK
  <2>3. ASSUME NEW p \in People
        PROVE  /\ OwnersAt(scanned)[w] # Undeployed
               /\ p \in multisig[w].current_owners <=> p \in OwnersAt(scanned)[w]
    <3>1. PICK b \in scanned..Len(chain) :
            /\ b = scanned \/ b <= snapshot[w]
            /\ OwnersAt(b)[w] # Undeployed
            /\ p \in multisig[w].current_owners <=> p \in OwnersAt(b)[w]
      BY <1>1 DEF IInv, TrackedOwnersAreRecent, ChainHead
    <3>2. b = scanned
      BY <2>1, <3>1
    <3> QED BY <3>1, <3>2
  <2>4. multisig[w].current_owners \subseteq People
    BY <2>1 DEF MultisigState
  <2>5. OwnersAt(scanned)[w] \in SUBSET People
    BY <2>2, <2>3, PeopleAssumption
  <2> QED BY <2>3, <2>4, <2>5
<1> QED BY <1>1, IInvInvariant, PTL

\* Only people a final block removed from a Safe are listed as its former owners.
THEOREM FormerIsJustified == Spec => []FormerOwnersWereRemoved
<1>1. IInv => FormerOwnersWereRemoved
  BY DEF IInv
<1> QED BY <1>1, IInvInvariant, PTL

\* No person treated as an owner of a Safe drops out of its current and former
\* owners, so that the access given to them can still be revoked.
THEOREM ReportedOwnersAreKept == Spec => []NoReportedOwnerForgotten
<1>1. IInv => NoReportedOwnerForgotten
  BY DEF IInv
<1> QED BY <1>1, IInvInvariant, PTL
=============================================================================
