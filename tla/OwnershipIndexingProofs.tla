---------------------- MODULE OwnershipIndexingProofs ----------------------
(***************************************************************************)
(* The safety of OwnershipIndexing for any set of OCLs and addresses, any  *)
(* chain length and any number of crashes.                                 *)
(*                                                                         *)
(* The inductive invariant adds to the checked properties what the chain   *)
(* itself guarantees (LastTransferDecides: between two blocks an OCL's     *)
(* owner is the receiver of its last transfer, or unchanged when there is  *)
(* none) and what the main loop knows while it starts (StartsFromBirth).   *)
(***************************************************************************)
EXTENDS OwnershipIndexing, OclOwnershipProofs

TransfersGoToAddresses ==
  \A b \in 1..Len(chain) : IsTransfer(b) => chain[b].to \in Addresses

\* Transfer k is the last one of OCL o after block i up to block j.
LastTransfer(o, i, j, k) ==
  /\ k \in (i + 1)..j
  /\ chain[k].ocl_id = o
  /\ \A m \in (k + 1)..j : chain[m].ocl_id # o

LastTransferDecides ==
  \A o \in OclIds : \A j \in 0..Len(chain) : \A i \in 0..j :
    \/ /\ \A k \in (i + 1)..j : chain[k].ocl_id # o
       /\ OwnersAt(j)[o] = OwnersAt(i)[o]
    \/ \E k \in (i + 1)..j : LastTransfer(o, i, j, k) /\ OwnersAt(j)[o] = chain[k].to

StartsFromBirth ==
  /\ phase \in {"down", "starting"} => latest_indexed_block_number = 0 /\ entries = Nothing
  /\ phase = "starting" => target >= 1

ChainInv == TransfersGoToAddresses /\ LastTransferDecides

IInv == /\ TypeOK
        /\ ChainInv
        /\ StartsFromBirth
        /\ CurrentIsOnChainOwner
        /\ PreviousLostTheToken
        /\ NoServedOwnerForgotten

-----------------------------------------------------------------------------
(* The chain. *)

\* The contract's state after any block gives every OCL an owner or none.
LEMMA OwnersAtType ==
  ASSUME chain \in Seq(Block), NEW b \in 0..Len(chain)
  PROVE  OwnersAt(b) \in [OclIds -> Addresses \cup {NoOwner}]
<1>1. CASE b = 0
  BY <1>1 DEF OwnersAt, Unminted
<1>2. CASE b # 0
  <2>1. b \in 1..Len(chain)
    BY <1>2
  <2>2. chain[b] \in Block
    BY <2>1
  <2> QED BY <1>2, <2>2 DEF OwnersAt, Block
<1> QED BY <1>1, <1>2

\* Mining a block keeps the earlier ones and the states after them.
LEMMA MiningKeepsHistory ==
  ASSUME chain \in Seq(Block), NEW block \in Block, chain' = Append(chain, block)
  PROVE  /\ chain' \in Seq(Block)
         /\ Len(chain') = Len(chain) + 1
         /\ chain'[Len(chain) + 1] = block
         /\ \A b \in 1..Len(chain) : chain'[b] = chain[b]
         /\ \A b \in 0..Len(chain) : OwnersAt(b)' = OwnersAt(b)
         /\ \A b \in Nat : b = Len(chain) + 1 => OwnersAt(b)' = block.owners
<1>1. /\ chain' \in Seq(Block)
      /\ Len(chain') = Len(chain) + 1
      /\ chain'[Len(chain) + 1] = block
      /\ \A b \in 1..Len(chain) : chain'[b] = chain[b]
  OBVIOUS
<1>2. \A b \in 0..Len(chain) : OwnersAt(b)' = OwnersAt(b)
  BY <1>1 DEF OwnersAt
<1>3. Len(chain) \in Nat
  OBVIOUS
<1>4. \A b \in Nat : b = Len(chain) + 1 => OwnersAt(b)' = block.owners
  BY <1>1, <1>3 DEF OwnersAt
<1> QED BY <1>1, <1>2, <1>4

\* Mining keeps the chain's own invariant, whatever the new block holds.
LEMMA MiningKeepsChainInv ==
  ASSUME chain \in Seq(Block), ChainInv, NEW block \in Block, chain' = Append(chain, block),
         \A o \in OclIds : block.owners[o] = IF block.ocl_id = o THEN block.to
                                             ELSE OwnersAt(Len(chain))[o],
         block.ocl_id \in OclIds => block.to \in Addresses
  PROVE  ChainInv'
<1>0. PICK top \in Nat : top = Len(chain) + 1
  OBVIOUS
<1>1. /\ Len(chain') = top
      /\ Len(chain) \in Nat
      /\ chain'[top] = block
      /\ \A b \in 1..Len(chain) : chain'[b] = chain[b]
      /\ \A b \in 0..Len(chain) : OwnersAt(b)' = OwnersAt(b)
      /\ OwnersAt(top)' = block.owners
  BY <1>0, MiningKeepsHistory
<1>2. TransfersGoToAddresses'
  BY <1>0, <1>1 DEF ChainInv, TransfersGoToAddresses, IsTransfer
<1>3. ASSUME NEW o \in OclIds, NEW j \in 0..Len(chain'), NEW i \in 0..j
      PROVE  \/ /\ \A k \in (i + 1)..j : chain'[k].ocl_id # o
                /\ OwnersAt(j)'[o] = OwnersAt(i)'[o]
             \/ \E k \in (i + 1)..j : LastTransfer(o, i, j, k)' /\ OwnersAt(j)'[o] = chain'[k].to
  <2>1. CASE j \in 0..Len(chain)
    <3>1. \A b \in (i + 1)..j : chain'[b] = chain[b]
      BY <1>1, <2>1
    <3>2. OwnersAt(j)' = OwnersAt(j) /\ OwnersAt(i)' = OwnersAt(i)
      BY <1>1, <2>1
    <3>3. CASE /\ \A k \in (i + 1)..j : chain[k].ocl_id # o
               /\ OwnersAt(j)[o] = OwnersAt(i)[o]
      BY <3>1, <3>2, <3>3
    <3>4. CASE \E k \in (i + 1)..j : LastTransfer(o, i, j, k) /\ OwnersAt(j)[o] = chain[k].to
      <4>1. PICK k \in (i + 1)..j : LastTransfer(o, i, j, k) /\ OwnersAt(j)[o] = chain[k].to
        BY <3>4
      <4>2. \A m \in (k + 1)..j : m \in (i + 1)..j
        BY <2>1
      <4> QED BY <3>1, <3>2, <4>1, <4>2 DEF LastTransfer
    <3> QED BY <2>1, <3>3, <3>4 DEF ChainInv, LastTransferDecides
  <2>2. CASE j = top /\ i = top
    BY <2>2, <1>0
  <2>3. CASE j = top /\ i \in 0..Len(chain) /\ block.ocl_id = o
    <3>1. LastTransfer(o, i, j, top)'
      BY <1>0, <1>1, <2>3 DEF LastTransfer
    <3>2. OwnersAt(j)'[o] = chain'[top].to
      BY <1>1, <2>3
    <3> QED BY <3>1, <3>2, <1>0, <2>3
  <2>4. CASE j = top /\ i \in 0..Len(chain) /\ block.ocl_id # o
    <3>1. OwnersAt(j)'[o] = OwnersAt(Len(chain))[o]
      BY <1>1, <2>4
    <3>2. OwnersAt(i)' = OwnersAt(i)
      BY <1>1, <2>4
    <3>3. CASE /\ \A k \in (i + 1)..Len(chain) : chain[k].ocl_id # o
               /\ OwnersAt(Len(chain))[o] = OwnersAt(i)[o]
      <4>1. \A k \in (i + 1)..j : chain'[k].ocl_id # o
        BY <1>0, <1>1, <2>4, <3>3
      <4> QED BY <3>1, <3>2, <3>3, <4>1
    <3>4. CASE \E k \in (i + 1)..Len(chain) :
                  LastTransfer(o, i, Len(chain), k) /\ OwnersAt(Len(chain))[o] = chain[k].to
      <4>1. PICK k \in (i + 1)..Len(chain) :
                  LastTransfer(o, i, Len(chain), k) /\ OwnersAt(Len(chain))[o] = chain[k].to
        BY <3>4
      <4>2. k \in (i + 1)..j /\ chain'[k] = chain[k]
        BY <1>0, <1>1, <2>4
      <4>3. \A m \in (k + 1)..j : chain'[m].ocl_id # o
        BY <1>0, <1>1, <2>4, <4>1 DEF LastTransfer
      <4>4. LastTransfer(o, i, j, k)'
        BY <4>1, <4>2, <4>3 DEF LastTransfer
      <4> QED BY <3>1, <4>1, <4>2, <4>4
    <3>5. Len(chain) \in 0..Len(chain) /\ i \in 0..Len(chain)
      BY <1>1, <2>4
    <3> QED BY <3>3, <3>4, <3>5 DEF ChainInv, LastTransferDecides
  <2> QED BY <1>0, <1>1, <2>1, <2>2, <2>3, <2>4
<1>4. LastTransferDecides'
  BY <1>3 DEF LastTransferDecides
<1> QED BY <1>2, <1>4 DEF ChainInv

\* The chain's invariant is about the chain alone.
LEMMA ChainInvFrame ==
  ASSUME ChainInv, UNCHANGED chain
  PROVE  ChainInv'
<1>1. \A b : OwnersAt(b)' = OwnersAt(b)
  BY DEF OwnersAt
<1>2. TransfersGoToAddresses'
  BY DEF ChainInv, TransfersGoToAddresses, IsTransfer
<1>3. LastTransferDecides'
  BY <1>1 DEF ChainInv, LastTransferDecides, LastTransfer
<1> QED BY <1>2, <1>3 DEF ChainInv

-----------------------------------------------------------------------------
(* One indexing: the batch it fetches, and what it makes of the entries. *)

\* The logs of a range of blocks compress to the contract's state at its end: an
\* OCL in the batch has the owner of that state, an OCL not in it has not moved.
LEMMA FetchedBatch ==
  ASSUME TypeOK, ChainInv,
         NEW l \in 0..Len(chain), NEW t \in l..Len(chain),
         NEW compressed, compressed = CompressEvents(IndexLabnftContract(l + 1, t))
  PROVE  /\ DOMAIN compressed \subseteq OclIds
         /\ \A o \in DOMAIN compressed : /\ compressed[o] = OwnersAt(t)[o]
                                         /\ compressed[o] \in Addresses
         /\ \A o \in OclIds \ DOMAIN compressed : OwnersAt(t)[o] = OwnersAt(l)[o]
<1> DEFINE events == IndexLabnftContract(l + 1, t)
<1>0. /\ Len(chain) \in Nat /\ l \in Nat /\ t \in Nat /\ t <= Len(chain) /\ l <= t
      /\ \A b \in (l + 1)..t : b \in 1..Len(chain)
  BY DEF TypeOK
<1>1. /\ DOMAIN events = {b \in (l + 1)..t : chain[b].ocl_id \in OclIds}
      /\ \A b \in DOMAIN events : /\ events[b].ocl_id = chain[b].ocl_id
                                  /\ events[b].to = chain[b].to
      /\ \A b \in DOMAIN events : events[b] = [ocl_id |-> chain[b].ocl_id, to |-> chain[b].to]
  BY DEF IndexLabnftContract, IsTransfer
<1>2. IsBatch(events)
  <2>1. DOMAIN events \subseteq Int
    BY <1>0, <1>1
  <2>2. ASSUME NEW b \in DOMAIN events
        PROVE  events[b] \in OclTransferEvent
    <3>1. chain[b].ocl_id \in OclIds /\ chain[b].to \in Addresses
      BY <1>0, <1>1 DEF ChainInv, TransfersGoToAddresses, IsTransfer
    <3>2. events[b] = [ocl_id |-> chain[b].ocl_id, to |-> chain[b].to]
      BY <1>1
    <3> QED BY <3>1, <3>2 DEF OclTransferEvent
  <2> QED BY <2>1, <2>2 DEF IsBatch
<1>3. DOMAIN compressed = {events[i].ocl_id : i \in DOMAIN events}
  BY CompressEventsDomain
<1> HIDE DEF events
<1>4. DOMAIN compressed \subseteq OclIds
  BY <1>1, <1>3
<1>5. ASSUME NEW o \in OclIds
      PROVE  \/ /\ \A k \in (l + 1)..t : chain[k].ocl_id # o
                /\ OwnersAt(t)[o] = OwnersAt(l)[o]
             \/ \E k \in (l + 1)..t : LastTransfer(o, l, t, k) /\ OwnersAt(t)[o] = chain[k].to
  <2>1. t \in 0..Len(chain) /\ l \in 0..t
    BY <1>0
  <2> QED BY <2>1 DEF ChainInv, LastTransferDecides
<1>6. ASSUME NEW o \in OclIds, NEW k \in (l + 1)..t, LastTransfer(o, l, t, k)
      PROVE  o \in DOMAIN compressed /\ compressed[o] = chain[k].to /\ chain[k].to \in Addresses
  <2>1. k \in DOMAIN events /\ events[k].ocl_id = o /\ events[k].to = chain[k].to
    BY <1>1, <1>6 DEF LastTransfer
  <2>2. \A j \in DOMAIN events : events[j].ocl_id = o => j <= k
    BY <1>0, <1>1, <1>6 DEF LastTransfer
  <2>3. o \in DOMAIN CompressEvents(events) /\ CompressEvents(events)[o] = events[k].to
    BY <1>2, <2>1, <2>2, CompressEventsKeepsLast DEF IsLastOf
  <2>4. chain[k].to \in Addresses
    BY <1>0, <1>6 DEF LastTransfer, ChainInv, TransfersGoToAddresses, IsTransfer
  <2> QED BY <2>1, <2>3, <2>4 DEF events
<1>7. ASSUME NEW o \in DOMAIN compressed
      PROVE  compressed[o] = OwnersAt(t)[o] /\ compressed[o] \in Addresses
  <2>1. o \in OclIds /\ \E k \in (l + 1)..t : chain[k].ocl_id = o
    BY <1>1, <1>3, <1>4
  <2>2. PICK k \in (l + 1)..t : LastTransfer(o, l, t, k) /\ OwnersAt(t)[o] = chain[k].to
    BY <1>5, <2>1
  <2> QED BY <1>6, <2>1, <2>2
<1>8. ASSUME NEW o \in OclIds \ DOMAIN compressed
      PROVE  OwnersAt(t)[o] = OwnersAt(l)[o]
  BY <1>5, <1>6
<1> QED BY <1>4, <1>7, <1>8

\* The projection after an indexing up to block t, from entries that show the
\* contract at the block indexed last.
LEMMA IndexingResult ==
  ASSUME IInv, NEW t \in latest_indexed_block_number..Len(chain), Indexing(t), UNCHANGED chain
  PROVE  /\ IsEntries(entries')
         /\ latest_indexed_block_number' = t
         /\ View' = OwnersAt(t)
         /\ PreviousLostTheToken'
         /\ NoServedOwnerForgotten'
         /\ served' \in [OclIds -> SUBSET Addresses]
<1> DEFINE l == latest_indexed_block_number
           compressed == CompressEvents(IndexLabnftContract(l + 1, t))
<1>0. /\ Len(chain) \in Nat /\ l \in 0..Len(chain) /\ t \in l..Len(chain) /\ t \in Nat /\ l \in Nat
      /\ IsEntries(entries)
  BY DEF IInv, TypeOK, IsEntries
<1>1. /\ DOMAIN compressed \subseteq OclIds
      /\ \A o \in DOMAIN compressed : /\ compressed[o] = OwnersAt(t)[o]
                                      /\ compressed[o] \in Addresses
      /\ \A o \in OclIds \ DOMAIN compressed : OwnersAt(t)[o] = OwnersAt(l)[o]
  BY <1>0, FetchedBatch DEF IInv
<1>2. /\ entries' = ApplyEvents(entries, IndexLabnftContract(l + 1, t)).entries
      /\ latest_indexed_block_number' = t
      /\ served' = [o \in OclIds |->
                      IF o \in DOMAIN entries' THEN served[o] \cup {entries'[o].current}
                      ELSE served[o]]
  BY DEF Indexing
<1>3. /\ IsEntries(entries')
      /\ DOMAIN entries' = DOMAIN entries \cup DOMAIN compressed
      /\ \A o \in DOMAIN entries' :
           IF o \notin DOMAIN compressed THEN entries'[o] = entries[o]
           ELSE IF o \notin DOMAIN entries THEN entries'[o] = NewProjection(compressed[o])
           ELSE entries'[o] = ApplyTransfer(entries[o], compressed[o]).projection
  BY <1>0, <1>1, <1>2, ApplyEventsEntries
<1> HIDE DEF compressed
<1>4. \A b \in 0..Len(chain) : OwnersAt(b)' = OwnersAt(b)
  BY DEF OwnersAt
<1>5. ASSUME NEW o \in OclIds
      PROVE  /\ View[o] = OwnersAt(l)[o]
             /\ View[o] = IF o \in DOMAIN entries THEN entries[o].current ELSE NoOwner
             /\ served[o] = IF o \in DOMAIN entries
                            THEN entries[o].previous \cup {entries[o].current}
                            ELSE {}
             /\ o \in DOMAIN entries =>
                  /\ entries[o] \in OclOwnershipProjection
                  /\ entries[o].current \in Addresses
                  /\ entries[o].previous \subseteq Addresses
                  /\ entries[o].current \notin entries[o].previous
                  /\ \A a \in entries[o].previous : \E b \in 1..l : OwnersAt(b)[o] = a
  BY <1>0 DEF IInv, CurrentIsOnChainOwner, View, NoServedOwnerForgotten, PreviousLostTheToken,
              IsEntries, OclOwnershipProjection
<1>6. ASSUME NEW o \in DOMAIN entries
      PROVE  \E b \in 1..t : OwnersAt(b)[o] = entries[o].current
  <2>1. o \in OclIds /\ entries[o].current \in Addresses /\ OwnersAt(l)[o] = entries[o].current
    BY <1>0, <1>5 DEF IsEntries
  <2>2. OwnersAt(0)[o] = NoOwner
    BY <2>1 DEF OwnersAt, Unminted
  <2>3. l # 0
    BY <2>1, <2>2, NoOwnerAssumption
  <2> QED BY <1>0, <2>1, <2>3
<1>6a. ASSUME NEW o \in DOMAIN entries
       PROVE  \A a \in entries[o].previous : \E b \in 1..t : OwnersAt(b)[o] = a
  <2>1. 1..l \subseteq 1..t
    BY <1>0
  <2>2. o \in OclIds
    BY <1>0 DEF IsEntries
  <2> QED BY <1>5, <2>1, <2>2
<1>7. ASSUME NEW o \in DOMAIN entries'
      PROVE  /\ entries'[o].current = OwnersAt(t)[o]
             /\ entries'[o].current \notin entries'[o].previous
             /\ entries'[o].current \in Addresses
             /\ \A a \in entries'[o].previous : \E b \in 1..t : OwnersAt(b)[o] = a
             /\ served[o] \cup {entries'[o].current} =
                  entries'[o].previous \cup {entries'[o].current}
  <2>0. o \in OclIds
    BY <1>3 DEF IsEntries
  <2>1. CASE o \notin DOMAIN compressed
    <3>1. o \in DOMAIN entries /\ entries'[o] = entries[o]
      BY <1>3, <2>1
    <3>2. OwnersAt(t)[o] = OwnersAt(l)[o]
      BY <1>1, <2>0, <2>1
    <3> QED BY <1>5, <1>6a, <2>0, <3>1, <3>2
  <2>2. CASE o \in DOMAIN compressed /\ o \notin DOMAIN entries
    <3>1. entries'[o] = [current |-> compressed[o], previous |-> {}]
      BY <1>3, <2>2 DEF NewProjection
    <3>2. served[o] = {}
      BY <1>5, <2>0, <2>2
    <3> QED BY <1>1, <2>2, <3>1, <3>2
  <2>3. CASE o \in DOMAIN compressed /\ o \in DOMAIN entries
    <3> DEFINE applied == ApplyTransfer(entries[o], compressed[o])
    <3>1. entries'[o] = applied.projection
      BY <1>3, <2>3
    <3>2. /\ entries[o] \in OclOwnershipProjection /\ compressed[o] \in Addresses
          /\ entries[o].current \notin entries[o].previous
      BY <1>1, <1>5, <2>0, <2>3
    <3>3. /\ applied.projection.current = compressed[o]
          /\ compressed[o] \notin applied.projection.previous
          /\ applied.projection.previous \cup {compressed[o]} =
               entries[o].previous \cup {entries[o].current, compressed[o]}
      BY <3>2, ApplyTransferResult
    <3> HIDE DEF applied
    <3>4. served[o] = entries[o].previous \cup {entries[o].current}
      BY <1>5, <2>0, <2>3
    <3>5. \A a \in entries'[o].previous : \E b \in 1..t : OwnersAt(b)[o] = a
      <4>1. \A a \in entries'[o].previous : a \in entries[o].previous \/ a = entries[o].current
        BY <3>1, <3>3
      <4> QED BY <1>6, <1>6a, <2>3, <4>1
    <3> QED BY <1>1, <2>3, <3>1, <3>2, <3>3, <3>4, <3>5
  <2> QED BY <2>1, <2>2, <2>3
<1>8. View' = OwnersAt(t)
  <2>1. OwnersAt(t) \in [OclIds -> Addresses \cup {NoOwner}]
    BY <1>0, OwnersAtType DEF IInv, TypeOK
  <2>2. ASSUME NEW o \in OclIds
        PROVE  View'[o] = OwnersAt(t)[o]
    <3>1. CASE o \in DOMAIN entries'
      BY <1>7, <3>1 DEF View
    <3>2. CASE o \notin DOMAIN entries'
      BY <1>1, <1>3, <1>5, <3>2 DEF View
    <3> QED BY <3>1, <3>2
  <2> QED BY <2>1, <2>2 DEF View
<1>9. PreviousLostTheToken'
  BY <1>0, <1>2, <1>4, <1>7 DEF PreviousLostTheToken
<1>10. NoServedOwnerForgotten'
  BY <1>2, <1>3, <1>5, <1>7 DEF NoServedOwnerForgotten
<1>11. served' \in [OclIds -> SUBSET Addresses]
  BY <1>2, <1>7 DEF IInv, TypeOK
<1> QED BY <1>2, <1>3, <1>8, <1>9, <1>10, <1>11

\* The difference an indexing up to block t reports is the net change of the
\* contract's state over the blocks it covered.
LEMMA IndexingDiff ==
  ASSUME IInv, NEW t \in latest_indexed_block_number..Len(chain), Indexing(t), UNCHANGED chain
  PROVE  LET before == OwnersAt(latest_indexed_block_number)
             after  == OwnersAt(t)
         IN  /\ diff' = [o \in {o \in OclIds : before[o] # after[o]} |->
                           [former_owner |-> before[o], current_owner |-> after[o]]]
             /\ DOMAIN diff' \subseteq DOMAIN entries'
             /\ \A o \in DOMAIN diff' : diff'[o] \in OclOwnershipChange
<1> DEFINE l == latest_indexed_block_number
           compressed == CompressEvents(IndexLabnftContract(l + 1, t))
           before == OwnersAt(l)
           after == OwnersAt(t)
           reported == {o \in DOMAIN compressed :
                          o \in DOMAIN entries => entries[o].current # compressed[o]}
           moved == {o \in OclIds : before[o] # after[o]}
<1>0. /\ l \in 0..Len(chain) /\ t \in l..Len(chain)
      /\ IsEntries(entries)
      /\ before \in [OclIds -> Addresses \cup {NoOwner}]
      /\ after \in [OclIds -> Addresses \cup {NoOwner}]
  <2>1. l \in 0..Len(chain) /\ t \in 0..Len(chain) /\ t \in l..Len(chain)
    BY DEF IInv, TypeOK
  <2> QED BY <2>1, OwnersAtType DEF IInv, TypeOK, IsEntries
<1>1. /\ DOMAIN compressed \subseteq OclIds
      /\ \A o \in DOMAIN compressed : /\ compressed[o] = after[o]
                                      /\ compressed[o] \in Addresses
      /\ \A o \in OclIds \ DOMAIN compressed : after[o] = before[o]
  BY <1>0, FetchedBatch DEF IInv
<1>2. diff' = [o \in reported |->
                 [former_owner  |-> IF o \in DOMAIN entries THEN entries[o].current ELSE NoOwner,
                  current_owner |-> compressed[o]]]
  <2>1. diff' = ApplyEvents(entries, IndexLabnftContract(l + 1, t)).diff
    BY DEF Indexing
  <2> QED BY <1>0, <1>1, <2>1, ApplyEventsDiff
<1>3. DOMAIN entries' = DOMAIN entries \cup DOMAIN compressed
  <2>1. entries' = ApplyEvents(entries, IndexLabnftContract(l + 1, t)).entries
    BY DEF Indexing
  <2> QED BY <1>0, <1>1, <2>1, ApplyEventsEntries
<1> HIDE DEF compressed, before, after
<1>4. \A o \in OclIds : before[o] = IF o \in DOMAIN entries THEN entries[o].current ELSE NoOwner
  BY DEF IInv, CurrentIsOnChainOwner, View, before
<1>5. reported = moved
  <2>1. ASSUME NEW o \in DOMAIN compressed
        PROVE  (o \in DOMAIN entries => entries[o].current # compressed[o]) <=> before[o] # after[o]
    BY <1>1, <1>4, NoOwnerAssumption
  <2> QED BY <1>1, <2>1
<1>6. \A o \in moved :
        [former_owner  |-> IF o \in DOMAIN entries THEN entries[o].current ELSE NoOwner,
         current_owner |-> compressed[o]]
          = [former_owner |-> before[o], current_owner |-> after[o]]
  BY <1>1, <1>4, <1>5
<1>7. \A o \in moved :
        [former_owner |-> before[o], current_owner |-> after[o]] \in OclOwnershipChange
  BY <1>0, <1>1, <1>5 DEF OclOwnershipChange
<1>8. diff' = [o \in moved |-> [former_owner |-> before[o], current_owner |-> after[o]]]
  BY <1>2, <1>5, <1>6
<1>9. DOMAIN diff' \subseteq DOMAIN entries'
  BY <1>1, <1>3, <1>5, <1>8
<1> QED BY <1>7, <1>8, <1>9 DEF before, after

-----------------------------------------------------------------------------
(* The invariant. *)

\* A process that has indexed nothing knows nothing.
LEMMA InitEstablishesIInv == Init => IInv
<1> SUFFICES ASSUME Init PROVE IInv
  OBVIOUS
<1>1. chain = <<>> /\ Len(chain) = 0 /\ finalized = 0
  BY DEF Init
<1>2. TypeOK
  BY <1>1, BoundsAssumption DEF Init, TypeOK, Nothing, Phases
<1>3. ChainInv
  BY <1>1 DEF ChainInv, TransfersGoToAddresses, LastTransferDecides
<1>4. CurrentIsOnChainOwner
  BY DEF Init, CurrentIsOnChainOwner, View, OwnersAt, Unminted, Nothing
<1> QED BY <1>2, <1>3, <1>4
        DEF Init, IInv, StartsFromBirth, PreviousLostTheToken, NoServedOwnerForgotten, Nothing

\* Any block the contract can produce keeps the invariant: the bridge looks only
\* at blocks that are there already.
LEMMA MiningKeepsIInv ==
  ASSUME IInv, NEW block \in Block, chain' = Append(chain, block),
         UNCHANGED <<finalized, processVars, crashes>>,
         \A o \in OclIds : block.owners[o] = IF block.ocl_id = o THEN block.to
                                             ELSE OwnersAt(Len(chain))[o],
         block.ocl_id \in OclIds => block.to \in Addresses
  PROVE  IInv'
<1>1. /\ chain' \in Seq(Block)
      /\ Len(chain') = Len(chain) + 1
      /\ \A b \in 0..Len(chain) : OwnersAt(b)' = OwnersAt(b)
  BY MiningKeepsHistory DEF IInv, TypeOK
<1>2. ChainInv'
  BY MiningKeepsChainInv DEF IInv, TypeOK
<1>3. TypeOK'
  BY <1>1 DEF IInv, TypeOK, processVars
<1>4. latest_indexed_block_number \in 0..Len(chain)
  BY DEF IInv, TypeOK
<1>5. CurrentIsOnChainOwner'
  BY <1>1, <1>4 DEF IInv, CurrentIsOnChainOwner, View, processVars
<1>6. PreviousLostTheToken'
  BY <1>1, <1>4 DEF IInv, TypeOK, PreviousLostTheToken, processVars
<1> QED BY <1>2, <1>3, <1>5, <1>6
        DEF IInv, StartsFromBirth, NoServedOwnerForgotten, processVars

\* A transfer mined ahead of the bridge does not disturb what it knows.
LEMMA MineTransferKeepsIInv == IInv /\ MineTransfer => IInv'
<1> SUFFICES ASSUME IInv, MineTransfer PROVE IInv'
  OBVIOUS
<1>1. PICK o \in OclIds, a \in Addresses :
        chain' = Append(chain, [ocl_id |-> o, to |-> a,
                                owners |-> [OwnersAt(Len(chain)) EXCEPT ![o] = a]])
  BY DEF MineTransfer
<1>2. OwnersAt(Len(chain)) \in [OclIds -> Addresses \cup {NoOwner}]
  BY OwnersAtType DEF IInv, TypeOK
<1> DEFINE block == [ocl_id |-> o, to |-> a,
                     owners |-> [OwnersAt(Len(chain)) EXCEPT ![o] = a]]
<1>3. /\ block \in Block
      /\ block.to \in Addresses
      /\ \A p \in OclIds : block.owners[p] = IF block.ocl_id = p THEN block.to
                                              ELSE OwnersAt(Len(chain))[p]
  BY <1>2 DEF Block
<1> HIDE DEF block
<1> QED BY <1>1, <1>3, MiningKeepsIInv DEF MineTransfer, block

\* Neither does a block without a transfer.
LEMMA MineOtherKeepsIInv == IInv /\ MineOther => IInv'
<1> SUFFICES ASSUME IInv, MineOther PROVE IInv'
  OBVIOUS
<1> DEFINE block == [ocl_id |-> NoOcl, to |-> NoOwner, owners |-> OwnersAt(Len(chain))]
<1>1. OwnersAt(Len(chain)) \in [OclIds -> Addresses \cup {NoOwner}]
  BY OwnersAtType DEF IInv, TypeOK
<1>2. /\ block \in Block
      /\ block.ocl_id \notin OclIds
      /\ \A p \in OclIds : block.owners[p] = IF block.ocl_id = p THEN block.to
                                              ELSE OwnersAt(Len(chain))[p]
  BY <1>1, NoOclAssumption DEF Block
<1>3. chain' = Append(chain, block) /\ UNCHANGED <<finalized, processVars, crashes>>
  BY DEF MineOther
<1> HIDE DEF block
<1> QED BY <1>2, <1>3, MiningKeepsIInv

\* More final blocks only widen what the next iteration may read.
LEMMA FinalizeKeepsIInv == IInv /\ Finalize => IInv'
<1> SUFFICES ASSUME IInv, Finalize PROVE IInv'
  OBVIOUS
<1>1. /\ UNCHANGED <<chain, phase, target, latest_indexed_block_number, entries, diff, served,
                     crashes>>
      /\ finalized' \in (finalized + 1)..Len(chain)
  BY DEF Finalize, processVars
<1>2. TypeOK'
  BY <1>1 DEF IInv, TypeOK
<1>3. ChainInv'
  BY <1>1, ChainInvFrame DEF IInv
<1>4. (\A b : OwnersAt(b)' = OwnersAt(b)) /\ View' = View
  BY <1>1 DEF OwnersAt, View
<1>5. CurrentIsOnChainOwner'
  BY <1>1, <1>4 DEF IInv, CurrentIsOnChainOwner
<1>6. PreviousLostTheToken'
  BY <1>1, <1>4 DEF IInv, PreviousLostTheToken
<1> QED BY <1>1, <1>2, <1>3, <1>5, <1>6 DEF IInv, StartsFromBirth, NoServedOwnerForgotten

\* The steps that only move the main loop on.
LEMMA ControlKeepsIInv == IInv /\ (StartInit \/ StartUpdate \/ SkipUpdate) => IInv'
<1> SUFFICES ASSUME IInv, StartInit \/ StartUpdate \/ SkipUpdate PROVE IInv'
  OBVIOUS
<1>1. UNCHANGED <<chain, finalized, latest_indexed_block_number, entries, diff, served, crashes>>
  BY DEF StartInit, StartUpdate, SkipUpdate, chainVars
<1>2. TypeOK'
  BY <1>1 DEF IInv, TypeOK, Phases, StartInit, StartUpdate, SkipUpdate
<1>3. ChainInv'
  BY <1>1, ChainInvFrame DEF IInv
<1>4. StartsFromBirth'
  BY <1>1 DEF IInv, TypeOK, StartsFromBirth, StartInit, StartUpdate, SkipUpdate
<1> QED BY <1>1, <1>2, <1>3, <1>4
        DEF IInv, CurrentIsOnChainOwner, View, PreviousLostTheToken, NoServedOwnerForgotten, OwnersAt

\* An iteration that indexes, the initial one or a later one.
LEMMA IndexingKeepsIInv == IInv /\ (InitState \/ Update) => IInv'
<1> SUFFICES ASSUME IInv, InitState \/ Update PROVE IInv'
  OBVIOUS
<1>1. /\ Indexing(target) /\ phase' = "sleeping"
      /\ UNCHANGED <<chain, finalized, target, crashes>>
  BY DEF InitState, Update, chainVars
<1>2. target \in latest_indexed_block_number..Len(chain)
  BY DEF IInv, TypeOK
<1>3. /\ IsEntries(entries')
      /\ latest_indexed_block_number' = target
      /\ View' = OwnersAt(target)
      /\ PreviousLostTheToken'
      /\ NoServedOwnerForgotten'
      /\ served' \in [OclIds -> SUBSET Addresses]
  BY <1>1, <1>2, IndexingResult
<1>4. /\ DOMAIN diff' \subseteq DOMAIN entries'
      /\ \A o \in DOMAIN diff' : diff'[o] \in OclOwnershipChange
  BY <1>1, <1>2, IndexingDiff
<1>5. TypeOK'
  BY <1>1, <1>3, <1>4 DEF IInv, TypeOK, Phases, IsEntries
<1>6. ChainInv'
  BY <1>1, ChainInvFrame DEF IInv
<1>7. CurrentIsOnChainOwner'
  BY <1>1, <1>3 DEF CurrentIsOnChainOwner, OwnersAt
<1> QED BY <1>1, <1>3, <1>5, <1>6, <1>7 DEF IInv, StartsFromBirth

\* Losing the process loses everything but the chain.
LEMMA CrashKeepsIInv == IInv /\ Crash => IInv'
<1> SUFFICES ASSUME IInv, Crash PROVE IInv'
  OBVIOUS
<1>1. /\ UNCHANGED <<chain, finalized>> /\ phase' = "down" /\ target' = 0
      /\ latest_indexed_block_number' = 0 /\ entries' = Nothing /\ diff' = Nothing
      /\ served' = [o \in OclIds |-> {}] /\ crashes' = crashes + 1 /\ crashes < MaxCrashes
  BY DEF Crash, chainVars
<1>2. TypeOK'
  BY <1>1, BoundsAssumption DEF IInv, TypeOK, Phases, Nothing
<1>3. ChainInv'
  BY <1>1, ChainInvFrame DEF IInv
<1>4. CurrentIsOnChainOwner'
  BY <1>1 DEF CurrentIsOnChainOwner, View, OwnersAt, Unminted, Nothing
<1> QED BY <1>1, <1>2, <1>3, <1>4
        DEF IInv, StartsFromBirth, PreviousLostTheToken, NoServedOwnerForgotten, Nothing

\* A step of somebody else changes nothing.
LEMMA StutterKeepsIInv == IInv /\ UNCHANGED vars => IInv'
<1> SUFFICES ASSUME IInv, UNCHANGED vars PROVE IInv'
  OBVIOUS
<1>1. UNCHANGED <<chain, finalized, phase, target, latest_indexed_block_number, entries, diff,
                  served, crashes>>
  BY DEF vars, chainVars, processVars
<1>2. TypeOK'
  BY <1>1 DEF IInv, TypeOK
<1>3. ChainInv'
  BY <1>1, ChainInvFrame DEF IInv
<1> QED BY <1>1, <1>2, <1>3
        DEF IInv, StartsFromBirth, CurrentIsOnChainOwner, View, PreviousLostTheToken,
            NoServedOwnerForgotten, OwnersAt

\* Every step keeps the invariant: one lemma for each kind of action.
LEMMA NextKeepsIInv == IInv /\ [Next]_vars => IInv'
BY MineTransferKeepsIInv, MineOtherKeepsIInv, FinalizeKeepsIInv, ControlKeepsIInv,
   IndexingKeepsIInv, CrashKeepsIInv, StutterKeepsIInv DEF Next, Chain, Program

\* The strengthened invariant holds in every reachable state of the indexer.
THEOREM IInvInvariant == Spec => []IInv
BY InitEstablishesIInv, NextKeepsIInv, PTL DEF Spec

\* Every variable keeps the shape the program gives it.
THEOREM TypeCorrect == Spec => []TypeOK
<1>1. IInv => TypeOK
  BY DEF IInv
<1> QED BY <1>1, IInvInvariant, PTL

\* The bridge's idea of who owns what is the contract's state at the block it
\* indexed last, over every run of transfers, iterations and restarts.
THEOREM ProjectionIsFaithful == Spec => []CurrentIsOnChainOwner
<1>1. IInv => CurrentIsOnChainOwner
  BY DEF IInv
<1> QED BY <1>1, IInvInvariant, PTL

\* Only addresses that owned an OCL on chain and lost it are listed as previous.
THEOREM PreviousIsJustified == Spec => []PreviousLostTheToken
<1>1. IInv => PreviousLostTheToken
  BY DEF IInv
<1> QED BY <1>1, IInvInvariant, PTL

\* No owner the running process acted for drops out of current and previous.
THEOREM ServedOwnersAreKept == Spec => []NoServedOwnerForgotten
<1>1. IInv => NoServedOwnerForgotten
  BY DEF IInv
<1> QED BY <1>1, IInvInvariant, PTL

\* What an indexing reports is the net change of the contract's state.
THEOREM DiffIsFaithful == Spec => DiffIsNetChange
<1>1. IInv /\ [Next]_vars =>
        [(InitState \/ Update) =>
            LET before == OwnersAt(latest_indexed_block_number)
                after  == OwnersAt(target)
            IN  diff' = [o \in {o \in OclIds : before[o] # after[o]} |->
                           [former_owner |-> before[o], current_owner |-> after[o]]]]_vars
  <2> SUFFICES ASSUME IInv, InitState \/ Update
               PROVE  LET before == OwnersAt(latest_indexed_block_number)
                          after  == OwnersAt(target)
                      IN  diff' = [o \in {o \in OclIds : before[o] # after[o]} |->
                                     [former_owner |-> before[o], current_owner |-> after[o]]]
    OBVIOUS
  <2>1. Indexing(target) /\ UNCHANGED chain
    BY DEF InitState, Update, chainVars
  <2>2. target \in latest_indexed_block_number..Len(chain)
    BY DEF IInv, TypeOK
  <2> QED BY <2>1, <2>2, IndexingDiff
<1> QED BY <1>1, IInvInvariant, PTL DEF Spec, DiffIsNetChange

-----------------------------------------------------------------------------
(* The abstract mirror. *)

\* The states of the contract the mirror sees, one for each block.
MirrorLedger == [b \in 1..Len(chain) |-> chain[b].owners]

\* A mined block is a new state of the mirrored ledger.
LEMMA MiningGrowsLedger ==
  ASSUME chain \in Seq(Block), NEW block \in Block, chain' = Append(chain, block)
  PROVE  /\ block.owners \in [OclIds -> Addresses \cup {NoOwner}]
         /\ MirrorLedger' = Append(MirrorLedger, block.owners)
<1>1. /\ Len(chain') = Len(chain) + 1
      /\ chain'[Len(chain) + 1] = block
      /\ \A b \in 1..Len(chain) : chain'[b] = chain[b]
      /\ Len(chain) \in Nat
  OBVIOUS
<1>2. Append(MirrorLedger, block.owners)
        = [b \in 1..(Len(chain) + 1) |-> IF b = Len(chain) + 1 THEN block.owners
                                         ELSE MirrorLedger[b]]
  <2>1. Len(MirrorLedger) = Len(chain)
    BY <1>1 DEF MirrorLedger
  <2> QED BY <1>1, <2>1 DEF MirrorLedger
<1>3. MirrorLedger' = [b \in 1..(Len(chain) + 1) |-> chain'[b].owners]
  BY <1>1 DEF MirrorLedger
<1>4. \A b \in 1..(Len(chain) + 1) :
        chain'[b].owners = IF b = Len(chain) + 1 THEN block.owners ELSE MirrorLedger[b]
  BY <1>1 DEF MirrorLedger
<1> QED BY <1>2, <1>3, <1>4 DEF Block

\* The mirror's ledger after any block is the contract's state after it.
LEMMA MirrorSeesContract ==
  ASSUME NEW b \in 0..Len(chain)
  PROVE  Mirror!After(b) = OwnersAt(b)
BY DEF Mirror!After, Mirror!Genesis, OwnersAt, Unminted

\* The indexer starts where the abstract mirror starts.
LEMMA InitIsMirrorInit == Init => Mirror!Init
<1> SUFFICES ASSUME Init PROVE Mirror!Init
  OBVIOUS
<1>1. View = [t \in OclIds |-> NoOwner]
  BY DEF Init, View, Nothing
<1>2. [b \in 1..Len(chain) |-> chain[b].owners] = <<>>
  BY DEF Init
<1> QED BY <1>1, <1>2 DEF Init, Mirror!Init, Mirror!Genesis

\* Every step of the indexer is a step of the mirror, or changes nothing it shows.
LEMMA NextIsMirrorNext == IInv /\ [Next]_vars => [Mirror!Next]_(Mirror!mirrorVars)
<1> SUFFICES ASSUME IInv, [Next]_vars
             PROVE  Mirror!Next \/ UNCHANGED Mirror!mirrorVars
  OBVIOUS
<1> USE DEF Mirror!mirrorVars
<1>1. ASSUME NEW block \in Block, chain' = Append(chain, block),
             UNCHANGED <<finalized, processVars, crashes>>
      PROVE  Mirror!Grow
  <2>1. /\ block.owners \in [OclIds -> Addresses \cup {NoOwner}]
        /\ MirrorLedger' = Append(MirrorLedger, block.owners)
    BY <1>1, MiningGrowsLedger DEF IInv, TypeOK
  <2>2. UNCHANGED <<finalized, View, latest_indexed_block_number>>
    BY <1>1 DEF processVars, View
  <2> QED BY <2>1, <2>2 DEF Mirror!Grow, Mirror!State, MirrorLedger
<1>2. CASE MineTransfer
  <2>1. PICK o \in OclIds, a \in Addresses :
          chain' = Append(chain, [ocl_id |-> o, to |-> a,
                                  owners |-> [OwnersAt(Len(chain)) EXCEPT ![o] = a]])
    BY <1>2 DEF MineTransfer
  <2>2. OwnersAt(Len(chain)) \in [OclIds -> Addresses \cup {NoOwner}]
    BY OwnersAtType DEF IInv, TypeOK
  <2>3. [ocl_id |-> o, to |-> a, owners |-> [OwnersAt(Len(chain)) EXCEPT ![o] = a]] \in Block
    BY <2>2 DEF Block
  <2> QED BY <1>1, <1>2, <2>1, <2>3 DEF MineTransfer, Mirror!Next
<1>3. CASE MineOther
  <2>1. OwnersAt(Len(chain)) \in [OclIds -> Addresses \cup {NoOwner}]
    BY OwnersAtType DEF IInv, TypeOK
  <2>2. [ocl_id |-> NoOcl, to |-> NoOwner, owners |-> OwnersAt(Len(chain))] \in Block
    BY <2>1 DEF Block
  <2> QED BY <1>1, <1>3, <2>2 DEF MineOther, Mirror!Next
<1>4. CASE Finalize
  <2>1. UNCHANGED <<chain, View, latest_indexed_block_number>>
    BY <1>4 DEF Finalize, processVars, View
  <2> QED BY <1>4, <2>1 DEF Finalize, Mirror!Settle, Mirror!Next, IInv, TypeOK
<1>5. CASE InitState \/ Update
  <2>1. Indexing(target) /\ UNCHANGED <<chain, finalized>>
    BY <1>5 DEF InitState, Update, chainVars
  <2>2. /\ target \in latest_indexed_block_number..Len(chain)
        /\ target \in (latest_indexed_block_number + 1)..finalized
        /\ target \in 0..Len(chain)
    BY <1>5 DEF IInv, TypeOK, StartsFromBirth, InitState, Update, NothingToIndex
  <2>3. latest_indexed_block_number' = target /\ View' = OwnersAt(target)
    BY <2>1, <2>2, IndexingResult
  <2>4. Mirror!After(target) = OwnersAt(target)
    BY <2>2, MirrorSeesContract
  <2> QED BY <2>1, <2>2, <2>3, <2>4 DEF Mirror!Sync, Mirror!Next
<1>6. CASE StartInit \/ StartUpdate \/ SkipUpdate \/ UNCHANGED vars
  <2>1. UNCHANGED <<chain, finalized, entries, latest_indexed_block_number>>
    BY <1>6 DEF StartInit, StartUpdate, SkipUpdate, chainVars, vars, processVars
  <2> QED BY <2>1 DEF View
<1>7. CASE Crash
  <2>1. /\ UNCHANGED <<chain, finalized>>
        /\ latest_indexed_block_number' = 0
        /\ View' = [t \in OclIds |-> NoOwner]
    BY <1>7 DEF Crash, chainVars, View, Nothing
  <2> QED BY <2>1 DEF Mirror!Restart, Mirror!Genesis, Mirror!Next
<1> QED BY <1>2, <1>3, <1>4, <1>5, <1>6, <1>7 DEF Next, Chain, Program

\* The indexer implements the abstract mirror: its view is the contract's state at
\* one final block, and moves forward until the process dies.
THEOREM IndexerImplementsMirror == Spec => ImplementsMirror
BY InitIsMirrorInit, NextIsMirrorNext, IInvInvariant, PTL
   DEF Spec, ImplementsMirror, Mirror!Spec
=============================================================================
