------------------------ MODULE AccessGrantingProofs ------------------------
(***************************************************************************)
(* Proofs about the bridge as a whole: the shape of its state, and that    *)
(* whatever a step gives goes to an owner who has an account.              *)
(***************************************************************************)
EXTENDS AccessGranting, OclOwnershipProofs, ProjectLoadingProofs

-----------------------------------------------------------------------------
(* What indexing learns. *)

\* An indexing knows of every OCL that has an owner, and knows that owner; whom it knew
\* as an owner before is among those it asks about.
LEMMA IndexedEntriesResult ==
  ASSUME TypeOK
  PROVE  /\ DOMAIN IndexedEntries = Owned
         /\ \A o \in Owned : /\ IndexedEntries[o] \in OclOwnershipProjection
                             /\ IndexedEntries[o].current = owner[o]
         /\ \A o \in Owned \cap DOMAIN entries :
              {entries[o].current} \cup entries[o].previous
                \subseteq {IndexedEntries[o].current} \cup IndexedEntries[o].previous
<1>1. DOMAIN IndexedEntries = Owned
  BY DEF IndexedEntries
<1>2. \A o \in Owned : owner[o] \in Addresses
  BY DEF TypeOK, Owned
<1>3. ASSUME NEW o \in Owned, o \in DOMAIN entries
      PROVE  /\ IndexedEntries[o] \in OclOwnershipProjection
             /\ IndexedEntries[o].current = owner[o]
             /\ {entries[o].current} \cup entries[o].previous
                  \subseteq {IndexedEntries[o].current} \cup IndexedEntries[o].previous
  <2>1. entries[o] \in OclOwnershipProjection
    BY <1>3 DEF TypeOK
  <2>2. IndexedEntries[o] = ApplyTransfer(entries[o], owner[o]).projection
    BY <1>3 DEF IndexedEntries
  <2>3. /\ ApplyTransfer(entries[o], owner[o]).projection \in OclOwnershipProjection
        /\ ApplyTransfer(entries[o], owner[o]).projection.current = owner[o]
    BY <1>2, <2>1, ApplyTransferResult
  <2>4. {entries[o].current} \cup entries[o].previous
          \subseteq {owner[o]} \cup ApplyTransfer(entries[o], owner[o]).projection.previous
    BY DEF ApplyTransfer
  <2> QED BY <2>2, <2>3, <2>4
<1>4. ASSUME NEW o \in Owned, o \notin DOMAIN entries
      PROVE  IndexedEntries[o] \in OclOwnershipProjection /\ IndexedEntries[o].current = owner[o]
  BY <1>2, <1>4 DEF IndexedEntries, NewProjection, OclOwnershipProjection
<1> QED BY <1>1, <1>3, <1>4

\* The values of the wallet map.
IsWallets(wallets) ==
  /\ DOMAIN wallets \subseteq Addresses
  /\ \A a \in DOMAIN wallets :
       IF a \in Safes THEN wallets[a] \in MW!MultisigState ELSE wallets[a] = Regular

SafeLog == [safe : Safes, kind : {"added", "removed"}, person : People]

LEMMA SafeLogType ==
  ASSUME TypeOK
  PROVE  \A i \in 1..ChainHead : safe_logs[i] \in SafeLog
<1>1. safe_logs \in Seq(SafeLog)
  BY DEF TypeOK, SafeLog
<1> QED BY <1>1 DEF ChainHead

LEMMA IndexedWalletsType ==
  ASSUME TypeOK
  PROVE  /\ DOMAIN IndexedWallets = DOMAIN multisig
         /\ IsWallets(IndexedWallets)
<1>1. IsWallets(multisig)
  BY DEF TypeOK, IsWallets
<1>2. DOMAIN IndexedWallets = DOMAIN multisig
  BY DEF IndexedWallets
<1>3. ASSUME NEW s \in ChangedMultisigs
      PROVE  s \in Safes /\ Replayed(s) \in MW!MultisigState
  <2>1. final_logs \in 0..ChainHead /\ indexed_logs \in Nat /\ ChainHead \in Nat
    BY DEF TypeOK, ChainHead
  <2>2. PICK i \in NewLogs : safe_logs[i].safe = s
    BY DEF ChangedMultisigs
  <2>3. s \in Safes
    BY <2>1, <2>2, SafeLogType DEF NewLogs, SafeLog
  <2>4. multisig[s] \in MW!MultisigState
    BY <1>1, <2>3 DEF ChangedMultisigs, IsWallets
  <2> QED BY <2>3, <2>4 DEF Replayed, MW!MultisigState
<1>4. \A a \in DOMAIN multisig :
        IndexedWallets[a] = IF a \in ChangedMultisigs THEN Replayed(a) ELSE multisig[a]
  BY DEF IndexedWallets
<1> QED BY <1>1, <1>2, <1>3, <1>4 DEF IsWallets

LEMMA OwnerChangesType ==
  ASSUME TypeOK
  PROVE  /\ DOMAIN OwnerChanges \subseteq Owned
         /\ \A o \in DOMAIN OwnerChanges :
              /\ OwnerChanges[o] \in OclChange
              /\ OwnerChanges[o].owner_changes \in OclOwnershipChange
              /\ OwnerChanges[o].owner_changes.current_owner = owner[o]
              /\ OwnerChanges[o].changed_files = {}
<1>1. DOMAIN OwnerChanges = Transferred \cup OwnedByChanged
  BY DEF OwnerChanges
<1>2. \A o \in Owned : owner[o] \in Addresses /\ FormerOwner(o) \in Addresses \cup {NoOwner}
  BY DEF TypeOK, Owned, FormerOwner, OclOwnershipProjection
<1>3. Transferred \cup OwnedByChanged \subseteq Owned
  BY DEF Transferred, OwnedByChanged
<1>4. ASSUME NEW o \in Transferred \cup OwnedByChanged
      PROVE  OwnerChanges[o] =
               [owner_changes |-> [former_owner  |-> IF o \in Transferred THEN FormerOwner(o)
                                                     ELSE NoOwner,
                                   current_owner |-> owner[o]],
                changed_files |-> {}]
  BY DEF OwnerChanges
<1>5. {} \in ChangedFiles
  BY DEF ChangedFiles
<1>6. ASSUME NEW o \in Transferred \cup OwnedByChanged
      PROVE  /\ OwnerChanges[o] \in OclChange
             /\ OwnerChanges[o].owner_changes \in OclOwnershipChange
             /\ OwnerChanges[o].owner_changes.current_owner = owner[o]
             /\ OwnerChanges[o].changed_files = {}
  <2> DEFINE former == IF o \in Transferred THEN FormerOwner(o) ELSE NoOwner
  <2>1. former \in Addresses \cup {NoOwner} /\ owner[o] \in Addresses
    BY <1>2, <1>3
  <2>2. OwnerChanges[o] = [owner_changes |-> [former_owner |-> former, current_owner |-> owner[o]],
                           changed_files |-> {}]
    BY <1>4
  <2> HIDE DEF former
  <2>3. [former_owner |-> former, current_owner |-> owner[o]] \in OclOwnershipChange
    BY <2>1 DEF OclOwnershipChange
  <2> QED BY <1>5, <2>2, <2>3 DEF OclChange
<1> QED BY <1>1, <1>3, <1>6

-----------------------------------------------------------------------------
(* What a load reads. *)

\* Reading starts at a row, and a known project is read on from where it was.
LEMMA ReadFromResult ==
  ASSUME TypeOK, NEW o \in OclIds, o \in KnownProjects \/ NewRowsOf(o) # {}
  PROVE  /\ ReadFrom(o) \in Nat
         /\ ReadFrom(o) >= 1
         /\ \/ ReadFrom(o) = 1
            \/ /\ o \in KnownProjects
               /\ ReadFrom(o) = off_chain_ocl_project_map[o].latest_data_room_offset + 1
<1>1. o \in KnownProjects => off_chain_ocl_project_map[o].latest_data_room_offset \in Nat
  BY DEF TypeOK, KnownProjects
<1> QED BY <1>1 DEF ReadFrom

LEMMA FirstNewRowType ==
  ASSUME TypeOK, NEW o, NewRowsOf(o) # {}
  PROVE  projects[FirstNewRow(o)].op \in ProjectOps
<1>1. Len(projects) \in Nat /\ molecule_projects_dataset_offset \in Nat
  BY DEF TypeOK
<1>2. NewRowsOf(o) \in SUBSET (1..Len(projects))
  BY <1>1 DEF NewRowsOf, NewRows
<1>3. NewRowsOf(o) \in SUBSET Nat
  BY <1>1, <1>2
<1>4. FirstNewRow(o) \in NewRowsOf(o)
  BY <1>3, LeastNumber DEF FirstNewRow
<1>5. projects \in Seq([op : ProjectOps, ocl_id : OclIds])
  BY DEF TypeOK
<1>6. FirstNewRow(o) \in 1..Len(projects)
  BY <1>2, <1>4
<1>7. \A S : \A s \in Seq(S) : \A i \in 1..Len(s) : s[i] \in S
  OBVIOUS
<1>8. projects[FirstNewRow(o)] \in [op : ProjectOps, ocl_id : OclIds]
  BY <1>5, <1>6, <1>7, Zenon
<1> QED BY <1>8

Read(o) == VersionedFilesEntries(rooms[o], ReadFrom(o))

LEMMA ReadType ==
  ASSUME TypeOK, NEW o \in OclIds
  PROVE  /\ IsRead(Read(o))
         /\ Read(o).latest_data_room_offset = Len(rooms[o])
         /\ levels[o] \in LevelMaps
         /\ rooms[o] \in Rows
         /\ Len(rooms[o]) \in Nat
<1>1. rooms[o] \in Rows /\ levels[o] \in LevelMaps
  BY DEF TypeOK, LevelMaps
<1>2. Len(rooms[o]) \in Nat
  BY <1>1 DEF Rows
<1>3. Read(o) = [latest_data_room_offset |-> Len(rooms[o]),
                 added_entities |-> AddedEntities(rooms[o], ReadFrom(o)),
                 removed_entities |-> RemovedEntities(rooms[o], ReadFrom(o))]
  BY DEF Read, VersionedFilesEntries
<1> QED BY <1>1, <1>2, <1>3, EntitiesType DEF IsRead

\* A project that a load has rows of: its data room has been read to the end, and what
\* was read has been handed on.
LEMMA ProcessedResult ==
  ASSUME TypeOK, NEW o \in Existing \cup NewProjects
  PROVE  /\ o \in DOMAIN entries
         /\ Processed(o).project \in Projections
         /\ Processed(o).changes \in ChangedFiles
         /\ Processed(o).project.latest_data_room_offset = Len(rooms[o])
         /\ Len(rooms[o]) >= 1
         /\ IsHandedOn(Read(o), Processed(o).changes)
         /\ Read(o).removed_entities \subseteq Processed(o).project.removed_files_map
         /\ o \in KnownProjects =>
              off_chain_ocl_project_map[o].removed_files_map
                \subseteq Processed(o).project.removed_files_map
<1>1. CASE o \in Existing
  <2>1. o \in KnownProjects /\ o \in OclIds /\ o \in DOMAIN entries
           /\ off_chain_ocl_project_map[o] \in Projections
    BY <1>1 DEF Existing, TypeOK, KnownProjects
  <2>2. Processed(o) = ProcessExisting(off_chain_ocl_project_map[o], Read(o), levels[o])
    BY <1>1 DEF Processed, Read
  <2>3. Processed(o).project.latest_data_room_offset = Len(rooms[o])
    BY <2>1, <2>2, ReadType DEF ProcessExisting
  <2>4. Len(rooms[o]) >= 1
    BY <1>1, <2>1, ReadFromResult, ReadType DEF Existing
  <2>5. Processed(o).project \in Projections /\ Processed(o).changes \in ChangedFiles
    BY <2>1, <2>2, ReadType, ProcessExistingType
  <2>6. /\ IsHandedOn(Read(o), Processed(o).changes)
        /\ Read(o).removed_entities \cup off_chain_ocl_project_map[o].removed_files_map
             \subseteq Processed(o).project.removed_files_map
    BY <2>2, ProcessExistingHandsOn
  <2> QED BY <2>1, <2>3, <2>4, <2>5, <2>6
<1>2. CASE o \notin Existing
  <2>1. o \in NewProjects /\ o \in OclIds /\ o \in DOMAIN entries /\ o \notin KnownProjects
           /\ NewRowsOf(o) # {} /\ rooms[o] # <<>>
    BY <1>2 DEF NewProjects, TypeOK, KnownProjects
  <2>2. Processed(o) = ProcessNew(projects[FirstNewRow(o)].op, Read(o), levels[o])
    BY <1>2 DEF Processed, Read
  <2>3. Processed(o).project.latest_data_room_offset = Len(rooms[o])
    BY <2>1, <2>2, ReadType DEF ProcessNew
  <2>4. Len(rooms[o]) >= 1
    BY <2>1, ReadType DEF Rows
  <2>5. Processed(o).project \in Projections /\ Processed(o).changes \in ChangedFiles
    BY <2>1, <2>2, ReadType, FirstNewRowType, ProcessNewType
  <2>6. /\ IsHandedOn(Read(o), Processed(o).changes)
        /\ Read(o).removed_entities \subseteq Processed(o).project.removed_files_map
    BY <2>2, ProcessNewHandsOn
  <2> QED BY <2>1, <2>3, <2>4, <2>5, <2>6
<1> QED BY <1>1, <1>2

LEMMA LoadedProjectsResult ==
  ASSUME TypeOK
  PROVE  /\ DOMAIN LoadedProjects = KnownProjects \cup NewProjects
         /\ Existing \subseteq KnownProjects
         /\ DOMAIN LoadedProjects \subseteq DOMAIN entries
         /\ \A o \in Existing \cup NewProjects : LoadedProjects[o] = Processed(o).project
         /\ \A o \in KnownProjects \ Existing :
              o \notin NewProjects /\ LoadedProjects[o] = off_chain_ocl_project_map[o]
         /\ \A o \in DOMAIN LoadedProjects :
              /\ LoadedProjects[o] \in Projections
              /\ LoadedProjects[o].latest_data_room_offset \in 1..Len(rooms[o])
<1>1. DOMAIN LoadedProjects = KnownProjects \cup NewProjects
  BY DEF LoadedProjects, KnownProjects
<1>2. Existing \subseteq KnownProjects
  BY DEF Existing, KnownProjects
<1>3. NewProjects \subseteq DOMAIN entries \ KnownProjects /\ KnownProjects \subseteq DOMAIN entries
         /\ DOMAIN entries \subseteq OclIds
  BY DEF NewProjects, KnownProjects, TypeOK
<1>4. \A o \in Existing \cup NewProjects : LoadedProjects[o] = Processed(o).project
  BY <1>1, <1>2 DEF LoadedProjects, KnownProjects
<1>5. \A o \in KnownProjects \ Existing :
        o \notin NewProjects /\ LoadedProjects[o] = off_chain_ocl_project_map[o]
  BY <1>1, <1>3 DEF LoadedProjects, KnownProjects
<1>6. \A o \in KnownProjects :
        /\ off_chain_ocl_project_map[o] \in Projections
        /\ off_chain_ocl_project_map[o].latest_data_room_offset \in 1..Len(rooms[o])
  BY DEF TypeOK, KnownProjects
<1>7. \A o \in DOMAIN entries : Len(rooms[o]) \in Nat
  BY <1>3, ReadType
<1>8. ASSUME NEW o \in Existing \cup NewProjects
      PROVE  /\ LoadedProjects[o] \in Projections
             /\ LoadedProjects[o].latest_data_room_offset \in 1..Len(rooms[o])
  BY <1>3, <1>4, <1>7, <1>8, ProcessedResult
<1> QED BY <1>1, <1>2, <1>3, <1>4, <1>5, <1>6, <1>8

-----------------------------------------------------------------------------
(* What get_owners learns, and the operations built from it. *)

\* The wallets asked about are known then, and those known before are as they were.  What
\* is new of a Safe is who was behind it at some position from the final one to the head.
Learns(asked) ==
  /\ IsWallets(multisig')
  /\ DOMAIN multisig' = DOMAIN multisig \cup asked
  /\ \A a \in DOMAIN multisig : multisig'[a] = multisig[a]
  /\ \A a \in DOMAIN multisig' \ DOMAIN multisig :
       \E b \in final_logs..ChainHead : CurrentBehind(multisig', a) = OwnersAt(a, b)

LEMMA GetOwnersResult ==
  ASSUME TypeOK, NEW asked \in SUBSET Addresses, GetOwners(asked)
  PROVE  Learns(asked)
<1>1. PICK answered_at \in [(asked \cap Safes) \ DOMAIN multisig -> final_logs..ChainHead] :
        multisig' = WalletsAfter(asked, answered_at)
  BY DEF GetOwners
<1>2. DOMAIN multisig' = DOMAIN multisig \cup asked
  BY <1>1 DEF WalletsAfter
<1>3. \A a \in DOMAIN multisig : multisig'[a] = multisig[a]
  BY <1>1 DEF WalletsAfter
<1>4. ASSUME NEW a \in asked \ DOMAIN multisig, a \in Safes
      PROVE  /\ multisig'[a] = MW!NewMultisigState(OwnersAt(a, answered_at[a]), RemovedOwnerLogs(a))
             /\ multisig'[a] \in MW!MultisigState
             /\ CurrentBehind(multisig', a) = OwnersAt(a, answered_at[a])
             /\ answered_at[a] \in final_logs..ChainHead
  <2>1. multisig'[a] = MW!NewMultisigState(OwnersAt(a, answered_at[a]), RemovedOwnerLogs(a))
    BY <1>1, <1>4 DEF WalletsAfter
  <2>2. OwnersAt(a, answered_at[a]) \subseteq People /\ RemovedOwnerLogs(a) \subseteq People
    BY <1>4 DEF OwnersAt, RemovedOwnerLogs
  <2>3. multisig'[a] \in MW!MultisigState
    BY <2>1, <2>2 DEF MW!NewMultisigState, MW!MultisigState
  <2>4. multisig'[a] # Regular
    BY <2>3, RegularAssumption
  <2>5. CurrentBehind(multisig', a) = OwnersAt(a, answered_at[a])
    BY <2>1, <2>4 DEF CurrentBehind, MW!GetOwnersResponse, MW!NewMultisigState
  <2>6. answered_at[a] \in final_logs..ChainHead
    BY <1>1, <1>4
  <2> QED BY <2>1, <2>3, <2>5, <2>6
<1>5. ASSUME NEW a \in asked \ DOMAIN multisig, a \notin Safes
      PROVE  /\ multisig'[a] = Regular
             /\ CurrentBehind(multisig', a) = OwnersAt(a, final_logs)
  BY <1>1, <1>5 DEF WalletsAfter, CurrentBehind, MW!GetOwnersResponse, OwnersAt
<1>6. final_logs \in final_logs..ChainHead
  BY DEF TypeOK, ChainHead
<1>7. IsWallets(multisig)
  BY DEF TypeOK, IsWallets
<1>8. IsWallets(multisig')
  BY <1>2, <1>3, <1>4, <1>5, <1>7 DEF IsWallets
<1> QED BY <1>2, <1>3, <1>4, <1>5, <1>6, <1>8 DEF Learns

\* The people behind an address.
LEMMA BehindType ==
  ASSUME NEW wallets, IsWallets(wallets), NEW a \in DOMAIN wallets
  PROVE  /\ CurrentBehind(wallets, a) \subseteq People
         /\ FormerBehind(wallets, a) \subseteq People
         /\ EverBehind(wallets, a) = CurrentBehind(wallets, a) \cup FormerBehind(wallets, a)
<1>1. a \in Safes => wallets[a] \in MW!MultisigState
  BY DEF IsWallets
<1>2. a \notin Safes => wallets[a] = Regular /\ a \in People
  BY SafesAssumption DEF IsWallets
<1>3. EverBehind(wallets, a) = CurrentBehind(wallets, a) \cup FormerBehind(wallets, a)
  BY DEF EverBehind
<1>4. CASE a \in Safes
  <2>1. wallets[a] # Regular
    BY <1>1, <1>4, RegularAssumption
  <2> QED BY <1>1, <1>3, <1>4, <2>1
          DEF CurrentBehind, FormerBehind, MW!GetOwnersResponse, MW!MultisigState
<1>5. CASE a \notin Safes
  BY <1>2, <1>3, <1>5 DEF CurrentBehind, FormerBehind, MW!GetOwnersResponse
<1> QED BY <1>4, <1>5

\* What wallets say of an address depends on what they hold of it only.
LEMMA BehindSame ==
  ASSUME NEW wallets, NEW others, NEW a, wallets[a] = others[a]
  PROVE  /\ CurrentBehind(wallets, a) = CurrentBehind(others, a)
         /\ FormerBehind(wallets, a) = FormerBehind(others, a)
         /\ EverBehind(wallets, a) = EverBehind(others, a)
BY DEF CurrentBehind, FormerBehind, EverBehind

LEMMA OwnersAskedType ==
  ASSUME TypeOK, NEW o \in DOMAIN entries
  PROVE  /\ o \in OclIds
         /\ entries[o].current \in Addresses
         /\ OwnersAsked(o) \in SUBSET Addresses
BY DEF TypeOK, OwnersAsked, OclOwnershipProjection

\* Everybody the project part or the initial run grants or revokes access of.
LEMMA AccountsByProject ==
  ASSUME TypeOK, NEW o \in DOMAIN entries, NEW wallets, IsWallets(wallets),
         OwnersAsked(o) \subseteq DOMAIN wallets
  PROVE  /\ CurrentOwners(wallets, o) \subseteq People
         /\ RevokeAccess(wallets, o) \subseteq People
         /\ RevokeAccess(wallets, o) \cap CurrentOwners(wallets, o) = {}
         /\ CurrentOwners(wallets, o) \cup RevokeAccess(wallets, o)
              = UNION {EverBehind(wallets, a) : a \in OwnersAsked(o)}
<1>1. \A a \in OwnersAsked(o) : /\ CurrentBehind(wallets, a) \subseteq People
                                /\ FormerBehind(wallets, a) \subseteq People
                                /\ EverBehind(wallets, a) \subseteq People
  BY BehindType
<1>2. CurrentOwners(wallets, o) = CurrentBehind(wallets, entries[o].current)
  BY DEF CurrentOwners
<1>3. RevokeAccess(wallets, o) =
        (FormerBehind(wallets, entries[o].current)
           \cup UNION {EverBehind(wallets, a) : a \in entries[o].previous})
          \ CurrentOwners(wallets, o)
  BY DEF RevokeAccess, Revoked
<1>4. OwnersAsked(o) = {entries[o].current} \cup entries[o].previous
  BY DEF OwnersAsked
<1>5. EverBehind(wallets, entries[o].current)
        = CurrentBehind(wallets, entries[o].current) \cup FormerBehind(wallets, entries[o].current)
  BY DEF EverBehind
<1> QED BY <1>1, <1>2, <1>3, <1>4, <1>5

LEMMA InitialOperationsType ==
  ASSUME TypeOK, NEW o \in KnownProjects, NEW wallets, IsWallets(wallets),
         OwnersAsked(o) \subseteq DOMAIN wallets
  PROVE  /\ InitialOperations(wallets, o) \in Operations
         /\ InitialAccounts(wallets, o) \subseteq People
<1>1. o \in DOMAIN entries /\ off_chain_ocl_project_map[o] \in Projections
  BY DEF TypeOK, KnownProjects
<1>2. ProjectDatasets(o) \in ProjectDatasetIds
  BY <1>1, GetProjectDatasetIdsType DEF ProjectDatasets
<1>3. CurrentOwners(wallets, o) \in SUBSET People /\ RevokeAccess(wallets, o) \in SUBSET People
  BY <1>1, AccountsByProject
<1> QED BY <1>2, <1>3, BuildOperationsType DEF InitialOperations, InitialAccounts

\* The owners of a change: whom the blockchain part grants and revokes access of.
LEMMA AccountsByChange ==
  ASSUME NEW change \in OclOwnershipChange, NEW wallets, IsWallets(wallets),
         {change.current_owner, change.former_owner} \ {NoOwner} \subseteq DOMAIN wallets
  PROVE  /\ NewOwners(wallets, change) = CurrentBehind(wallets, change.current_owner)
         /\ NewOwners(wallets, change) \subseteq People
         /\ OldOwners(wallets, change) \subseteq People
         /\ NewOwners(wallets, change) \cup OldOwners(wallets, change)
              = UNION {EverBehind(wallets, a) :
                         a \in {change.current_owner, change.former_owner} \ {NoOwner}}
<1> DEFINE new == change.current_owner
           old == change.former_owner
<1>1. new \in Addresses /\ new # NoOwner /\ new \in DOMAIN wallets
  BY NoOwnerAssumption DEF OclOwnershipChange
<1>2. old # NoOwner => old \in DOMAIN wallets
  OBVIOUS
<1>3. NewOwners(wallets, change) = CurrentBehind(wallets, new)
  BY DEF NewOwners
<1>4. OldOwners(wallets, change) =
        FormerBehind(wallets, new) \cup (IF old = NoOwner THEN {} ELSE EverBehind(wallets, old))
  BY DEF OldOwners
<1>5. /\ CurrentBehind(wallets, new) \subseteq People
      /\ FormerBehind(wallets, new) \subseteq People
      /\ EverBehind(wallets, new) = CurrentBehind(wallets, new) \cup FormerBehind(wallets, new)
  BY <1>1, BehindType
<1>6. old # NoOwner => EverBehind(wallets, old) \subseteq People
  <2> SUFFICES ASSUME old # NoOwner
               PROVE  EverBehind(wallets, old) \subseteq People
    OBVIOUS
  <2>1. /\ CurrentBehind(wallets, old) \subseteq People
        /\ FormerBehind(wallets, old) \subseteq People
        /\ EverBehind(wallets, old) = CurrentBehind(wallets, old) \cup FormerBehind(wallets, old)
    BY <1>2, BehindType
  <2> QED BY <2>1
<1>7. UNION {EverBehind(wallets, a) : a \in {new, old} \ {NoOwner}}
        = EverBehind(wallets, new) \cup (IF old = NoOwner THEN {} ELSE EverBehind(wallets, old))
  BY <1>1
<1> HIDE DEF new, old
<1> QED BY <1>3, <1>4, <1>5, <1>6, <1>7 DEF new, old

LEMMA BlockchainOperationsType ==
  ASSUME TypeOK, NEW o \in KnownProjects, NEW change \in OclOwnershipChange \cup {NoChange},
         NEW wallets, IsWallets(wallets),
         change # NoChange =>
           {change.current_owner, change.former_owner} \ {NoOwner} \subseteq DOMAIN wallets
  PROVE  /\ BlockchainOperations(wallets, o, change) \in Operations
         /\ IntervalAccounts(wallets, change) \subseteq People
<1>1. CASE change = NoChange
  BY <1>1, NoOperationsType DEF BlockchainOperations, IntervalAccounts
<1>2. CASE change # NoChange
  <2>1. change \in OclOwnershipChange
    BY <1>2
  <2>2. /\ NewOwners(wallets, change) \in SUBSET People
        /\ OldOwners(wallets, change) \in SUBSET People
    BY <1>2, <2>1, AccountsByChange
  <2>3. ProjectDatasets(o) \in ProjectDatasetIds
    BY GetProjectDatasetIdsType DEF ProjectDatasets, TypeOK, KnownProjects
  <2>4. Revoked(NewOwners(wallets, change), OldOwners(wallets, change)) \in SUBSET People
    BY <2>2 DEF Revoked
  <2> QED BY <1>2, <2>2, <2>3, <2>4, BuildOperationsType DEF BlockchainOperations, IntervalAccounts
<1> QED BY <1>1, <1>2

LEMMA ChangedDatasetsType ==
  ASSUME NEW changed_files \in ChangedFiles
  PROVE  ChangedDatasets(changed_files) \in ProjectDatasetIds
<1>1. \A c \in changed_files : c.file \in Files
  BY DEF ChangedFiles
<1>2. \A S \in SUBSET changed_files : {c.file : c \in S} \in SUBSET Files
  BY <1>1
<1> QED BY <1>2 DEF ChangedDatasets, ProjectDatasetIds

LEMMA ProjectOperationsType ==
  ASSUME TypeOK, NEW o \in KnownProjects, NEW changed_files \in ChangedFiles,
         NEW wallets, IsWallets(wallets),
         changed_files # {} => OwnersAsked(o) \subseteq DOMAIN wallets
  PROVE  ProjectOperations(wallets, o, changed_files) \in Operations
<1>1. CASE changed_files = {}
  BY <1>1, NoOperationsType DEF ProjectOperations
<1>2. CASE changed_files # {}
  <2>1. o \in DOMAIN entries
    BY DEF TypeOK, KnownProjects
  <2>2. CurrentOwners(wallets, o) \in SUBSET People /\ RevokeAccess(wallets, o) \in SUBSET People
    BY <1>2, <2>1, AccountsByProject
  <2> QED BY <1>2, <2>2, ChangedDatasetsType, BuildOperationsType DEF ProjectOperations
<1> QED BY <1>1, <1>2

LEMMA IntervalAskedType ==
  ASSUME TypeOK, NEW o \in DOMAIN entries, NEW change \in OclChange
  PROVE  /\ IntervalAsked(o, change) \in SUBSET Addresses
         /\ change.owner_changes # NoChange =>
              {change.owner_changes.current_owner, change.owner_changes.former_owner} \ {NoOwner}
                \subseteq IntervalAsked(o, change)
         /\ change.changed_files # {} => OwnersAsked(o) \subseteq IntervalAsked(o, change)
<1>1. OwnersAsked(o) \in SUBSET Addresses
  BY OwnersAskedType
<1>2. change.owner_changes # NoChange =>
        /\ change.owner_changes.current_owner \in Addresses
        /\ change.owner_changes.former_owner \in Addresses \cup {NoOwner}
  BY DEF OclChange, OclOwnershipChange
<1> QED BY <1>1, <1>2 DEF IntervalAsked

LEMMA IntervalOperationsType ==
  ASSUME TypeOK, NEW o \in KnownProjects, NEW change \in OclChange, NEW wallets,
         IsWallets(wallets), IntervalAsked(o, change) \subseteq DOMAIN wallets
  PROVE  /\ BlockchainOperations(wallets, o, change.owner_changes) \in Operations
         /\ ProjectOperations(wallets, o, change.changed_files) \in Operations
         /\ IntervalOperations(wallets, o, change) \in Operations
         /\ IntervalAccounts(wallets, change.owner_changes) \subseteq People
<1>1. o \in DOMAIN entries
  BY DEF TypeOK, KnownProjects
<1>2. /\ change.owner_changes \in OclOwnershipChange \cup {NoChange}
      /\ change.changed_files \in ChangedFiles
  BY DEF OclChange
<1>3. /\ change.owner_changes # NoChange =>
           {change.owner_changes.current_owner, change.owner_changes.former_owner} \ {NoOwner}
             \subseteq DOMAIN wallets
      /\ change.changed_files # {} => OwnersAsked(o) \subseteq DOMAIN wallets
  BY <1>1, IntervalAskedType
<1>4. /\ BlockchainOperations(wallets, o, change.owner_changes) \in Operations
      /\ IntervalAccounts(wallets, change.owner_changes) \subseteq People
  BY <1>2, <1>3, BlockchainOperationsType
<1>5. ProjectOperations(wallets, o, change.changed_files) \in Operations
  BY <1>2, <1>3, ProjectOperationsType
<1> QED BY <1>4, <1>5, ExtendType DEF IntervalOperations

-----------------------------------------------------------------------------
(* The parts of the type invariant, in the order in which steps disturb them. *)

WorldOK ==
  /\ owner \in [OclIds -> Addresses \cup {NoOwner}]
  /\ first_owners \in [Safes -> SUBSET People]
  /\ safe_logs \in Seq(SafeLog)
  /\ final_logs \in 0..Len(safe_logs)
  /\ projects \in Seq([op : ProjectOps, ocl_id : OclIds])
  /\ rooms \in [OclIds -> Rows]
  /\ levels \in [OclIds -> LevelMaps]
  /\ events \in 0..MaxEvents

AccessOK ==
  /\ access \in [OclIds -> Access]
  /\ served \in [OclIds -> SUBSET People]
  /\ created \subseteq People

ChainOK ==
  /\ DOMAIN entries \subseteq OclIds
  /\ \A o \in DOMAIN entries : entries[o] \in OclOwnershipProjection
  /\ indexed_logs \in 0..final_logs
  /\ to_logs \in 0..indexed_logs

ProjectsOK ==
  /\ DOMAIN off_chain_ocl_project_map \subseteq DOMAIN entries
  /\ \A o \in DOMAIN off_chain_ocl_project_map :
       /\ off_chain_ocl_project_map[o] \in Projections
       /\ off_chain_ocl_project_map[o].latest_data_room_offset \in 1..Len(rooms[o])
  /\ molecule_projects_dataset_offset \in 0..Len(projects)
  /\ loaded_once \in BOOLEAN

LoopOK ==
  /\ phase \in Phases
  /\ \A o \in DOMAIN ocl_changes_map : ocl_changes_map[o] \in OclChange
  /\ DOMAIN ocl_changes_map \subseteq DOMAIN entries
  /\ known_at_init \subseteq DOMAIN off_chain_ocl_project_map
  /\ crashes \in 0..MaxCrashes

Parts == WorldOK /\ AccessOK /\ ChainOK /\ IsWallets(multisig) /\ ProjectsOK /\ LoopOK

LEMMA TypeOKParts == TypeOK <=> Parts
<1>1. TypeOK => Parts
  BY DEF TypeOK, Parts, WorldOK, AccessOK, ChainOK, IsWallets, ProjectsOK, LoopOK, SafeLog,
         LevelMaps, ChainHead
<1>2. Parts => TypeOK
  BY DEF TypeOK, Parts, WorldOK, AccessOK, ChainOK, IsWallets, ProjectsOK, LoopOK, SafeLog,
         LevelMaps, ChainHead
<1> QED BY <1>1, <1>2

LEMMA TypeOKPartsNext == TypeOK' <=> Parts'
<1>1. TypeOK' => Parts'
  BY DEF TypeOK, Parts, WorldOK, AccessOK, ChainOK, IsWallets, ProjectsOK, LoopOK, SafeLog,
         LevelMaps, ChainHead
<1>2. Parts' => TypeOK'
  BY DEF TypeOK, Parts, WorldOK, AccessOK, ChainOK, IsWallets, ProjectsOK, LoopOK, SafeLog,
         LevelMaps, ChainHead
<1> QED BY <1>1, <1>2

\* What the loop relies on from step to step: a load knows what was indexed, changes are
\* there from an indexing until they are applied and name the owner that was indexed,
\* changed files are those of a known project, and nobody is given access to a project
\* before it is known.
Shape ==
  /\ DOMAIN entries \subseteq Owned
  /\ phase \in {"down", "loading"} => KnownProjects = {}
  /\ phase \notin {"indexed", "applying"} => DOMAIN ocl_changes_map = {}
  /\ phase = "indexed" => \A o \in DOMAIN ocl_changes_map : ocl_changes_map[o].changed_files = {}
  /\ \A o \in DOMAIN ocl_changes_map :
       /\ ocl_changes_map[o].changed_files # {} => o \in KnownProjects
       /\ ocl_changes_map[o].owner_changes # NoChange =>
            ocl_changes_map[o].owner_changes.current_owner = entries[o].current
  /\ \A o \in OclIds \ KnownProjects : served[o] = {}

-----------------------------------------------------------------------------
(* Steps of the world. *)

\* The row added to a data room: of a file that is there, unless it appends the file.
Follows(rows, row) ==
  row \in [op : RowOps, file : Files] /\ (row.op # "Append" => row.file \in AddedEntities(rows, 1))

\* The world leaves the program alone; it only adds to its ledgers and its logs, and an
\* OCL that has an owner keeps one.
WorldGrows ==
  /\ WorldOK'
  /\ UNCHANGED programVars
  /\ Owned \subseteq Owned'
  /\ final_logs <= final_logs'
  /\ Len(projects) <= Len(projects')
  /\ \A o \in OclIds : \/ rooms'[o] = rooms[o]
                       \/ \E row : Follows(rooms[o], row) /\ rooms'[o] = Append(rooms[o], row)
  /\ first_owners' = first_owners
  /\ safe_logs' = safe_logs \/ \E log : safe_logs' = Append(safe_logs, log)

LEMMA EventType ==
  ASSUME TypeOK, Event
  PROVE  events' \in 0..MaxEvents
BY BoundsAssumption DEF TypeOK, Event

LEMMA TransferGrows ==
  ASSUME TypeOK, Transfer
  PROVE  WorldGrows
<1>1. WorldOK
  BY TypeOKParts DEF Parts
<1>2. PICK o \in OclIds, a \in Addresses : owner' = [owner EXCEPT ![o] = a]
  BY DEF Transfer
<1>3. UNCHANGED <<first_owners, safe_logs, final_logs, projects, rooms, levels, programVars>>
  BY DEF Transfer, safeVars, nodeVars
<1>4. owner' \in [OclIds -> Addresses \cup {NoOwner}]
  BY <1>1, <1>2 DEF WorldOK
<1>5. events' \in 0..MaxEvents
  BY EventType DEF Transfer
<1>6. Owned \subseteq Owned'
  BY <1>1, <1>2, NoOwnerAssumption DEF Owned, WorldOK
<1>7. WorldOK'
  BY <1>1, <1>3, <1>4, <1>5 DEF WorldOK
<1>8. final_logs \in Int /\ Len(projects) \in Int
  BY <1>1 DEF WorldOK
<1> QED BY <1>3, <1>6, <1>7, <1>8 DEF WorldGrows

\* A row is added to the ledger of projects.
LEMMA ProjectsGrow ==
  ASSUME TypeOK, ListProject \/ RetractProject
  PROVE  WorldGrows
<1>1. WorldOK
  BY TypeOKParts DEF Parts
<1>2. PICK row \in [op : ProjectOps, ocl_id : OclIds] : projects' = Append(projects, row)
  BY DEF ListProject, RetractProject, ProjectOps
<1>3. UNCHANGED <<owner, first_owners, safe_logs, final_logs, rooms, levels, programVars>>
  BY DEF ListProject, RetractProject, safeVars
<1>4. /\ projects' \in Seq([op : ProjectOps, ocl_id : OclIds])
      /\ Len(projects') = Len(projects) + 1
      /\ Len(projects) \in Nat
  BY <1>1, <1>2 DEF WorldOK
<1>5. events' \in 0..MaxEvents
  BY EventType DEF ListProject, RetractProject
<1>6. Owned' = Owned
  BY <1>3 DEF Owned
<1>7. WorldOK'
  BY <1>1, <1>3, <1>4, <1>5 DEF WorldOK
<1>8. final_logs \in Int
  BY <1>1 DEF WorldOK
<1> QED BY <1>3, <1>4, <1>6, <1>7, <1>8 DEF WorldGrows

\* A row is added to a data room.
LEMMA RoomsGrow ==
  ASSUME TypeOK, AddFile \/ RetractFile \/ CorrectFile
  PROVE  WorldGrows
<1>1. WorldOK
  BY TypeOKParts DEF Parts
<1>2. PICK o \in OclIds, f \in Files, op \in RowOps :
        /\ ChangeRoom(o, f, op)
        /\ op # "Append" => f \in AddedEntities(rooms[o], 1)
  <2>1. CASE AddFile
    BY <2>1 DEF AddFile, RowOps
  <2>2. CASE RetractFile \/ CorrectFile
    BY <2>2, EntitiesType DEF RetractFile, CorrectFile, LiveFiles, RowOps
  <2> QED BY <2>1, <2>2
<1> DEFINE row == [op |-> op, file |-> f]
<1>3. /\ rooms' = [rooms EXCEPT ![o] = Append(rooms[o], row)]
      /\ UNCHANGED <<owner, first_owners, safe_logs, final_logs, projects, levels, programVars>>
  BY <1>2 DEF ChangeRoom, safeVars
<1>4. row \in [op : RowOps, file : Files] /\ Follows(rooms[o], row)
  BY <1>2 DEF Follows
<1> HIDE DEF row
<1>5. Append(rooms[o], row) \in Rows
  <2>1. rooms[o] \in Seq([op : RowOps, file : Files])
    BY <1>1 DEF WorldOK, Rows
  <2> QED BY <1>4, <2>1 DEF Rows
<1>6. rooms' \in [OclIds -> Rows]
  BY <1>1, <1>3, <1>5 DEF WorldOK
<1>7. \A q \in OclIds : \/ rooms'[q] = rooms[q]
                        \/ Follows(rooms[q], row) /\ rooms'[q] = Append(rooms[q], row)
  BY <1>1, <1>3, <1>4 DEF WorldOK
<1>8. events' \in 0..MaxEvents
  BY <1>2, EventType DEF ChangeRoom
<1>9. Owned' = Owned
  BY <1>3 DEF Owned
<1>10. WorldOK'
  BY <1>1, <1>3, <1>6, <1>8 DEF WorldOK
<1>11. final_logs \in Int /\ Len(projects) \in Int
  BY <1>1 DEF WorldOK
<1> QED BY <1>3, <1>7, <1>9, <1>10, <1>11 DEF WorldGrows

LEMMA SetLevelGrows ==
  ASSUME TypeOK, SetLevel
  PROVE  WorldGrows
<1>1. WorldOK
  BY TypeOKParts DEF Parts
<1>2. PICK o \in OclIds, f \in Files, l \in Levels : levels' = [levels EXCEPT ![o][f] = l]
  BY DEF SetLevel
<1>3. UNCHANGED <<owner, first_owners, safe_logs, final_logs, projects, rooms, programVars>>
  BY DEF SetLevel, safeVars
<1>4. levels' \in [OclIds -> LevelMaps]
  BY <1>1, <1>2 DEF WorldOK, LevelMaps
<1>5. events' \in 0..MaxEvents
  BY EventType DEF SetLevel
<1>6. Owned' = Owned
  BY <1>3 DEF Owned
<1>7. WorldOK'
  BY <1>1, <1>3, <1>4, <1>5 DEF WorldOK
<1>8. final_logs \in Int /\ Len(projects) \in Int
  BY <1>1 DEF WorldOK
<1> QED BY <1>3, <1>6, <1>7, <1>8 DEF WorldGrows

\* An owner log is added, or more of them become final.
LEMMA SafesGrow ==
  ASSUME TypeOK, SafeWallets
  PROVE  WorldGrows
<1>1. WorldOK
  BY TypeOKParts DEF Parts
<1>2. Len(safe_logs) \in Nat /\ final_logs \in Int /\ Len(projects) \in Int
  BY <1>1 DEF WorldOK
<1>3. CASE AddOwner \/ RemoveOwner
  <2>1. PICK log \in SafeLog : safe_logs' = Append(safe_logs, log)
    <3>1. \A s \in Safes : OwnersAt(s, ChainHead) \subseteq People
      BY DEF OwnersAt
    <3> QED BY <1>3, <3>1 DEF AddOwner, RemoveOwner, ChangeSafe, SafeLog
  <2>2. UNCHANGED <<owner, first_owners, final_logs, projects, rooms, levels, events, programVars>>
    BY <1>3 DEF AddOwner, RemoveOwner, ChangeSafe, nodeVars
  <2>3. safe_logs' \in Seq(SafeLog) /\ Len(safe_logs') = Len(safe_logs) + 1
    BY <1>1, <2>1 DEF WorldOK
  <2>4. Owned' = Owned
    BY <2>2 DEF Owned
  <2>5. WorldOK'
    BY <1>1, <1>2, <2>2, <2>3 DEF WorldOK
  <2> QED BY <1>2, <2>1, <2>2, <2>4, <2>5 DEF WorldGrows
<1>4. CASE Finalize
  <2>1. final_logs' \in (final_logs + 1)..Len(safe_logs)
    BY <1>4 DEF Finalize, ChainHead
  <2>2. UNCHANGED <<owner, first_owners, safe_logs, projects, rooms, levels, events, programVars>>
    BY <1>4 DEF Finalize, nodeVars
  <2>3. Owned' = Owned
    BY <2>2 DEF Owned
  <2>4. final_logs' \in 0..Len(safe_logs')
    BY <1>1, <1>2, <2>1, <2>2 DEF WorldOK
  <2>5. WorldOK'
    BY <1>1, <2>2, <2>4 DEF WorldOK
  <2> QED BY <1>2, <2>1, <2>2, <2>3, <2>5 DEF WorldGrows
<1> QED BY <1>3, <1>4 DEF SafeWallets

LEMMA WorldStep ==
  ASSUME TypeOK, World \/ SafeWallets
  PROVE  WorldGrows
BY TransferGrows, ProjectsGrow, RoomsGrow, SetLevelGrows, SafesGrow DEF World

-----------------------------------------------------------------------------
(* Every step keeps the shape. *)

TypeShape == TypeOK /\ Shape

LEMMA InitShape ==
  ASSUME Init
  PROVE  TypeShape
<1>1. /\ owner \in [OclIds -> Addresses \cup {NoOwner}]
      /\ first_owners \in [Safes -> SUBSET People]
      /\ rooms \in [OclIds -> Rows]
      /\ levels \in [OclIds -> LevelMaps]
  <2>1. ASSUME NEW f \in Files
        PROVE  <<[op |-> "Append", file |-> f]>> \in Rows
    BY DEF Rows, RowOps
  <2>2. <<>> \in Rows
    BY DEF Rows
  <2>3. {<<>>} \cup {<<[op |-> "Append", file |-> f]>> : f \in Files} \subseteq Rows
    BY <2>1, <2>2
  <2> QED BY <2>3 DEF Init, LevelMaps
<1>2. projects \in Seq([op : ProjectOps, ocl_id : OclIds])
  <2> DEFINE listing == [op : {"Append"}, ocl_id : OclIds]
  <2>1. PICK s \in SUBSET listing : projects \in [1..Cardinality(s) -> s]
    BY DEF Init, FirstListings, SetToAllKPermutations, SetToSeqs
  <2>2. IsFiniteSet(listing)
    <3>1. \A row \in listing : row.ocl_id \in OclIds /\ row = [op |-> "Append", ocl_id |-> row.ocl_id]
      OBVIOUS
    <3>2. [i \in OclIds |-> [op |-> "Append", ocl_id |-> i]] \in [OclIds -> listing]
      OBVIOUS
    <3> HIDE DEF listing
    <3>3. [i \in OclIds |-> [op |-> "Append", ocl_id |-> i]] \in Surjection(OclIds, listing)
      BY <3>1, <3>2 DEF Surjection
    <3> QED BY <3>3, OclIdsAssumption, FS_Surjection
  <2>3. Cardinality(s) \in Nat
    BY <2>2, FS_Subset, FS_CardinalityType
  <2>4. projects \in [1..Cardinality(s) -> [op : ProjectOps, ocl_id : OclIds]]
    BY <2>1 DEF ProjectOps
  <2>5. \A T : \A n \in Nat : \A rows \in [1..n -> T] : rows \in Seq(T)
    OBVIOUS
  <2> QED BY <2>3, <2>4, <2>5, Zenon
<1>3. WorldOK
  BY <1>1, <1>2, BoundsAssumption DEF Init, WorldOK
<1>4. AccessOK
  BY DEF Init, AccessOK, Access
<1>5. ChainOK /\ IsWallets(multisig) /\ ProjectsOK /\ LoopOK
  <2>1. Len(projects) \in Nat
    BY <1>2
  <2>2. 0 \in 0..Len(projects) /\ 0 \in 0..0 /\ 0 \in 0..MaxCrashes
    BY <2>1, BoundsAssumption
  <2> QED BY <2>2 DEF Init, Nothing, ChainOK, IsWallets, ProjectsOK, LoopOK, Phases
<1>6. TypeOK
  BY <1>3, <1>4, <1>5, TypeOKParts DEF Parts
<1>7. Shape
  BY DEF Init, Nothing, Shape, KnownProjects
<1> QED BY <1>6, <1>7 DEF TypeShape

LEMMA WorldShape ==
  ASSUME TypeShape, World \/ SafeWallets
  PROVE  TypeShape'
<1>1. Parts /\ WorldGrows
  BY TypeOKParts, WorldStep DEF TypeShape
<1>2. WorldOK'
  BY <1>1 DEF WorldGrows
<1>3. UNCHANGED <<access, entries, indexed_logs, to_logs, multisig, off_chain_ocl_project_map,
                  molecule_projects_dataset_offset, loaded_once, phase, ocl_changes_map,
                  known_at_init, served, created, crashes>>
  BY <1>1 DEF WorldGrows, programVars, chainVars, projectVars, loopVars, historyVars
<1>4. AccessOK' /\ IsWallets(multisig)' /\ LoopOK'
  BY <1>1, <1>3 DEF Parts, AccessOK, IsWallets, LoopOK
<1>5. ChainOK'
  BY <1>1, <1>2, <1>3 DEF Parts, ChainOK, WorldOK, WorldGrows
<1>6. \A o \in OclIds : Len(rooms[o]) \in Nat /\ Len(rooms'[o]) \in Nat
                          /\ Len(rooms[o]) <= Len(rooms'[o])
  <2> TAKE o \in OclIds
  <2>1. rooms[o] \in Rows /\ rooms'[o] \in Rows
    BY <1>1, <1>2 DEF Parts, WorldOK
  <2>2. CASE rooms'[o] = rooms[o]
    BY <2>1, <2>2 DEF Rows
  <2>3. ASSUME NEW row, rooms'[o] = Append(rooms[o], row)
        PROVE  Len(rooms'[o]) = Len(rooms[o]) + 1
    BY <2>1, <2>3 DEF Rows
  <2>4. Len(rooms[o]) \in Nat /\ Len(rooms'[o]) \in Nat
    BY <2>1 DEF Rows
  <2> QED BY <1>1, <2>2, <2>3, <2>4 DEF WorldGrows
<1>7. ProjectsOK'
  <2>1. molecule_projects_dataset_offset' \in 0..Len(projects')
    BY <1>1, <1>2, <1>3 DEF Parts, ProjectsOK, WorldGrows, WorldOK
  <2>2. ASSUME NEW o \in DOMAIN off_chain_ocl_project_map
        PROVE  off_chain_ocl_project_map[o].latest_data_room_offset \in 1..Len(rooms'[o])
    <3>1. o \in OclIds
      BY <1>1 DEF Parts, ProjectsOK, ChainOK
    <3> QED BY <1>1, <1>6, <3>1 DEF Parts, ProjectsOK
  <2> QED BY <1>1, <1>3, <2>1, <2>2 DEF Parts, ProjectsOK
<1>8. TypeOK'
  BY <1>2, <1>4, <1>5, <1>7, TypeOKPartsNext DEF Parts
<1>9. Shape'
  BY <1>1, <1>3 DEF TypeShape, Shape, WorldGrows, KnownProjects
<1> QED BY <1>8, <1>9 DEF TypeShape

\* What both indexings do to the chain's part of the state.
LEMMA IndexedChain ==
  ASSUME TypeShape, entries' = IndexedEntries, multisig' = IndexedWallets,
         indexed_logs' = final_logs, to_logs' \in 0..final_logs, UNCHANGED worldVars
  PROVE  /\ WorldOK' /\ ChainOK' /\ IsWallets(multisig')
         /\ DOMAIN entries' = Owned /\ Owned' = Owned
         /\ DOMAIN entries \subseteq DOMAIN entries'
         /\ \A o \in Owned : entries'[o].current = owner[o]
<1>1. Parts /\ TypeOK /\ DOMAIN entries \subseteq Owned
  BY TypeOKParts DEF TypeShape, Shape
<1>2. UNCHANGED <<owner, first_owners, safe_logs, final_logs, projects, rooms, levels, events>>
  BY DEF worldVars, safeVars, nodeVars
<1>3. WorldOK' /\ Owned' = Owned
  BY <1>1, <1>2 DEF Parts, WorldOK, Owned
<1>4. Owned \subseteq OclIds
  BY DEF Owned
<1>5. final_logs \in Nat
  BY <1>1 DEF Parts, WorldOK
<1> QED BY <1>1, <1>2, <1>3, <1>4, <1>5, IndexedEntriesResult, IndexedWalletsType DEF ChainOK

LEMMA InitIndexingShape ==
  ASSUME TypeShape, InitIndexing
  PROVE  TypeShape'
<1>1. Parts
  BY TypeOKParts DEF TypeShape
<1>2. /\ phase = "down" /\ phase' = "loading" /\ entries' = IndexedEntries
      /\ multisig' = IndexedWallets /\ indexed_logs' = final_logs /\ to_logs' = final_logs
      /\ UNCHANGED worldVars
      /\ UNCHANGED <<access, off_chain_ocl_project_map, molecule_projects_dataset_offset,
                     loaded_once, ocl_changes_map, known_at_init, served, created, crashes>>
  BY DEF InitIndexing, projectVars, historyVars
<1>3. UNCHANGED <<projects, rooms>>
  BY <1>2 DEF worldVars, nodeVars
<1>4. to_logs' \in 0..final_logs
  BY <1>1, <1>2 DEF Parts, WorldOK
<1>5. /\ WorldOK' /\ ChainOK' /\ IsWallets(multisig')
      /\ DOMAIN entries' = Owned /\ Owned' = Owned
      /\ DOMAIN entries \subseteq DOMAIN entries'
  BY <1>2, <1>4, IndexedChain
<1>6. AccessOK' /\ ProjectsOK' /\ LoopOK'
  BY <1>1, <1>2, <1>3, <1>5 DEF Parts, AccessOK, ProjectsOK, LoopOK, Phases
<1>7. TypeOK'
  BY <1>5, <1>6, TypeOKPartsNext DEF Parts
<1>8. Shape'
  BY <1>2, <1>5 DEF TypeShape, Shape, KnownProjects
<1> QED BY <1>7, <1>8 DEF TypeShape

LEMMA IndexingShape ==
  ASSUME TypeShape, Indexing
  PROVE  TypeShape'
<1>1. Parts
  BY TypeOKParts DEF TypeShape
<1>2. /\ phase = "sleeping" /\ phase' = "indexed" /\ entries' = IndexedEntries
      /\ multisig' = IndexedWallets /\ indexed_logs' = final_logs
      /\ ocl_changes_map' = OwnerChanges
      /\ UNCHANGED worldVars
      /\ UNCHANGED <<access, off_chain_ocl_project_map, molecule_projects_dataset_offset,
                     loaded_once, known_at_init, served, created, crashes>>
  BY DEF Indexing, projectVars, historyVars
<1>3. UNCHANGED <<projects, rooms>>
  BY <1>2 DEF worldVars, nodeVars
<1>4. to_logs' \in 0..final_logs
  BY <1>1 DEF Indexing, Parts, WorldOK, ChainOK
<1>5. /\ WorldOK' /\ ChainOK' /\ IsWallets(multisig')
      /\ DOMAIN entries' = Owned /\ Owned' = Owned
      /\ DOMAIN entries \subseteq DOMAIN entries'
      /\ \A o \in Owned : entries'[o].current = owner[o]
  BY <1>2, <1>4, IndexedChain
<1>6. AccessOK' /\ ProjectsOK'
  BY <1>1, <1>2, <1>3, <1>5 DEF Parts, AccessOK, ProjectsOK
<1>7. /\ DOMAIN ocl_changes_map' \subseteq DOMAIN entries'
      /\ \A o \in DOMAIN ocl_changes_map' :
           /\ ocl_changes_map'[o] \in OclChange
           /\ ocl_changes_map'[o].changed_files = {}
           /\ ocl_changes_map'[o].owner_changes.current_owner = entries'[o].current
  BY <1>2, <1>5, OwnerChangesType DEF TypeShape
<1>8. LoopOK'
  BY <1>1, <1>2, <1>7 DEF Parts, LoopOK, Phases
<1>9. TypeOK'
  BY <1>5, <1>6, <1>8, TypeOKPartsNext DEF Parts
<1>10. Shape'
  BY <1>2, <1>5, <1>7 DEF TypeShape, Shape, KnownProjects
<1> QED BY <1>9, <1>10 DEF TypeShape

\* What both loads do to the projects' part of the state.
LEMMA LoadedState ==
  ASSUME TypeShape, LoadMoleculeProjects, loaded_once' \in BOOLEAN,
         UNCHANGED <<worldVars, access, chainVars, multisig, historyVars>>
  PROVE  /\ WorldOK' /\ AccessOK' /\ ChainOK' /\ IsWallets(multisig') /\ ProjectsOK'
         /\ KnownProjects \subseteq KnownProjects'
         /\ KnownProjects' \subseteq DOMAIN entries
         /\ known_at_init' \subseteq KnownProjects'
         /\ Owned' = Owned
<1>1. Parts /\ TypeOK
  BY TypeOKParts DEF TypeShape
<1>2. UNCHANGED <<owner, first_owners, safe_logs, final_logs, projects, rooms, levels, events>>
  BY DEF worldVars, safeVars, nodeVars
<1>3. UNCHANGED <<access, entries, indexed_logs, to_logs, multisig, known_at_init, served, created>>
  BY DEF chainVars, historyVars
<1>4. WorldOK' /\ AccessOK' /\ ChainOK' /\ IsWallets(multisig') /\ Owned' = Owned
  BY <1>1, <1>2, <1>3 DEF Parts, WorldOK, AccessOK, ChainOK, IsWallets, Owned
<1>5. off_chain_ocl_project_map' = LoadedProjects
         /\ molecule_projects_dataset_offset' = Len(projects)
  BY DEF LoadMoleculeProjects
<1>6. KnownProjects \subseteq KnownProjects' /\ KnownProjects' \subseteq DOMAIN entries
  BY <1>1, <1>5, LoadedProjectsResult DEF KnownProjects
<1>7. molecule_projects_dataset_offset' \in 0..Len(projects')
  BY <1>1, <1>2, <1>5 DEF Parts, WorldOK
<1>8. ProjectsOK'
  BY <1>1, <1>2, <1>3, <1>5, <1>7, LoadedProjectsResult DEF ProjectsOK
<1> QED BY <1>1, <1>3, <1>4, <1>6, <1>8 DEF Parts, LoopOK, KnownProjects

LEMMA InitLoadingShape ==
  ASSUME TypeShape, InitLoading
  PROVE  TypeShape'
<1>1. Parts
  BY TypeOKParts DEF TypeShape
<1>2. /\ phase = "loading" /\ phase' = "granting" /\ LoadMoleculeProjects
      /\ UNCHANGED <<worldVars, access, chainVars, multisig, historyVars>>
      /\ UNCHANGED <<entries, loaded_once, ocl_changes_map, known_at_init, served, crashes>>
  BY DEF InitLoading, chainVars, historyVars
<1>3. /\ WorldOK' /\ AccessOK' /\ ChainOK' /\ IsWallets(multisig') /\ ProjectsOK'
      /\ KnownProjects \subseteq KnownProjects'
      /\ known_at_init' \subseteq KnownProjects'
      /\ Owned' = Owned
  <2>1. loaded_once' \in BOOLEAN
    BY <1>1, <1>2 DEF Parts, ProjectsOK
  <2> QED BY <1>2, <2>1, LoadedState
<1>4. LoopOK'
  BY <1>1, <1>2, <1>3 DEF Parts, LoopOK, Phases, KnownProjects
<1>5. TypeOK'
  BY <1>3, <1>4, TypeOKPartsNext DEF Parts
<1>6. Shape'
  BY <1>2, <1>3 DEF TypeShape, Shape
<1> QED BY <1>5, <1>6 DEF TypeShape

LEMMA DetectedChangesType ==
  ASSUME TypeOK
  PROVE  /\ DOMAIN DetectedChanges \subseteq Existing \cup NewProjects
         /\ DOMAIN DetectedChanges \subseteq DOMAIN LoadedProjects
         /\ \A o \in DOMAIN DetectedChanges :
              DetectedChanges[o] = Processed(o).changes /\ DetectedChanges[o] \in ChangedFiles
<1>1. DOMAIN DetectedChanges \subseteq Existing \cup NewProjects
  BY DEF DetectedChanges
<1>2. \A o \in DOMAIN DetectedChanges : DetectedChanges[o] = Processed(o).changes
  BY DEF DetectedChanges
<1> QED BY <1>1, <1>2, ProcessedResult, LoadedProjectsResult

LEMMA LoadingShape ==
  ASSUME TypeShape, Loading
  PROVE  TypeShape'
<1>1. Parts /\ TypeOK
  BY TypeOKParts DEF TypeShape
<1>2. /\ phase = "indexed" /\ phase' = "applying" /\ LoadMoleculeProjects /\ loaded_once' = TRUE
      /\ UNCHANGED <<worldVars, access, chainVars, multisig, historyVars>>
      /\ UNCHANGED <<entries, known_at_init, served, crashes>>
  BY DEF Loading, chainVars, historyVars
<1>3. /\ WorldOK' /\ AccessOK' /\ ChainOK' /\ IsWallets(multisig') /\ ProjectsOK'
      /\ KnownProjects \subseteq KnownProjects'
      /\ KnownProjects' \subseteq DOMAIN entries
      /\ known_at_init' \subseteq KnownProjects'
      /\ Owned' = Owned
  BY <1>2, LoadedState
<1>4. DOMAIN ocl_changes_map' = DOMAIN ocl_changes_map \cup DOMAIN DetectedChanges
  BY DEF Loading
<1>5. ASSUME NEW o \in DOMAIN ocl_changes_map'
      PROVE  ocl_changes_map'[o] =
               [owner_changes |-> IF o \in DOMAIN ocl_changes_map
                                  THEN ocl_changes_map[o].owner_changes ELSE NoChange,
                changed_files |-> IF o \in DOMAIN DetectedChanges THEN DetectedChanges[o] ELSE {}]
  BY <1>5, <1>4 DEF Loading
<1>6. DOMAIN DetectedChanges \subseteq KnownProjects'
         /\ \A o \in DOMAIN DetectedChanges : DetectedChanges[o] \in ChangedFiles
  BY <1>1, <1>2, DetectedChangesType DEF LoadMoleculeProjects, KnownProjects
<1>7. \A o \in DOMAIN ocl_changes_map : ocl_changes_map[o].owner_changes \in OclOwnershipChange \cup {NoChange}
  BY <1>1 DEF Parts, LoopOK, OclChange
<1>8. {} \in ChangedFiles
  BY DEF ChangedFiles
<1>9. ASSUME NEW o \in DOMAIN ocl_changes_map'
      PROVE  /\ ocl_changes_map'[o] \in OclChange
             /\ ocl_changes_map'[o].changed_files # {} => o \in KnownProjects'
             /\ ocl_changes_map'[o].owner_changes # NoChange =>
                  ocl_changes_map'[o].owner_changes.current_owner = entries'[o].current
  <2>1. CASE o \in DOMAIN ocl_changes_map
    <3>1. /\ ocl_changes_map'[o].owner_changes = ocl_changes_map[o].owner_changes
          /\ ocl_changes_map'[o].changed_files
               = IF o \in DOMAIN DetectedChanges THEN DetectedChanges[o] ELSE {}
          /\ ocl_changes_map'[o] = [owner_changes |-> ocl_changes_map'[o].owner_changes,
                                    changed_files |-> ocl_changes_map'[o].changed_files]
      BY <1>5, <2>1
    <3>2. ocl_changes_map'[o].changed_files \in ChangedFiles
      BY <1>6, <1>8, <3>1
    <3>3. ocl_changes_map'[o] \in OclChange
      BY <1>7, <2>1, <3>1, <3>2 DEF OclChange
    <3> QED BY <1>2, <1>6, <2>1, <3>1, <3>3 DEF TypeShape, Shape
  <2>2. CASE o \notin DOMAIN ocl_changes_map
    BY <1>5, <1>6, <1>8, <2>2 DEF OclChange
  <2> QED BY <2>1, <2>2
<1>10. DOMAIN ocl_changes_map' \subseteq DOMAIN entries'
  BY <1>1, <1>2, <1>3, <1>4, <1>6 DEF Parts, LoopOK
<1>11. LoopOK'
  BY <1>1, <1>2, <1>3, <1>9, <1>10 DEF Parts, LoopOK, Phases, KnownProjects
<1>12. TypeOK'
  BY <1>3, <1>11, TypeOKPartsNext DEF Parts
<1>13. Shape'
  BY <1>2, <1>3, <1>9 DEF TypeShape, Shape
<1> QED BY <1>12, <1>13 DEF TypeShape

\* The operations of an OCL are applied.
Applies(o, accounts, operations) ==
  /\ operations \in Operations
  /\ accounts \subseteq People
  /\ access' = [access EXCEPT ![o] = Apply(access[o], operations)]
  /\ served' = [served EXCEPT ![o] = served[o] \cup {pair[1] : pair \in operations.set}]
  /\ created' = created \cup accounts

LEMMA AppliesType ==
  ASSUME AccessOK, NEW o \in OclIds, NEW accounts, NEW operations, Applies(o, accounts, operations)
  PROVE  AccessOK'
<1>1. Apply(access[o], operations) \in Access
  BY ApplyType DEF AccessOK, Applies
<1>2. {pair[1] : pair \in operations.set} \subseteq People
  BY DEF Applies, Operations, Access
<1>3. access' \in [OclIds -> Access]
  BY <1>1 DEF AccessOK, Applies
<1>4. served' \in [OclIds -> SUBSET People]
  BY <1>2 DEF AccessOK, Applies
<1> QED BY <1>3, <1>4 DEF AccessOK, Applies

\* initial_access_applying of one project; every project of the map is on chain.
Initially(o) ==
  /\ phase = "granting"
  /\ known_at_init' = known_at_init \cup {o}
  /\ Learns(OwnersAsked(o))
  /\ Applies(o, InitialAccounts(multisig', o), InitialOperations(multisig', o))
  /\ UNCHANGED <<worldVars, chainVars, projectVars, phase, ocl_changes_map, crashes>>

LEMMA InitialStep ==
  ASSUME TypeShape, InitialAccessApplying
  PROVE  \E o \in KnownProjects \ known_at_init : Initially(o)
<1>0. TypeOK
  BY DEF TypeShape
<1>1. \A o \in KnownProjects : o \in DOMAIN entries
  BY <1>0 DEF TypeOK, KnownProjects
<1>2. PICK o \in KnownProjects \ known_at_init :
        /\ GetOwners(OwnersAsked(o))
        /\ ApplyOperations(o, InitialAccounts(multisig', o), InitialOperations(multisig', o))
        /\ phase = "granting"
        /\ known_at_init' = known_at_init \cup {o}
        /\ UNCHANGED <<worldVars, chainVars, projectVars, phase, ocl_changes_map, crashes>>
  BY <1>1 DEF InitialAccessApplying, KnownProjects
<1>3. Learns(OwnersAsked(o))
  BY <1>0, <1>1, <1>2, GetOwnersResult, OwnersAskedType
<1>4. UNCHANGED <<entries, off_chain_ocl_project_map>>
  BY <1>2 DEF chainVars, projectVars
<1>5. IsWallets(multisig') /\ OwnersAsked(o) \subseteq DOMAIN multisig'
  BY <1>3 DEF Learns
<1>6. /\ InitialOperations(multisig', o) \in Operations
      /\ InitialAccounts(multisig', o) \subseteq People
  BY <1>0, <1>5, InitialOperationsType
<1>7. Applies(o, InitialAccounts(multisig', o), InitialOperations(multisig', o))
  BY <1>2, <1>6 DEF Applies, ApplyOperations
<1> QED BY <1>2, <1>3, <1>7 DEF Initially

\* interval_access_applying_for_ocl.
InInterval(o) ==
  /\ phase = "applying"
  /\ \/ /\ o \in KnownProjects
        /\ Learns(IntervalAsked(o, ocl_changes_map[o]))
        /\ Applies(o, IntervalAccounts(multisig', ocl_changes_map[o].owner_changes),
                   IntervalOperations(multisig', o, ocl_changes_map[o]))
     \/ /\ o \notin KnownProjects
        /\ UNCHANGED <<multisig, access, served, created>>
  /\ ocl_changes_map' = [p \in DOMAIN ocl_changes_map \ {o} |-> ocl_changes_map[p]]
  /\ UNCHANGED <<worldVars, chainVars, projectVars, phase, known_at_init, crashes>>

LEMMA IntervalStep ==
  ASSUME TypeShape, IntervalAccessApplying
  PROVE  \E o \in DOMAIN ocl_changes_map : InInterval(o)
<1>0. TypeOK
  BY DEF TypeShape
<1>1. \A o \in KnownProjects : o \in DOMAIN entries
  BY <1>0 DEF TypeOK, KnownProjects
<1>2. PICK o \in DOMAIN ocl_changes_map :
        /\ \/ /\ o \in KnownProjects
              /\ GetOwners(IntervalAsked(o, ocl_changes_map[o]))
              /\ ApplyOperations(o, IntervalAccounts(multisig', ocl_changes_map[o].owner_changes),
                                 IntervalOperations(multisig', o, ocl_changes_map[o]))
           \/ /\ o \notin KnownProjects
              /\ UNCHANGED <<multisig, access, served, created>>
        /\ ocl_changes_map' = [p \in DOMAIN ocl_changes_map \ {o} |-> ocl_changes_map[p]]
        /\ phase = "applying"
        /\ UNCHANGED <<worldVars, chainVars, projectVars, phase, known_at_init, crashes>>
  BY <1>1 DEF IntervalAccessApplying, KnownProjects
<1>3. CASE o \notin KnownProjects
  BY <1>2, <1>3 DEF InInterval
<1>4. CASE o \in KnownProjects
  <2> DEFINE change == ocl_changes_map[o]
  <2>1. change \in OclChange /\ o \in DOMAIN entries
    BY <1>0, <1>1, <1>4 DEF TypeOK
  <2>2. IntervalAsked(o, change) \in SUBSET Addresses
    BY <1>0, <2>1, IntervalAskedType
  <2>3. Learns(IntervalAsked(o, change))
    BY <1>0, <1>2, <1>4, <2>2, GetOwnersResult
  <2>4. IsWallets(multisig') /\ IntervalAsked(o, change) \subseteq DOMAIN multisig'
    BY <2>3 DEF Learns
  <2>5. /\ IntervalOperations(multisig', o, change) \in Operations
        /\ IntervalAccounts(multisig', change.owner_changes) \subseteq People
    BY <1>0, <1>4, <2>1, <2>4, IntervalOperationsType
  <2>6. Applies(o, IntervalAccounts(multisig', change.owner_changes),
                IntervalOperations(multisig', o, change))
    BY <1>2, <1>4, <2>5 DEF Applies, ApplyOperations
  <2> QED BY <1>2, <1>4, <2>3, <2>6 DEF InInterval
<1> QED BY <1>3, <1>4

LEMMA InitialShape ==
  ASSUME TypeShape, InitialAccessApplying
  PROVE  TypeShape'
<1>1. Parts
  BY TypeOKParts DEF TypeShape
<1>2. PICK o \in KnownProjects \ known_at_init : Initially(o)
  BY InitialStep
<1>3. UNCHANGED <<owner, first_owners, safe_logs, final_logs, projects, rooms, levels, events,
                  entries, indexed_logs, to_logs, off_chain_ocl_project_map,
                  molecule_projects_dataset_offset, loaded_once, phase, ocl_changes_map, crashes>>
  BY <1>2 DEF Initially, worldVars, safeVars, nodeVars, chainVars, projectVars
<1>4. o \in OclIds
  BY <1>1, <1>2 DEF Parts, ProjectsOK, ChainOK, KnownProjects
<1>5. AccessOK'
  BY <1>1, <1>2, <1>4, AppliesType DEF Parts, Initially
<1>6. WorldOK' /\ ChainOK' /\ ProjectsOK' /\ IsWallets(multisig')
  BY <1>1, <1>2, <1>3 DEF Parts, WorldOK, ChainOK, ProjectsOK, Initially, Learns
<1>7. LoopOK'
  BY <1>1, <1>2, <1>3 DEF Parts, LoopOK, Initially, KnownProjects
<1>8. TypeOK'
  BY <1>5, <1>6, <1>7, TypeOKPartsNext DEF Parts
<1>9. \A q \in OclIds \ KnownProjects : served'[q] = served[q]
  BY <1>1, <1>2 DEF Initially, Applies, Parts, AccessOK
<1>10. Shape'
  BY <1>3, <1>9 DEF TypeShape, Shape, KnownProjects, Owned
<1> QED BY <1>8, <1>10 DEF TypeShape

LEMMA IntervalShape ==
  ASSUME TypeShape, IntervalAccessApplying
  PROVE  TypeShape'
<1>1. Parts
  BY TypeOKParts DEF TypeShape
<1>2. PICK o \in DOMAIN ocl_changes_map : InInterval(o)
  BY IntervalStep
<1>3. UNCHANGED <<owner, first_owners, safe_logs, final_logs, projects, rooms, levels, events,
                  entries, indexed_logs, to_logs, off_chain_ocl_project_map,
                  molecule_projects_dataset_offset, loaded_once, phase, known_at_init, crashes>>
  BY <1>2 DEF InInterval, worldVars, safeVars, nodeVars, chainVars, projectVars
<1>4. o \in OclIds
  BY <1>1, <1>2 DEF Parts, LoopOK, ChainOK
<1>5. AccessOK' /\ IsWallets(multisig')
  <2>1. CASE o \in KnownProjects
    BY <1>1, <1>2, <1>4, <2>1, AppliesType DEF Parts, InInterval, Learns
  <2>2. CASE o \notin KnownProjects
    BY <1>1, <1>2, <2>2 DEF Parts, InInterval, AccessOK, IsWallets
  <2> QED BY <2>1, <2>2
<1>6. WorldOK' /\ ChainOK' /\ ProjectsOK'
  BY <1>1, <1>3 DEF Parts, WorldOK, ChainOK, ProjectsOK
<1>7. ocl_changes_map' = [p \in DOMAIN ocl_changes_map \ {o} |-> ocl_changes_map[p]]
         /\ phase = "applying"
  BY <1>2 DEF InInterval
<1>8. LoopOK'
  BY <1>1, <1>3, <1>7 DEF Parts, LoopOK
<1>9. TypeOK'
  BY <1>5, <1>6, <1>8, TypeOKPartsNext DEF Parts
<1>10. \A q \in OclIds \ KnownProjects : served'[q] = served[q]
  BY <1>1, <1>2 DEF InInterval, Applies, Parts, AccessOK
<1>11. Shape'
  BY <1>3, <1>7, <1>10 DEF TypeShape, Shape, KnownProjects, Owned
<1> QED BY <1>9, <1>11 DEF TypeShape

\* A step of the loop that changes nothing but its phase.
LEMMA PhaseShape ==
  ASSUME TypeShape, InitDone \/ NoLoading \/ UpdateDone
  PROVE  TypeShape'
<1>1. Parts
  BY TypeOKParts DEF TypeShape
<1>2. UNCHANGED <<owner, first_owners, safe_logs, final_logs, projects, rooms, levels, events,
                  access, entries, indexed_logs, to_logs, multisig, off_chain_ocl_project_map,
                  molecule_projects_dataset_offset, loaded_once, ocl_changes_map, known_at_init,
                  served, created, crashes>>
  BY DEF InitDone, NoLoading, UpdateDone, worldVars, safeVars, nodeVars, chainVars, projectVars,
         historyVars
<1>3. phase' \in {"sleeping", "applying"} /\ phase \in {"granting", "indexed", "applying"}
         /\ (phase' = "sleeping" => DOMAIN ocl_changes_map = {})
  BY DEF InitDone, NoLoading, UpdateDone, TypeShape, Shape
<1>4. WorldOK' /\ AccessOK' /\ ChainOK' /\ IsWallets(multisig)' /\ ProjectsOK'
  BY <1>1, <1>2 DEF Parts, WorldOK, AccessOK, ChainOK, IsWallets, ProjectsOK
<1>5. LoopOK'
  BY <1>1, <1>2, <1>3 DEF Parts, LoopOK, Phases
<1>6. TypeOK'
  BY <1>4, <1>5, TypeOKPartsNext DEF Parts
<1>7. Shape'
  BY <1>2, <1>3 DEF TypeShape, Shape, KnownProjects, Owned
<1> QED BY <1>6, <1>7 DEF TypeShape

LEMMA CrashShape ==
  ASSUME TypeShape, Crash
  PROVE  TypeShape'
<1>1. Parts
  BY TypeOKParts DEF TypeShape
<1>2. UNCHANGED <<owner, first_owners, safe_logs, final_logs, projects, rooms, levels, events, access>>
  BY DEF Crash, worldVars, safeVars, nodeVars
<1>3. WorldOK'
  BY <1>1, <1>2 DEF Parts, WorldOK
<1>4. AccessOK'
  BY <1>1, <1>2 DEF Parts, AccessOK, Crash
<1>5. crashes' \in 0..MaxCrashes
  BY <1>1, BoundsAssumption DEF Crash, Parts, LoopOK
<1>6. 0 \in 0..final_logs' /\ 0 \in 0..Len(projects') /\ 0 \in 0..0
  BY <1>3 DEF WorldOK
<1>7. ChainOK' /\ IsWallets(multisig)' /\ ProjectsOK' /\ LoopOK'
  BY <1>5, <1>6 DEF Crash, Nothing, ChainOK, IsWallets, ProjectsOK, LoopOK, Phases
<1>8. TypeOK'
  BY <1>3, <1>4, <1>7, TypeOKPartsNext DEF Parts
<1>9. Shape'
  BY DEF Crash, Nothing, Shape, KnownProjects, Owned
<1> QED BY <1>8, <1>9 DEF TypeShape

LEMMA StutterShape ==
  ASSUME TypeShape, UNCHANGED vars
  PROVE  TypeShape'
<1>1. Parts
  BY TypeOKParts DEF TypeShape
<1>2. UNCHANGED <<owner, first_owners, safe_logs, final_logs, projects, rooms, levels, events,
                  access, entries, indexed_logs, to_logs, multisig, off_chain_ocl_project_map,
                  molecule_projects_dataset_offset, loaded_once, phase, ocl_changes_map,
                  known_at_init, served, created, crashes>>
  BY DEF vars, worldVars, programVars, safeVars, nodeVars, chainVars, projectVars, loopVars,
         historyVars
<1>3. Parts'
  BY <1>1, <1>2 DEF Parts, WorldOK, AccessOK, ChainOK, IsWallets, ProjectsOK, LoopOK
<1>4. Shape'
  BY <1>2 DEF TypeShape, Shape, KnownProjects, Owned
<1> QED BY <1>3, <1>4, TypeOKPartsNext DEF TypeShape

LEMMA NextShape ==
  ASSUME TypeShape, [Next]_vars
  PROVE  TypeShape'
BY WorldShape, InitIndexingShape, InitLoadingShape, InitialShape, IndexingShape, LoadingShape,
   IntervalShape, PhaseShape, CrashShape, StutterShape
   DEF Next, AppInit, AppUpdate

LEMMA ShapeIsKept == Spec => []TypeShape
BY InitShape, NextShape, PTL DEF Spec

\* The bridge keeps its state well formed, whatever order transfers, listings, files,
\* levels, owner logs and restarts come in: positions are those of rows that exist, known
\* projects are on chain, changes concern OCLs of the projection.
THEOREM TypeCorrect == Spec => []TypeOK
<1>1. TypeShape => TypeOK
  BY DEF TypeShape
<1> QED BY <1>1, ShapeIsKept, PTL

-----------------------------------------------------------------------------
(* Whom a step gives access. *)

\* Access changes by the two steps that apply operations only.
LEMMA AccessKept ==
  ASSUME [Next]_vars, ~InitialAccessApplying, ~IntervalAccessApplying
  PROVE  access' = access
<1>1. CASE World \/ SafeWallets
  BY <1>1 DEF World, Transfer, ListProject, RetractProject, AddFile, RetractFile, CorrectFile,
              ChangeRoom, SetLevel, SafeWallets, AddOwner, RemoveOwner, ChangeSafe, Finalize,
              programVars
<1>2. CASE InitIndexing \/ InitLoading \/ InitDone
  BY <1>2 DEF InitIndexing, InitLoading, InitDone
<1>3. CASE Indexing \/ Loading \/ NoLoading \/ UpdateDone \/ Crash
  BY <1>3 DEF Indexing, Loading, NoLoading, UpdateDone, Crash
<1>4. CASE UNCHANGED vars
  BY <1>4 DEF vars, programVars
<1> QED BY <1>1, <1>2, <1>3, <1>4 DEF Next, AppInit, AppUpdate

\* The new owners of a change are those of its OCL.
LEMMA NewOwnersAreOwners ==
  ASSUME TypeShape, NEW o \in DOMAIN ocl_changes_map, NEW wallets,
         ocl_changes_map[o].owner_changes # NoChange
  PROVE  NewOwners(wallets, ocl_changes_map[o].owner_changes) = CurrentOwners(wallets, o)
BY DEF TypeShape, Shape, NewOwners, CurrentOwners

\* The operations of the initial run, and both parts of those of an iteration, set
\* accesses of the OCL's owners only.
LEMMA OnlyOwnersAreSet ==
  ASSUME TypeShape, NEW o, NEW wallets
  PROVE  /\ \A pair \in InitialOperations(wallets, o).set : pair[1] \in CurrentOwners(wallets, o)
         /\ o \in DOMAIN ocl_changes_map =>
              \A pair \in IntervalOperations(wallets, o, ocl_changes_map[o]).set :
                pair[1] \in CurrentOwners(wallets, o)
<1>1. \A pair \in InitialOperations(wallets, o).set : pair[1] \in CurrentOwners(wallets, o)
  BY BuildOperationsSets DEF InitialOperations
<1>2. ASSUME o \in DOMAIN ocl_changes_map
      PROVE  \A pair \in IntervalOperations(wallets, o, ocl_changes_map[o]).set :
               pair[1] \in CurrentOwners(wallets, o)
  <2> DEFINE change == ocl_changes_map[o].owner_changes
             files == ocl_changes_map[o].changed_files
  <2>1. \A pair \in BlockchainOperations(wallets, o, change).set :
          pair[1] \in CurrentOwners(wallets, o)
    <3>1. CASE change = NoChange
      BY <3>1 DEF BlockchainOperations, NoOperations
    <3>2. CASE change # NoChange
      BY <1>2, <3>2, NewOwnersAreOwners, BuildOperationsSets DEF BlockchainOperations
    <3> QED BY <3>1, <3>2
  <2>2. \A pair \in ProjectOperations(wallets, o, files).set : pair[1] \in CurrentOwners(wallets, o)
    BY BuildOperationsSets DEF ProjectOperations, NoOperations
  <2>3. IntervalOperations(wallets, o, ocl_changes_map[o]).set
          \subseteq BlockchainOperations(wallets, o, change).set
                      \cup ProjectOperations(wallets, o, files).set
    BY DEF IntervalOperations, Extend
  <2> QED BY <2>1, <2>2, <2>3
<1> QED BY <1>1, <1>2

\* Nothing is added to a project's accesses but what the operations set.
LEMMA AppliedIsSet ==
  ASSUME AccessOK, NEW o \in OclIds, NEW accounts, NEW operations, Applies(o, accounts, operations)
  PROVE  /\ access'[o] = Apply(access[o], operations)
         /\ access'[o] \ access[o] \subseteq operations.set
         /\ served'[o] = served[o] \cup {pair[1] : pair \in operations.set}
         /\ \A other \in OclIds \ {o} : access'[other] = access[other] /\ served'[other] = served[other]
BY DEF AccessOK, Applies, Apply

\* Whatever batch of changes is being applied, the bridge gives access to nobody but the
\* owners it has indexed for that OCL (initial_access_applying, interval_access_applying).
THEOREM GrantsReachOwnersOnly == Spec => GrantsOnlyToOwners
<1> DEFINE Granted == \A o \in OclIds : \A pair \in access'[o] \ access[o] :
                        pair[1] \in CurrentOwners(multisig', o)
<1>1. ASSUME TypeShape, [Next]_vars
      PROVE  Granted
  <2>1. Parts
    BY <1>1, TypeOKParts DEF TypeShape
  <2>2. CASE InitialAccessApplying
    <3>1. PICK o \in KnownProjects : Initially(o)
      BY <1>1, <2>2, InitialStep
    <3>2. o \in OclIds
      BY <2>1, <3>1 DEF Parts, ProjectsOK, ChainOK, KnownProjects
    <3>3. Applies(o, InitialAccounts(multisig', o), InitialOperations(multisig', o))
      BY <3>1 DEF Initially
    <3> QED BY <1>1, <2>1, <3>2, <3>3, AppliedIsSet, OnlyOwnersAreSet DEF Parts
  <2>3. CASE IntervalAccessApplying
    <3>1. PICK o \in DOMAIN ocl_changes_map : InInterval(o)
      BY <1>1, <2>3, IntervalStep
    <3>2. o \in OclIds
      BY <2>1, <3>1 DEF Parts, LoopOK, ChainOK
    <3>3. CASE access' = access
      BY <3>3
    <3>4. CASE Applies(o, IntervalAccounts(multisig', ocl_changes_map[o].owner_changes),
                       IntervalOperations(multisig', o, ocl_changes_map[o]))
      BY <1>1, <2>1, <3>1, <3>2, <3>4, AppliedIsSet, OnlyOwnersAreSet DEF Parts
    <3> QED BY <3>1, <3>3, <3>4 DEF InInterval
  <2>4. CASE ~InitialAccessApplying /\ ~IntervalAccessApplying
    BY <1>1, <2>4, AccessKept
  <2> QED BY <2>2, <2>3, <2>4
<1>2. TypeShape /\ [Next]_vars => [Granted]_vars
  BY <1>1
<1> QED BY <1>2, ShapeIsKept, PTL DEF Spec, GrantsOnlyToOwners

\* The files of a change that are still there are given to the owners, and the removed
\* ones taken from everybody who is or was one.
LEMMA ProjectOperationsEffect ==
  ASSUME NEW wallets, NEW o, NEW changed_files \in ChangedFiles, NEW p, NEW f \in Files
  PROVE  LET operations == ProjectOperations(wallets, o, changed_files)
             removed    == [file |-> f, change |-> Removed]
         IN  /\ <<p, f>> \in operations.set <=>
                  /\ p \in CurrentOwners(wallets, o)
                  /\ removed \notin changed_files
                  /\ \E c \in changed_files : c.file = f /\ c.change # Removed
             /\ removed \in changed_files /\ p \in CurrentOwners(wallets, o) \cup RevokeAccess(wallets, o)
                  => <<p, f>> \in operations.unset
<1> DEFINE ids == ChangedDatasets(changed_files)
           removed == [file |-> f, change |-> Removed]
           operations == ProjectOperations(wallets, o, changed_files)
<1>1. \A c \in changed_files : c = [file |-> c.file, change |-> c.change]
                                 /\ c.change \in Levels \cup {Removed}
  BY DEF ChangedFiles
<1>2. \A l \in Levels : ForOwners(l) \/ ForHolders(l)
  BY LevelsAssumption DEF ForOwners, ForHolders
<1>3. Live(ids) = {c.file : c \in {c \in changed_files : ForOwners(c.change)}}
                    \cup {c.file : c \in {c \in changed_files : ForHolders(c.change)}}
         /\ ids.removed = {c.file : c \in {c \in changed_files : c.change = Removed}}
  BY DEF Live, ChangedDatasets
<1>4. f \in ids.removed <=> removed \in changed_files
  BY <1>1, <1>3
<1>5. (\E c \in changed_files : c.file = f /\ c.change # Removed) => f \in Live(ids)
  BY <1>1, <1>2, <1>3
<1>6. f \in Live(ids) \ ids.removed => \E c \in changed_files : c.file = f /\ c.change # Removed
  BY <1>1, <1>3, <1>4
<1>7. CASE changed_files = {}
  BY <1>7 DEF ProjectOperations, NoOperations
<1>8. CASE changed_files # {}
  <2>1. operations = BuildOperations(ids, CurrentOwners(wallets, o), RevokeAccess(wallets, o))
    BY <1>8 DEF ProjectOperations
  <2>2. CurrentOwners(wallets, o) \ RevokeAccess(wallets, o) = CurrentOwners(wallets, o)
    BY DEF RevokeAccess, Revoked
  <2> HIDE DEF ids, removed, operations
  <2>3. /\ <<p, f>> \in operations.set <=>
             p \in CurrentOwners(wallets, o) /\ f \in Live(ids) \ ids.removed
        /\ f \in ids.removed /\ p \in CurrentOwners(wallets, o) \cup RevokeAccess(wallets, o)
             => <<p, f>> \in operations.unset
    BY <2>1, <2>2, BuildOperationsEffect
  <2> QED BY <1>4, <1>5, <1>6, <2>3 DEF removed, operations
<1> QED BY <1>7, <1>8

\* Once the changes of an OCL are applied, its indexed owners have access to every file
\* the load found added and not removed, whatever the owner changes of the same batch
\* take away (operations.extend puts the project's part last).
THEOREM AddedFilesReachOwners == Spec => AddedFilesAreGranted
<1> DEFINE Given == \A o \in DOMAIN ocl_changes_map \ DOMAIN ocl_changes_map' :
             IntervalAccessApplying =>
               \A c \in ocl_changes_map[o].changed_files :
                 c.change # Removed /\ [c EXCEPT !.change = Removed] \notin ocl_changes_map[o].changed_files
                   => \A p \in CurrentOwners(multisig', o) : <<p, c.file>> \in access'[o]
<1>1. ASSUME TypeShape, [Next]_vars
      PROVE  Given
  <2> SUFFICES ASSUME NEW o \in DOMAIN ocl_changes_map \ DOMAIN ocl_changes_map',
                      IntervalAccessApplying,
                      NEW c \in ocl_changes_map[o].changed_files, c.change # Removed,
                      [c EXCEPT !.change = Removed] \notin ocl_changes_map[o].changed_files,
                      NEW p \in CurrentOwners(multisig', o)
               PROVE  <<p, c.file>> \in access'[o]
    OBVIOUS
  <2> DEFINE change == ocl_changes_map[o]
  <2>1. Parts
    BY <1>1, TypeOKParts DEF TypeShape
  <2>2. InInterval(o)
    <3>1. PICK q \in DOMAIN ocl_changes_map : InInterval(q)
      BY <1>1, IntervalStep
    <3>2. DOMAIN ocl_changes_map' = DOMAIN ocl_changes_map \ {q}
      BY <3>1 DEF InInterval
    <3> QED BY <3>1, <3>2
  <2>3. o \in OclIds /\ change.changed_files \in ChangedFiles
    BY <2>1 DEF Parts, LoopOK, ChainOK, OclChange
  <2>4. c.file \in Files /\ [c EXCEPT !.change = Removed] = [file |-> c.file, change |-> Removed]
    BY <2>3 DEF ChangedFiles
  <2>5. o \in KnownProjects
    BY <1>1 DEF TypeShape, Shape
  <2>6. Applies(o, IntervalAccounts(multisig', change.owner_changes),
                IntervalOperations(multisig', o, change))
    BY <2>2, <2>5 DEF InInterval
  <2>7. <<p, c.file>> \in ProjectOperations(multisig', o, change.changed_files).set
    <3>1. [file |-> c.file, change |-> Removed] \notin change.changed_files
      BY <2>4
    <3>2. c \in change.changed_files /\ c.file = c.file /\ c.change # Removed
      OBVIOUS
    <3> HIDE DEF change
    <3> QED BY <2>3, <2>4, <3>1, <3>2, ProjectOperationsEffect
  <2>8. access'[o] = Apply(access[o], IntervalOperations(multisig', o, change))
    BY <2>1, <2>3, <2>6, AppliedIsSet DEF Parts
  <2>9. ProjectOperations(multisig', o, change.changed_files).set
          \subseteq IntervalOperations(multisig', o, change).set
    BY DEF IntervalOperations, Extend
  <2> QED BY <2>7, <2>8, <2>9 DEF Apply
<1>2. TypeShape /\ [Next]_vars => [Given]_vars
  BY <1>1
<1> QED BY <1>2, ShapeIsKept, PTL DEF Spec, AddedFilesAreGranted
=============================================================================
