--------------------------- MODULE AccessGranting ---------------------------
(***************************************************************************)
(* The bridge as a whole: the owners of OCLs and of Safes on chain and the *)
(* projects of the node on one side, the accesses stored by the node on    *)
(* the other, and App::init and App::update in between, step by step.      *)
(*                                                                         *)
(* Indexing is taken at the level LedgerMirror promises: an iteration      *)
(* learns the owners at the latest finalized block and the net change      *)
(* since the last one.  Of the chain's positions only those of the Safes'  *)
(* owner logs are told apart: a position is a number of such logs, each in *)
(* a block of its own.  Safes are deployed from the start, and the head is *)
(* not reorganized.  A project's data room and files are its OCL's own.    *)
(***************************************************************************)
EXTENDS OclOwnership, ProjectLoading, SequencesExt

CONSTANTS Safes,          \* the addresses that are Safe wallets
          Regular,        \* the multisig map's value for any other address
          NoChange,       \* the absent Option<OclOwnershipChange>
          MaxEvents,      \* bound: changes of OCL owners and of the node's ledgers
          MaxSafeEvents,  \* bound: owner logs of Safes
          MaxCrashes      \* bound: times the process dies

MW == INSTANCE MultisigWallets WITH Wallets <- Addresses

ASSUME SafesAssumption == Safes \subseteq Addresses /\ Addresses \ Safes \subseteq People
ASSUME OclIdsAssumption == IsFiniteSet(OclIds)
ASSUME RegularAssumption == \A state \in MW!MultisigState : state # Regular
ASSUME NoChangeAssumption == \A change \in OclOwnershipChange : change # NoChange
ASSUME BoundsAssumption == MaxEvents \in Nat /\ MaxSafeEvents \in Nat /\ MaxCrashes \in Nat

VARIABLES
  owner,         \* the contract: every OCL's owner at the latest finalized block
  first_owners,  \* the owners every Safe was deployed with
  safe_logs,     \* AddedOwner and RemovedOwner logs up to the head of the chain
  final_logs,    \* how many of them are in final blocks
  projects,      \* the node's ledger of projects
  rooms,         \* the ledger of every project's data room
  levels,        \* the access level of every file
  access,        \* the accesses the node stores, per project
  phase,         \* where the main loop is
  entries,       \* on_chain_ocl_ownership_projection_map
  indexed_logs,  \* how many owner logs are in indexed blocks
  to_logs,       \* how many are in blocks up to the one get_owners is asked for
  multisig,      \* the map of known wallets
  off_chain_ocl_project_map,
  molecule_projects_dataset_offset,
  loaded_once,      \* whether molecule_projects_last_requested_at is set
  ocl_changes_map,  \* the changes whose operations are still to be applied
  known_at_init,    \* history: the projects the initial run applied access to
  served,           \* history: the people this process has given access to a project
  created,          \* history: the people this process has had accounts created for
  events,           \* history: changes of OCL owners and of the node's ledgers
  crashes           \* history: how often the process died

safeVars == <<first_owners, safe_logs, final_logs>>
nodeVars == <<projects, rooms, levels>>
chainVars == <<entries, indexed_logs, to_logs>>
projectVars == <<off_chain_ocl_project_map, molecule_projects_dataset_offset, loaded_once>>
loopVars == <<phase, ocl_changes_map>>
historyVars == <<known_at_init, served, created>>
worldVars == <<owner, safeVars, nodeVars, events>>
programVars == <<access, chainVars, multisig, projectVars, loopVars, historyVars, crashes>>
vars == <<worldVars, programVars>>

Phases == {"down", "loading", "granting", "sleeping", "indexed", "applying"}
OclChange == [owner_changes : OclOwnershipChange \cup {NoChange}, changed_files : ChangedFiles]
Nothing == [o \in {} |-> NoOwner]

-----------------------------------------------------------------------------
(* The contract and the node's ledgers (outside the program). *)

Event == events < MaxEvents /\ events' = events + 1

Transfer ==
  /\ Event
  /\ \E o \in OclIds, a \in Addresses : owner[o] # a /\ owner' = [owner EXCEPT ![o] = a]
  /\ UNCHANGED <<safeVars, nodeVars, programVars>>

\* The last row of a project, 0 if there is none.
LastRow(o) ==
  LET own == {i \in 1..Len(projects) : projects[i].ocl_id = o}
  IN  IF own = {} THEN 0 ELSE CHOOSE i \in own : \A j \in own : j <= i

IsListed(o) == LastRow(o) # 0 /\ projects[LastRow(o)].op = "Append"

ListProject ==
  /\ Event
  /\ \E o \in OclIds : /\ ~IsListed(o)
                       /\ projects' = Append(projects, [op |-> "Append", ocl_id |-> o])
  /\ UNCHANGED <<owner, safeVars, rooms, levels, programVars>>

RetractProject ==
  /\ Event
  /\ \E o \in OclIds : /\ IsListed(o)
                       /\ projects' = Append(projects, [op |-> "Retract", ocl_id |-> o])
  /\ UNCHANGED <<owner, safeVars, rooms, levels, programVars>>

\* The files of a data room now.
LiveFiles(o) == AddedEntities(rooms[o], 1)

ChangeRoom(o, f, op) ==
  /\ Event
  /\ rooms' = [rooms EXCEPT ![o] = Append(@, [op |-> op, file |-> f])]
  /\ UNCHANGED <<owner, safeVars, projects, levels, programVars>>

AddFile == \E o \in OclIds : \E f \in Files \ LiveFiles(o) : ChangeRoom(o, f, "Append")
RetractFile == \E o \in OclIds : \E f \in LiveFiles(o) : ChangeRoom(o, f, "Retract")
CorrectFile == \E o \in OclIds : \E f \in LiveFiles(o) : ChangeRoom(o, f, "Correct")

SetLevel ==
  /\ Event
  /\ \E o \in OclIds, f \in Files, l \in Levels :
       levels[o][f] # l /\ levels' = [levels EXCEPT ![o][f] = l]
  /\ UNCHANGED <<owner, safeVars, projects, rooms, programVars>>

-----------------------------------------------------------------------------
(* The Safes (outside the program). *)

\* The logs of a person in a Safe, of those in a range of positions.
LogsOf(s, p, range) == {i \in range : safe_logs[i].safe = s /\ safe_logs[i].person = p}

\* Whether a person is an owner after the logs of a range, given that before it.
IsOwnerAfter(s, p, range, before) ==
  LET own == LogsOf(s, p, range)
  IN  IF own = {} THEN before
      ELSE \E i \in own : safe_logs[i].kind = "added" /\ \A j \in own : j <= i

\* Who is behind an address at a position.
OwnersAt(a, b) ==
  IF a \in Safes THEN {p \in People : IsOwnerAfter(a, p, 1..b, p \in first_owners[a])} ELSE {a}

ChainHead == Len(safe_logs)

ChangeSafe(s, kind, p) ==
  /\ ChainHead < MaxSafeEvents
  /\ safe_logs' = Append(safe_logs, [safe |-> s, kind |-> kind, person |-> p])
  /\ UNCHANGED <<owner, first_owners, final_logs, nodeVars, events, programVars>>

AddOwner == \E s \in Safes : \E p \in People \ OwnersAt(s, ChainHead) : ChangeSafe(s, "added", p)

\* A Safe keeps at least one owner.
RemoveOwner ==
  \E s \in Safes : \E p \in OwnersAt(s, ChainHead) :
    OwnersAt(s, ChainHead) # {p} /\ ChangeSafe(s, "removed", p)

Finalize ==
  /\ \E b \in (final_logs + 1)..ChainHead : final_logs' = b
  /\ UNCHANGED <<owner, first_owners, safe_logs, nodeVars, events, programVars>>

-----------------------------------------------------------------------------
(* App::indexing: the projection after it, the wallets after it, and the changes it *)
(* hands on. *)

Owned == {o \in OclIds : owner[o] # NoOwner}
FormerOwner(o) == IF o \in DOMAIN entries THEN entries[o].current ELSE NoOwner

IndexedEntries ==
  [o \in Owned |-> IF o \in DOMAIN entries THEN ApplyTransfer(entries[o], owner[o]).projection
                   ELSE NewProjection(owner[o])]

\* App::index_multisig_safes: the logs of the known Safes since the last indexing.
NewLogs == (indexed_logs + 1)..final_logs
ChangedMultisigs == {s \in DOMAIN multisig : \E i \in NewLogs : safe_logs[i].safe = s}

Replayed(s) ==
  [current_owners |-> {p \in People : IsOwnerAfter(s, p, NewLogs, p \in multisig[s].current_owners)},
   former_owners  |-> multisig[s].former_owners
                        \cup {p \in People : \E i \in LogsOf(s, p, NewLogs) :
                                               safe_logs[i].kind = "removed"}]

IndexedWallets ==
  [a \in DOMAIN multisig |-> IF a \in ChangedMultisigs THEN Replayed(a) ELSE multisig[a]]

Transferred == {o \in Owned : FormerOwner(o) # owner[o]}

\* An OCL whose owner is a changed Safe, if its owner has not changed as well.
OwnedByChanged == {o \in Owned : owner[o] \in ChangedMultisigs}

\* A plausible slip: the change does not say who lost the OCL.
OwnerChangesWithoutFormer ==
  [o \in Transferred \cup OwnedByChanged |->
     [owner_changes |-> [former_owner |-> NoOwner, current_owner |-> owner[o]],
      changed_files |-> {}]]

\* A plausible slip: a change of a Safe's owners is not passed on.
OwnerChangesOfTransfers ==
  [o \in Transferred |->
     [owner_changes |-> [former_owner |-> FormerOwner(o), current_owner |-> owner[o]],
      changed_files |-> {}]]

OwnerChanges ==
  [o \in Transferred \cup OwnedByChanged |->
     [owner_changes |-> [former_owner  |-> IF o \in Transferred THEN FormerOwner(o) ELSE NoOwner,
                         current_owner |-> owner[o]],
      changed_files |-> {}]]

-----------------------------------------------------------------------------
(* App::load_molecule_projects. *)

\* get_molecule_project_entries: from an offset on, the last two rows of each.
NewRows(from) ==
  {i \in from..Len(projects) :
     \A j, k \in (i + 1)..Len(projects) :
       projects[j].ocl_id = projects[i].ocl_id /\ projects[k].ocl_id = projects[i].ocl_id
         => j = k}

NewRowsOf(o) ==
  {i \in NewRows(molecule_projects_dataset_offset + 1) : projects[i].ocl_id = o}

\* The data room is read from the start when a row of the project was found.
ReadFrom(o) ==
  IF NewRowsOf(o) # {} THEN 1
  ELSE off_chain_ocl_project_map[o].latest_data_room_offset + 1

\* Known projects with rows to read.
Existing ==
  {o \in DOMAIN off_chain_ocl_project_map : ReadFrom(o) <= Len(rooms[o])}

\* New ones on chain with rows to read.  A row of a known project, or the second
\* row of a new one, finds that the data room has been dealt with, and is skipped.
NewProjects ==
  {o \in DOMAIN entries \ DOMAIN off_chain_ocl_project_map :
     NewRowsOf(o) # {} /\ rooms[o] # <<>>}

FirstNewRow(o) == CHOOSE i \in NewRowsOf(o) : \A j \in NewRowsOf(o) : i <= j

Processed(o) ==
  LET read == VersionedFilesEntries(rooms[o], ReadFrom(o))
  IN  IF o \in Existing THEN ProcessExisting(off_chain_ocl_project_map[o], read, levels[o])
      ELSE ProcessNew(projects[FirstNewRow(o)].op, read, levels[o])

LoadedProjects ==
  [o \in DOMAIN off_chain_ocl_project_map \cup NewProjects |->
     IF o \in Existing \cup NewProjects THEN Processed(o).project
     ELSE off_chain_ocl_project_map[o]]

DetectedChanges ==
  [o \in {o \in Existing \cup NewProjects : Processed(o).changes # {}} |-> Processed(o).changes]

LoadMoleculeProjects ==
  /\ off_chain_ocl_project_map' = LoadedProjects
  /\ molecule_projects_dataset_offset' = Len(projects)

-----------------------------------------------------------------------------
(* App::get_owners. *)

\* Every Safe's RemovedOwner logs up to the requested block.
RemovedOwnerLogs(s) ==
  {p \in People : \E i \in LogsOf(s, p, 1..to_logs) : safe_logs[i].kind = "removed"}

\* The wallets once these addresses have been asked about.  The Safe API answers as
\* of some position from the final one to the head, when an address is asked about
\* for the first time.
WalletsAfter(asked, answered_at) ==
  [a \in DOMAIN multisig \cup asked |->
     IF a \in DOMAIN multisig THEN multisig[a]
     ELSE IF a \in Safes
          THEN MW!NewMultisigState(OwnersAt(a, answered_at[a]), RemovedOwnerLogs(a))
          ELSE Regular]

GetOwners(asked) ==
  \E answered_at \in [(asked \cap Safes) \ DOMAIN multisig -> final_logs..ChainHead] :
    multisig' = WalletsAfter(asked, answered_at)

CurrentBehind(wallets, a) == MW!GetOwnersResponse(a, wallets[a]).current_owners
FormerBehind(wallets, a) == MW!GetOwnersResponse(a, wallets[a]).former_owners
EverBehind(wallets, a) == CurrentBehind(wallets, a) \cup FormerBehind(wallets, a)

-----------------------------------------------------------------------------
(* The operations of one OCL, given the wallets that have been asked about. *)

ProjectDatasets(o) ==
  GetProjectDatasetIds(off_chain_ocl_project_map[o].actual_files_map,
                       off_chain_ocl_project_map[o].removed_files_map)

\* get_accounts_by_ocl_project: whom it asks about, and its two answers.
OwnersAsked(o) == {entries[o].current} \cup entries[o].previous
CurrentOwners(wallets, o) == CurrentBehind(wallets, entries[o].current)
RevokeAccess(wallets, o) ==
  Revoked(CurrentOwners(wallets, o),
          FormerBehind(wallets, entries[o].current)
            \cup UNION {EverBehind(wallets, a) : a \in entries[o].previous})

InitialOperations(wallets, o) ==
  BuildOperations(ProjectDatasets(o), CurrentOwners(wallets, o), RevokeAccess(wallets, o))

\* The former and the new owners of a change.
NewOwners(wallets, change) == CurrentBehind(wallets, change.current_owner)
OldOwners(wallets, change) ==
  FormerBehind(wallets, change.current_owner)
    \cup (IF change.former_owner = NoOwner THEN {} ELSE EverBehind(wallets, change.former_owner))

\* A plausible slip: the members of both addresses are collected as owners.
BlockchainOperationsOfBoth(wallets, o, change) ==
  IF change = NoChange THEN NoOperations
  ELSE BuildOperations(ProjectDatasets(o),
                       NewOwners(wallets, change) \cup OldOwners(wallets, change), {})

\* The blockchain part of interval_access_applying_for_ocl.
BlockchainOperations(wallets, o, change) ==
  IF change = NoChange THEN NoOperations
  ELSE BuildOperations(ProjectDatasets(o), NewOwners(wallets, change),
                       Revoked(NewOwners(wallets, change), OldOwners(wallets, change)))

ChangedDatasets(changed_files) ==
  [core    |-> {},
   owner   |-> {c.file : c \in {c \in changed_files : ForOwners(c.change)}},
   holder  |-> {c.file : c \in {c \in changed_files : ForHolders(c.change)}},
   removed |-> {c.file : c \in {c \in changed_files : c.change = Removed}}]

\* The project part.
ProjectOperations(wallets, o, changed_files) ==
  IF changed_files = {} THEN NoOperations
  ELSE BuildOperations(ChangedDatasets(changed_files), CurrentOwners(wallets, o),
                       RevokeAccess(wallets, o))

IntervalAsked(o, change) ==
  (IF change.owner_changes = NoChange THEN {}
   ELSE {change.owner_changes.current_owner, change.owner_changes.former_owner} \ {NoOwner})
  \cup (IF change.changed_files = {} THEN {} ELSE OwnersAsked(o))

IntervalOperations(wallets, o, change) ==
  Extend(BlockchainOperations(wallets, o, change.owner_changes),
         ProjectOperations(wallets, o, change.changed_files))

\* create_wallet_accounts comes before the operations are built.
InitialAccounts(wallets, o) == CurrentOwners(wallets, o) \cup RevokeAccess(wallets, o)

\* The project part relies on accounts created earlier.
IntervalAccounts(wallets, change) ==
  IF change = NoChange THEN {} ELSE NewOwners(wallets, change) \cup OldOwners(wallets, change)

ApplyOperations(o, accounts, operations) ==
  /\ created' = created \cup accounts
  /\ access' = [access EXCEPT ![o] = Apply(@, operations)]
  /\ served' = [served EXCEPT ![o] = @ \cup {pair[1] : pair \in operations.set}]

-----------------------------------------------------------------------------
(* App::init. *)

InitIndexing ==
  /\ phase = "down"
  /\ phase' = "loading"
  /\ entries' = IndexedEntries
  /\ multisig' = IndexedWallets
  /\ indexed_logs' = final_logs
  /\ to_logs' = final_logs
  /\ UNCHANGED <<worldVars, access, projectVars, ocl_changes_map, historyVars, crashes>>

InitLoading ==
  /\ phase = "loading"
  /\ LoadMoleculeProjects
  /\ phase' = "granting"
  /\ UNCHANGED <<worldVars, access, chainVars, multisig, loaded_once, ocl_changes_map, historyVars,
                 crashes>>

\* initial_access_applying, one project of the map at a time.
InitialAccessApplying ==
  /\ phase = "granting"
  /\ \E o \in DOMAIN off_chain_ocl_project_map \ known_at_init :
       /\ known_at_init' = known_at_init \cup {o}
       /\ IF o \in DOMAIN entries
          THEN /\ GetOwners(OwnersAsked(o))
               /\ ApplyOperations(o, InitialAccounts(multisig', o), InitialOperations(multisig', o))
          ELSE UNCHANGED <<multisig, access, served, created>>
  /\ UNCHANGED <<worldVars, chainVars, projectVars, phase, ocl_changes_map, crashes>>

InitDone ==
  /\ phase = "granting"
  /\ DOMAIN off_chain_ocl_project_map \subseteq known_at_init
  /\ phase' = "sleeping"
  /\ UNCHANGED <<worldVars, access, chainVars, multisig, projectVars, ocl_changes_map, historyVars,
                 crashes>>

-----------------------------------------------------------------------------
(* App::update.  An iteration that is skipped is a step of nothing. *)

\* get_owners will be asked for the first block of the iteration, which may hold a
\* log of a Safe.
Indexing ==
  /\ phase = "sleeping"
  /\ phase' = "indexed"
  /\ entries' = IndexedEntries
  /\ multisig' = IndexedWallets
  /\ ocl_changes_map' = OwnerChanges
  /\ indexed_logs' = final_logs
  /\ \E b \in {indexed_logs, indexed_logs + 1} : b <= final_logs /\ to_logs' = b
  /\ UNCHANGED <<worldVars, access, projectVars, historyVars, crashes>>

\* The loading interval has passed; it always has when nothing was requested yet.
Loading ==
  /\ phase = "indexed"
  /\ phase' = "applying"
  /\ LoadMoleculeProjects
  /\ ocl_changes_map' =
       [o \in DOMAIN ocl_changes_map \cup DOMAIN DetectedChanges |->
          [owner_changes |-> IF o \in DOMAIN ocl_changes_map THEN ocl_changes_map[o].owner_changes
                             ELSE NoChange,
           changed_files |-> IF o \in DOMAIN DetectedChanges THEN DetectedChanges[o] ELSE {}]]
  /\ loaded_once' = TRUE
  /\ UNCHANGED <<worldVars, access, chainVars, multisig, historyVars, crashes>>

NoLoading ==
  /\ phase = "indexed"
  /\ loaded_once
  /\ phase' = "applying"
  /\ UNCHANGED <<worldVars, access, chainVars, multisig, projectVars, ocl_changes_map, historyVars,
                 crashes>>

\* interval_access_applying, one OCL of the changes at a time, in any order; nothing
\* is done for an OCL without a project.
IntervalAccessApplying ==
  /\ phase = "applying"
  /\ \E o \in DOMAIN ocl_changes_map :
       /\ IF o \in DOMAIN entries /\ o \in DOMAIN off_chain_ocl_project_map
          THEN /\ GetOwners(IntervalAsked(o, ocl_changes_map[o]))
               /\ ApplyOperations(o, IntervalAccounts(multisig', ocl_changes_map[o].owner_changes),
                                  IntervalOperations(multisig', o, ocl_changes_map[o]))
          ELSE UNCHANGED <<multisig, access, served, created>>
       /\ ocl_changes_map' = [p \in DOMAIN ocl_changes_map \ {o} |-> ocl_changes_map[p]]
  /\ UNCHANGED <<worldVars, chainVars, projectVars, phase, known_at_init, crashes>>

UpdateDone ==
  /\ phase = "applying"
  /\ DOMAIN ocl_changes_map = {}
  /\ phase' = "sleeping"
  /\ UNCHANGED <<worldVars, access, chainVars, multisig, projectVars, ocl_changes_map, historyVars,
                 crashes>>

\* Any error ends the process, before or after the node has applied a batch.
Crash ==
  /\ phase # "down"
  /\ crashes < MaxCrashes
  /\ crashes' = crashes + 1
  /\ phase' = "down"
  /\ entries' = Nothing
  /\ indexed_logs' = 0
  /\ to_logs' = 0
  /\ multisig' = Nothing
  /\ off_chain_ocl_project_map' = Nothing
  /\ molecule_projects_dataset_offset' = 0
  /\ loaded_once' = FALSE
  /\ ocl_changes_map' = Nothing
  /\ known_at_init' = {}
  /\ served' = [o \in OclIds |-> {}]
  /\ created' = {}
  /\ UNCHANGED <<worldVars, access>>

-----------------------------------------------------------------------------
\* The projects listed before the bridge is deployed, in any order.
FirstListings == SetToAllKPermutations([op : {"Append"}, ocl_id : OclIds])

\* The bridge is deployed when the contract and the node may be in use already.
Init ==
  /\ owner \in [OclIds -> Addresses \cup {NoOwner}]
  /\ first_owners \in [Safes -> (SUBSET People) \ {{}}]
  /\ safe_logs = <<>>
  /\ final_logs = 0
  /\ projects \in FirstListings
  /\ rooms \in [OclIds -> {<<>>} \cup {<<[op |-> "Append", file |-> f]>> : f \in Files}]
  /\ levels \in [OclIds -> [Files -> Levels \cup {NoLevel}]]
  /\ access = [o \in OclIds |-> {}]
  /\ phase = "down"
  /\ entries = Nothing
  /\ indexed_logs = 0
  /\ to_logs = 0
  /\ multisig = Nothing
  /\ off_chain_ocl_project_map = Nothing
  /\ molecule_projects_dataset_offset = 0
  /\ loaded_once = FALSE
  /\ ocl_changes_map = Nothing
  /\ known_at_init = {}
  /\ served = [o \in OclIds |-> {}]
  /\ created = {}
  /\ events = 0
  /\ crashes = 0

World == Transfer \/ ListProject \/ RetractProject \/ AddFile \/ RetractFile \/ CorrectFile
           \/ SetLevel
SafeWallets == AddOwner \/ RemoveOwner \/ Finalize
AppInit == InitIndexing \/ InitLoading \/ InitialAccessApplying \/ InitDone
AppUpdate == Indexing \/ Loading \/ NoLoading \/ IntervalAccessApplying \/ UpdateDone

Next == World \/ SafeWallets \/ AppInit \/ AppUpdate \/ Crash

Spec == Init /\ [][Next]_vars

-----------------------------------------------------------------------------
(* Properties *)

\* Every variable has the shape the program gives it.
TypeOK ==
  /\ owner \in [OclIds -> Addresses \cup {NoOwner}]
  /\ first_owners \in [Safes -> SUBSET People]
  /\ safe_logs \in Seq([safe : Safes, kind : {"added", "removed"}, person : People])
  /\ final_logs \in 0..ChainHead
  /\ projects \in Seq([op : ProjectOps, ocl_id : OclIds])
  /\ rooms \in [OclIds -> Rows]
  /\ levels \in [OclIds -> [Files -> Levels \cup {NoLevel}]]
  /\ access \in [OclIds -> Access]
  /\ phase \in Phases
  /\ DOMAIN entries \subseteq OclIds
  /\ \A o \in DOMAIN entries : entries[o] \in OclOwnershipProjection
  /\ indexed_logs \in 0..final_logs
  /\ to_logs \in 0..indexed_logs
  /\ DOMAIN multisig \subseteq Addresses
  /\ \A a \in DOMAIN multisig :
       IF a \in Safes THEN multisig[a] \in MW!MultisigState ELSE multisig[a] = Regular
  /\ DOMAIN off_chain_ocl_project_map \subseteq DOMAIN entries
  /\ \A o \in DOMAIN off_chain_ocl_project_map :
       /\ off_chain_ocl_project_map[o] \in Projections
       /\ off_chain_ocl_project_map[o].latest_data_room_offset \in 1..Len(rooms[o])
  /\ molecule_projects_dataset_offset \in 0..Len(projects)
  /\ loaded_once \in BOOLEAN
  /\ \A o \in DOMAIN ocl_changes_map : ocl_changes_map[o] \in OclChange
  /\ DOMAIN ocl_changes_map \subseteq DOMAIN entries
  /\ known_at_init \subseteq DOMAIN off_chain_ocl_project_map
  /\ served \in [OclIds -> SUBSET People]
  /\ created \subseteq People
  /\ events \in 0..MaxEvents
  /\ crashes \in 0..MaxCrashes

\* The projects of the map, when no change waits to be applied.
AtRest == phase = "sleeping"
KnownProjects == DOMAIN off_chain_ocl_project_map

\* Whom the bridge takes for the owners of an OCL, and whom it did before.
OwnersNow(o) ==
  IF entries[o].current \in DOMAIN multisig THEN CurrentOwners(multisig, o) ELSE {}
OwnersBefore(o) == served[o] \ OwnersNow(o)

ReadRows(o) == SubSeq(rooms[o], 1, off_chain_ocl_project_map[o].latest_data_room_offset)

\* Whether a person is behind an OCL's owner at every, or at some, position from the
\* indexed one to the head, which is all an iteration can know.
AlwaysBehind(o, p) == \A b \in indexed_logs..ChainHead : p \in OwnersAt(entries[o].current, b)
SometimesBehind(o, p) == \E b \in indexed_logs..ChainHead : p \in OwnersAt(entries[o].current, b)

\* A step of the bridge gives access to nobody but the owners it has indexed for
\* that OCL, whatever batch of changes it is applying.
GrantsOnlyToOwners ==
  [][ \A o \in OclIds : \A pair \in access'[o] \ access[o] :
        pair[1] \in CurrentOwners(multisig', o) ]_vars

\* Whoever lost an OCL under this process, or left the Safe that owns it, has no
\* access to its project's core datasets, unless they are behind the owner now.
FormerOwnersLoseTheRoom ==
  AtRest => \A o \in KnownProjects : \A p \in OwnersBefore(o) : <<p, DataRoom>> \notin access[o]

\* A file whose last row, of those this process has read, retracts it is out of reach
\* of everyone it knows as an owner, of those who got the OCL later included.
RemovedFilesAreRevoked ==
  AtRest => \A o \in KnownProjects :
    \A f \in RemovedEntities(ReadRows(o), 1), p \in OwnersNow(o) \cup OwnersBefore(o) :
      <<p, f>> \notin access[o]

\* Whoever is behind the owner of a project known since the start, on chain and ever
\* since the indexed block, has access to its core datasets: the members a Safe gained
\* later included, and those who are also behind an address that lost the OCL.  So have
\* those of a retracted project, see DeletedProjectsAreRevoked.
MembersKeepTheRoom ==
  AtRest => \A o \in known_at_init, p \in People :
    AlwaysBehind(o, p) => <<p, DataRoom>> \in access[o]

\* Whoever has access to the core datasets of a known project is behind its owner on
\* chain, at the indexed block or later, or got it from an earlier process: a member
\* who left the Safe, by any log up to the indexed block, has lost it.
OnlyMembersHaveTheRoom ==
  AtRest => \A o \in KnownProjects : \A p \in served[o] :
    <<p, DataRoom>> \in access[o] => SometimesBehind(o, p)

\* Whoever gets access to a file of a project known since the start has an account made
\* by this process, though the operations on changed files are built without creating
\* any: those who came to be behind the owner since the start included.
GrantsGoToAccounts ==
  [][ \A o \in known_at_init' : \A pair \in access'[o] \ access[o] : pair[1] \in created' ]_vars

\* A file that a load finds added is open to the owners indexed by the same
\* iteration once its changes are applied, re-added files included.
AddedFilesAreGranted ==
  [][ \A o \in DOMAIN ocl_changes_map \ DOMAIN ocl_changes_map' :
        IntervalAccessApplying =>
          \A c \in ocl_changes_map[o].changed_files :
            c.change # Removed /\ [c EXCEPT !.change = Removed] \notin ocl_changes_map[o].changed_files
              => \A p \in CurrentOwners(multisig', o) : <<p, c.file>> \in access'[o] ]_vars

-----------------------------------------------------------------------------
(* Claims of the documentation that the code does not keep. *)

\* "Granting/revoking access according to blockchain and dataset changes: Changed OCL
\* owners": whoever lost an OCL has access to none of its project's files.
FormerOwnersLoseFiles ==
  AtRest => \A o \in KnownProjects : \A p \in OwnersBefore(o), f \in Files :
    <<p, f>> \notin access[o]

\* The same of a project that is listed while the bridge runs: its owners get access
\* to its core datasets, as those of a project known at the start do.
NewProjectsReachOwners ==
  AtRest => \A o \in KnownProjects : \A p \in OwnersNow(o) : <<p, DataRoom>> \in access[o]

\* "To re-synchronize the blockchain state with permissions in Kamu from scratch [...]
\* just restart the service": nobody else has access once the initial run is over.
RestartResynchronizes ==
  AtRest => \A o \in KnownProjects, p \in People :
    <<p, DataRoom>> \in access[o] => p \in OwnersNow(o)

\* "If the project is deleted, consider all files deleted as well": the owners have no
\* access to the files of a project whose last row, of those read, retracts it.
DeletedProjectsAreRevoked ==
  AtRest => \A o \in KnownProjects :
    (LastRow(o) \in 1..molecule_projects_dataset_offset /\ ~IsListed(o)) =>
      \A p \in OwnersNow(o), f \in Files : <<p, f>> \notin access[o]
=============================================================================
