--------------------------- MODULE LedgerLoading ---------------------------
(***************************************************************************)
(* How App::load_molecule_projects gets what ProjectLoading processes out  *)
(* of the node, query by query, while the ledgers go on growing: the rows  *)
(* of projects, then the data rooms in batches of concurrent SQL queries,  *)
(* each answered at a time of its own with no more than a number of rows,  *)
(* then the access levels.  AccessGranting has all of it happen at once.   *)
(*                                                                         *)
(* Rows of data rooms come back ordered by the room's dataset id; an OCL   *)
(* is named by the place of its room in that order.  The levels, whose     *)
(* queries concern one file each, are read in the step that processes      *)
(* what has been read: nothing but the program's own computation lies      *)
(* between.  ignore_ocl_ids is left out.                                   *)
(***************************************************************************)
EXTENDS ProjectLoading, SequencesExt

CONSTANTS OclIds,
          MAX_SQL_QUERY_LIMIT,   \* rows of an answer
          DATA_ROOM_BATCH_SIZE,  \* data rooms of a query
          MaxFirstRows,          \* bound: rows of a data room when the bridge is deployed
          MaxEvents,             \* bound: changes outside the program
          MaxCrashes             \* bound: times the process dies

ASSUME OclIdsAssumption == OclIds \subseteq Nat /\ IsFiniteSet(OclIds)
ASSUME LimitsAssumption == MAX_SQL_QUERY_LIMIT \in Nat \ {0} /\ DATA_ROOM_BATCH_SIZE \in Nat \ {0}
ASSUME BoundsAssumption == MaxFirstRows \in Nat /\ MaxEvents \in Nat /\ MaxCrashes \in Nat

VARIABLES
  on_chain,  \* the OCLs of on_chain_ocl_ownership_projection_map
  projects,  \* the node's ledger of projects
  rooms,     \* the ledger of every project's data room
  levels,    \* the access level of every file
  deleted,   \* the data rooms that were deleted by hand
  phase,     \* where load_molecule_projects is
  new_projects_entries,  \* the rows of projects this load has found
  data_rooms,            \* the data rooms this load asks for
  batch_results,         \* the answers so far, per batch
  off_chain_ocl_project_map,
  molecule_projects_dataset_offset,
  folded,     \* history: rows of data rooms this process has dealt with
  reported,   \* history: the last change of every file this process has handed on
  unleveled,  \* history: files left out for want of an access level
  cut,        \* history: rooms asked for from the start in a load that lost rows of them
  events,     \* history: changes outside the program
  crashes     \* history: how often the process died

worldVars == <<on_chain, projects, rooms, levels, deleted, events>>
loadVars == <<phase, new_projects_entries, data_rooms, batch_results>>
stateVars == <<off_chain_ocl_project_map, molecule_projects_dataset_offset>>
historyVars == <<folded, reported, unleveled, cut>>
vars == <<worldVars, loadVars, stateVars, historyVars, crashes>>

Known == DOMAIN off_chain_ocl_project_map

-----------------------------------------------------------------------------
(* The ledgers, and the contract between two loads (outside the program). *)

Event == events < MaxEvents /\ events' = events + 1
NodeEvent == Event /\ UNCHANGED <<on_chain, loadVars, stateVars, historyVars, crashes>>

RowsOf(o) == {i \in DOMAIN projects : projects[i].ocl_id = o}
IsListed(o) == RowsOf(o) # {} /\ projects[Max(RowsOf(o))].op = "Append"

\* A project is listed and retracted by turns.
ChangeProjects ==
  /\ NodeEvent
  /\ \E o \in OclIds :
       projects' = Append(projects, [op |-> IF IsListed(o) THEN "Retract" ELSE "Append", ocl_id |-> o])
  /\ UNCHANGED <<rooms, levels, deleted>>

\* A file is added when the room lacks it, retracted or corrected when it has it.
CanFollow(rows, row) == row.op = "Append" <=> row.file \notin AddedEntities(rows, 1)

ChangeRoom ==
  /\ NodeEvent
  /\ \E o \in OclIds, row \in [op : RowOps, file : Files] :
       /\ o \notin deleted
       /\ CanFollow(rooms[o], row)
       /\ rooms' = [rooms EXCEPT ![o] = Append(@, row)]
  /\ UNCHANGED <<projects, levels, deleted>>

SetLevel ==
  /\ NodeEvent
  /\ \E o \in OclIds, f \in Files, l \in Levels :
       levels[o][f] # l /\ levels' = [levels EXCEPT ![o][f] = l]
  /\ UNCHANGED <<projects, rooms, deleted>>

\* Datasets can be deleted by hand.  A file that is gone has no level.
DeleteDataset ==
  /\ NodeEvent
  /\ \/ \E o \in OclIds \ deleted : deleted' = deleted \cup {o} /\ UNCHANGED levels
     \/ \E o \in OclIds, f \in Files :
          /\ levels[o][f] # NoLevel
          /\ levels' = [levels EXCEPT ![o][f] = NoLevel]
          /\ UNCHANGED deleted
  /\ UNCHANGED <<projects, rooms>>

\* An iteration indexes the contract before it loads.
IndexOcl ==
  /\ Event
  /\ phase = "idle"
  /\ \E o \in OclIds \ on_chain : on_chain' = on_chain \cup {o}
  /\ UNCHANGED <<projects, rooms, levels, deleted, loadVars, stateVars, historyVars, crashes>>

-----------------------------------------------------------------------------
(* load_molecule_projects. *)

\* A set of numbers as a sequence in their order.  (SetToSortSeq would do, but rests on an
\* operator that the proof system knows nothing of.)
InOrder(S) ==
  CHOOSE s \in [1..Cardinality(S) -> S] : \A i, j \in DOMAIN s : i < j => s[i] < s[j]

\* The first rows of an answer, as far as the limit goes.
Limited(rows) == {i \in rows : Cardinality({j \in rows : j < i}) < MAX_SQL_QUERY_LIMIT}

\* get_molecule_project_entries: from an offset on, the last two rows of each.
MoleculeProjectEntries(offset) ==
  Limited({i \in offset..Len(projects) :
             Cardinality({j \in RowsOf(projects[i].ocl_id) : j > i}) < 2})

FullScan(o) == [room |-> o, offset |-> 1]
NextRow(o) == [room |-> o, offset |-> off_chain_ocl_project_map[o].latest_data_room_offset + 1]

\* A plausible slip: known rooms are only asked for when there are new projects.
DataRoomsWithNewOnes(entries, existing) ==
  [k \in DOMAIN entries |-> FullScan(projects[entries[k]].ocl_id)]
    \o (IF entries = <<>> THEN <<>> ELSE [k \in DOMAIN existing |-> NextRow(existing[k])])

\* What is asked for: the new rows' rooms, then those of the known projects in the
\* order of a hash map.
DataRooms(entries, existing) ==
  [k \in DOMAIN entries |-> FullScan(projects[entries[k]].ocl_id)]
    \o [k \in DOMAIN existing |-> NextRow(existing[k])]

\* A plausible slip: rooms are asked for whether they exist or not.
Unresolved(requests) == requests

\* resolve_datasets: a room that does not exist is not asked for.
Resolved(requests) ==
  LET kept == InOrder({k \in DOMAIN requests : requests[k].room \notin deleted})
  IN  [i \in DOMAIN kept |-> requests[kept[i]]]

ReadProjects ==
  /\ phase = "idle"
  /\ phase' = "reading"
  /\ new_projects_entries' = MoleculeProjectEntries(molecule_projects_dataset_offset + 1)
  /\ data_rooms' \in {Resolved(DataRooms(InOrder(new_projects_entries'), existing)) :
                        existing \in SetToSeqs(Known)}
  /\ batch_results' = <<>>
  /\ UNCHANGED <<worldVars, stateVars, historyVars, crashes>>

\* math::ranges::sub_ranges: every batch but the last has the full size.
BatchOf(k) == 1 + (k - 1) \div DATA_ROOM_BATCH_SIZE
Batches == {BatchOf(k) : k \in DOMAIN data_rooms}

\* query_versioned_file_batch: UNION ALL, ordered by room and offset.  A room asked
\* for twice has its rows twice.
MatchingRows(b) ==
  {row \in UNION {{<<o, i, k>> : i \in DOMAIN rooms[o], k \in DOMAIN data_rooms} : o \in OclIds} :
     LET request == data_rooms[row[3]]
     IN  BatchOf(row[3]) = b /\ request.room = row[1] /\ request.offset <= row[2]}

Before(r1, r2) == r1[1] < r2[1] \/ (r1[1] = r2[1] /\ r1[2] < r2[2])

FirstRows(rows) ==
  {<<row[1], row[2]>> :
     row \in {r \in rows : Cardinality({q \in rows : Before(q, r)}) < MAX_SQL_QUERY_LIMIT}}

\* The rooms a batch scans in full.
FullScans(b) ==
  {o \in OclIds : \E k \in DOMAIN data_rooms : BatchOf(k) = b /\ data_rooms[k] = FullScan(o)}

\* A batch with a room that was deleted after it was resolved fails.
Failing(b) == \E k \in DOMAIN data_rooms : BatchOf(k) = b /\ data_rooms[k].room \in deleted
Pending == Batches \ DOMAIN batch_results

AnswerBatch ==
  /\ phase = "reading"
  /\ \E b \in {b \in Pending : ~Failing(b)} : \E rows \in {MatchingRows(b)} :
       /\ batch_results' = [c \in DOMAIN batch_results \cup {b} |->
                              IF c = b THEN FirstRows(rows) ELSE batch_results[c]]
       /\ cut' = cut \cup {o \in FullScans(b) :
                             rooms[o] # <<>> /\ <<o, Len(rooms[o])>> \notin batch_results'[b]}
  /\ UNCHANGED <<worldVars, phase, new_projects_entries, data_rooms, stateVars,
                 folded, reported, unleveled, crashes>>

\* The offsets of a room's rows in an answer.
OffsetsIn(b, o) == InOrder({i \in DOMAIN rooms[o] : <<o, i>> \in batch_results[b]})

\* What has been read of every room, batch by batch, for every order the batches can be
\* done in.
RowsAsTheyCome ==
  {[o \in OclIds |-> FlattenSeq([k \in DOMAIN order |-> OffsetsIn(order[k], o)])] :
     order \in SetToSeqs(Batches)}

\* A plausible slip: the room's length stands for what has been read of it.
VersionedFilesEntriesToTheEnd(o, offsets) ==
  [VersionedFilesEntries([k \in DOMAIN offsets |-> rooms[o][offsets[k]]], 1)
     EXCEPT !.latest_data_room_offset = Len(rooms[o])]

\* A plausible slip: the first row that is folded is taken for the last.
VersionedFilesEntriesFromTheFirst(o, offsets) ==
  [VersionedFilesEntries([k \in DOMAIN offsets |-> rooms[o][offsets[k]]], 1)
     EXCEPT !.latest_data_room_offset = offsets[1]]

\* get_versioned_files_entries_by_data_rooms: the rows folded as they come, and the
\* offset of the last.
VersionedFilesEntriesOf(o, offsets) ==
  [VersionedFilesEntries([k \in DOMAIN offsets |-> rooms[o][offsets[k]]], 1)
     EXCEPT !.latest_data_room_offset = offsets[Len(offsets)]]

\* The rows of a project that this load has found.
FoundRowsOf(o) == RowsOf(o) \cap new_projects_entries

\* A plausible slip: a new project's room is left for later when the answer was cut.
EntriesMapOfWholeRooms(read) ==
  [o \in {o \in OclIds : /\ read[o] # <<>>
                         /\ \/ o \in Known
                            \/ /\ o \in on_chain
                               /\ FoundRowsOf(o) # {}
                               /\ Len(rooms[o]) \in Range(read[o])} |->
     VersionedFilesEntriesOf(o, read[o])]

\* Known projects come first and take what was found of their rooms; then the first
\* row of a new one that is on chain.  Other rows find nothing left, and are skipped.
EntriesMap(read) ==
  [o \in {o \in OclIds : /\ read[o] # <<>>
                         /\ o \in Known \/ (o \in on_chain /\ FoundRowsOf(o) # {})} |->
     VersionedFilesEntriesOf(o, read[o])]

Processed(o, entries) ==
  IF o \in Known THEN ProcessExisting(off_chain_ocl_project_map[o], entries, levels[o])
  ELSE ProcessNew(projects[Min(FoundRowsOf(o))].op, entries, levels[o])

\* What the changes of a file come to: its removal comes last.
Report(changes, f, before) ==
  IF [file |-> f, change |-> Removed] \in changes THEN "removed"
  ELSE IF \E c \in changes : c.file = f THEN "added"
  ELSE before

ProcessProjects ==
  /\ phase = "reading"
  /\ Pending = {}
  /\ phase' = "idle"
  /\ \E read \in RowsAsTheyCome : \E entries \in {EntriesMap(read)} :
       LET done == [o \in DOMAIN entries |-> Processed(o, entries[o])]
       IN  /\ off_chain_ocl_project_map' =
                [o \in Known \cup DOMAIN done |->
                   IF o \in DOMAIN done THEN done[o].project ELSE off_chain_ocl_project_map[o]]
           /\ folded' =
                [o \in OclIds |->
                   IF o \in DOMAIN done THEN folded[o] \cup Range(read[o]) ELSE folded[o]]
           /\ reported' =
                [o \in OclIds |->
                   IF o \in DOMAIN done
                   THEN [f \in Files |-> Report(done[o].changes, f, reported[o][f])]
                   ELSE reported[o]]
           /\ unleveled' =
                [o \in OclIds |->
                   IF o \in DOMAIN done
                   THEN unleveled[o] \cup {f \in entries[o].added_entities : levels[o][f] = NoLevel}
                   ELSE unleveled[o]]
  /\ molecule_projects_dataset_offset' =
       Max({molecule_projects_dataset_offset} \cup new_projects_entries)
  /\ new_projects_entries' = {}
  /\ data_rooms' = <<>>
  /\ batch_results' = <<>>
  /\ UNCHANGED <<worldVars, cut, crashes>>

\* The process starts over with App::init.
Restart ==
  /\ phase' = "idle"
  /\ new_projects_entries' = {}
  /\ data_rooms' = <<>>
  /\ batch_results' = <<>>
  /\ off_chain_ocl_project_map' = [o \in {} |-> 0]
  /\ molecule_projects_dataset_offset' = 0
  /\ folded' = [o \in OclIds |-> {}]
  /\ reported' = [o \in OclIds |-> [f \in Files |-> "none"]]
  /\ unleveled' = [o \in OclIds |-> {}]
  /\ cut' = {}
  /\ UNCHANGED worldVars

\* A failed query ends the process, as any error does.
FailBatch ==
  /\ phase = "reading"
  /\ \E b \in Pending : Failing(b)
  /\ Restart
  /\ UNCHANGED crashes

Crash ==
  /\ crashes < MaxCrashes
  /\ crashes' = crashes + 1
  /\ Restart

-----------------------------------------------------------------------------
FirstRooms ==
  {rows \in UNION {[1..n -> [op : RowOps, file : Files]] : n \in 0..MaxFirstRows} :
     \A i \in DOMAIN rows : CanFollow(SubSeq(rows, 1, i - 1), rows[i])}

\* The node may be in use when the bridge is deployed.
Init ==
  /\ on_chain \in SUBSET OclIds
  /\ projects \in SetToAllKPermutations([op : {"Append"}, ocl_id : OclIds])
  /\ rooms \in [OclIds -> FirstRooms]
  /\ levels \in [OclIds -> [Files -> Levels \cup {NoLevel}]]
  /\ deleted = {}
  /\ phase = "idle"
  /\ new_projects_entries = {}
  /\ data_rooms = <<>>
  /\ batch_results = <<>>
  /\ off_chain_ocl_project_map = [o \in {} |-> 0]
  /\ molecule_projects_dataset_offset = 0
  /\ folded = [o \in OclIds |-> {}]
  /\ reported = [o \in OclIds |-> [f \in Files |-> "none"]]
  /\ unleveled = [o \in OclIds |-> {}]
  /\ cut = {}
  /\ events = 0
  /\ crashes = 0

World == ChangeProjects \/ ChangeRoom \/ SetLevel \/ DeleteDataset \/ IndexOcl
Load == ReadProjects \/ AnswerBatch \/ FailBatch \/ ProcessProjects

Next == World \/ Load \/ Crash

Spec == Init /\ [][Next]_vars

\* The main loop loads again and again, as long as new blocks keep coming; every query
\* is answered, or the process ends.
FairSpec == Spec /\ WF_vars(Load)

-----------------------------------------------------------------------------
(* Properties *)

\* Every variable has the shape the program gives it, and positions are those of rows.
TypeOK ==
  /\ on_chain \subseteq OclIds
  /\ projects \in Seq([op : ProjectOps, ocl_id : OclIds])
  /\ rooms \in [OclIds -> Rows]
  /\ levels \in [OclIds -> [Files -> Levels \cup {NoLevel}]]
  /\ deleted \subseteq OclIds
  /\ phase \in {"idle", "reading"}
  /\ new_projects_entries \subseteq (molecule_projects_dataset_offset + 1)..Len(projects)
  /\ data_rooms \in Seq([room : OclIds, offset : Nat \ {0}])
  /\ DOMAIN batch_results \subseteq Batches
  /\ \A b \in DOMAIN batch_results : \A row \in batch_results[b] : row[2] \in DOMAIN rooms[row[1]]
  /\ Known \subseteq on_chain
  /\ \A o \in Known : /\ off_chain_ocl_project_map[o] \in Projections
                      /\ off_chain_ocl_project_map[o].latest_data_room_offset \in DOMAIN rooms[o]
  /\ molecule_projects_dataset_offset \in 0..Len(projects)
  /\ folded \in [OclIds -> SUBSET Nat]
  /\ reported \in [OclIds -> [Files -> {"none", "added", "removed"}]]
  /\ unleveled \in [OclIds -> SUBSET Files]
  /\ cut \subseteq OclIds
  /\ events \in 0..MaxEvents
  /\ crashes \in 0..MaxCrashes

Position(o) == off_chain_ocl_project_map[o].latest_data_room_offset

\* However answers are cut and in whatever order they come: no row of a known project's
\* data room is passed over, the next load starts behind rows that were all folded.
NoRowIsSkipped == \A o \in Known : 1..Position(o) \subseteq folded[o]

\* The next load never begins before the last one did, whichever answer is folded last and
\* though a room may be read from the start again; except for a room whose full scan was cut,
\* the end of which may lie before what was read of it already.
PositionsMoveForward ==
  [][\A o \in (Known \cap Known') \ cut : Position(o)' >= Position(o)]_vars

\* Once a room has been read to its end, what the bridge has last handed on of each file
\* is what the ledger says, with rows read twice, out of order or in several loads;
\* except for files whose level was missing when their row was read, and rooms whose
\* full scan was cut.
ReportsAgreeWithLedger ==
  \A o \in Known \ cut :
    (Position(o) = Len(rooms[o]) /\ off_chain_ocl_project_map[o].op = "Append") =>
      \A f \in Files :
        IF f \in AddedEntities(rooms[o], 1)
        THEN reported[o][f] = "added" \/ f \in unleveled[o]
        ELSE reported[o][f] # "added"

\* A known project's room is read to its end in the end, however few rows an answer has
\* and whatever other room is deleted.
KnownRoomsAreReadToTheEnd ==
  \A o \in OclIds : <>[](o \in Known \ deleted => Position(o) = Len(rooms[o]))

HasUnreadRow(o) == \E i \in RowsOf(o) : i > molecule_projects_dataset_offset
InPlace(o) == phase = "idle" /\ o \in on_chain /\ rooms[o] # <<>>

\* A load that has all its answers asked for all of a room's rows and got none of them.
LostAllRows(o) ==
  /\ phase = "reading"
  /\ Pending = {}
  /\ \E b \in Batches : o \in FullScans(b)
  /\ \A b \in Batches : \A row \in batch_results[b] : row[1] # o

\* A project becomes known if it is on chain and its room has rows before the project's
\* own row is read, however few of them an answer has, unless the load that reads that
\* row gets none of them at all, or the room is deleted.
ProjectsInPlaceAreLoaded ==
  \A o \in OclIds :
    (InPlace(o) /\ HasUnreadRow(o)) ~> (o \in Known \cup deleted \/ LostAllRows(o))

-----------------------------------------------------------------------------
(* A claim of the documentation that the code does not keep. *)

\* "Loading versioned files associated with projects (via data-rooms)": a project on
\* chain whose room has rows becomes known.
ListedProjectsAreLoaded ==
  \A o \in OclIds : (InPlace(o) /\ IsListed(o)) ~> (o \in Known \cup deleted)
=============================================================================
