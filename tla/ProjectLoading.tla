--------------------------- MODULE ProjectLoading ---------------------------
(***************************************************************************)
(* How the bridge reads a project's files out of the node's ledgers: the   *)
(* pure part of App::load_molecule_projects, for one project.              *)
(*                                                                         *)
(* A ledger is a sequence of rows that only grows, and an offset is the    *)
(* number of a row (0 is the absent offset).  The two rows of a correction *)
(* are one row here, as both are treated alike.                            *)
(***************************************************************************)
EXTENDS AccessOperations, Sequences

CONSTANTS NoLevel,  \* a file whose access level is not stored
          Removed   \* the change of a file nobody may access any more

ASSUME NoLevelAssumption == NoLevel \notin Levels /\ Removed \notin Levels

RowOps == {"Append", "Retract", "Correct"}
Rows == Seq([op : RowOps, file : Files])
ProjectOps == {"Append", "Retract"}
FilesMaps == UNION {[fs -> Levels] : fs \in SUBSET Files}
Projections == [op : ProjectOps, latest_data_room_offset : Nat,
                actual_files_map : FilesMaps, removed_files_map : SUBSET Files]
ChangedFiles == SUBSET [file : Files, change : Levels \cup {Removed}]

-----------------------------------------------------------------------------
(* VersionedFilesEntries: what the rows from an offset on amount to. *)

\* The files left added: not retracted after the row that added them.
AddedEntities(rows, from) ==
  {f \in Files : \E i \in from..Len(rows) :
     /\ rows[i].file = f
     /\ \A j \in i..Len(rows) : rows[j].file = f => rows[j].op # "Retract"}

\* The files left removed: not appended again after the row that retracted them.
RemovedEntities(rows, from) ==
  {f \in Files : \E i \in from..Len(rows) :
     /\ rows[i] = [op |-> "Retract", file |-> f]
     /\ \A j \in i..Len(rows) : rows[j].file = f => rows[j].op # "Append"}

\* build_added_file_entries_with_molecule_access_level_map: files without a level
\* are left out.
AddedWithLevel(added, levels) ==
  [f \in {f \in added : levels[f] # NoLevel} |-> levels[f]]

\* A plausible slip: files that were removed are not reported.
EntriesChangesOfAdded(op, added, removed, levels) ==
  {[file |-> f, change |-> IF op = "Retract" THEN Removed ELSE levels[f]] :
     f \in {f \in added : levels[f] # NoLevel}}

\* prepare_changes_based_on_changed_versioned_files_entries: a deleted project's
\* files count as removed.
EntriesChanges(op, added, removed, levels) ==
  {[file |-> f, change |-> IF op = "Retract" THEN Removed ELSE levels[f]] :
     f \in {f \in added : levels[f] # NoLevel}}
  \cup {[file |-> f, change |-> Removed] : f \in removed}

\* prepare_changes_based_on_changed_molecule_access_levels.
LevelChanges(op, actual_files_map, levels) ==
  {[file |-> f, change |-> IF op = "Retract" THEN Removed ELSE levels[f]] :
     f \in {f \in DOMAIN actual_files_map :
              levels[f] # NoLevel /\ (op = "Retract" \/ levels[f] # actual_files_map[f])}}

\* The actual files after a load.  The `retain` keeps the files of the rows'
\* removed_entities and drops every other one.
ActualFiles(actual_files_map, added, removed, levels) ==
  LET kept  == DOMAIN actual_files_map \cap removed
      fresh == AddedWithLevel(added, levels)
  IN  [f \in kept \cup DOMAIN fresh |->
         IF f \in DOMAIN fresh THEN fresh[f] ELSE actual_files_map[f]]

-----------------------------------------------------------------------------
\* What a load has read of one data room (VersionedFilesEntries).
VersionedFilesEntries(rows, from) ==
  [latest_data_room_offset |-> Len(rows),
   added_entities          |-> AddedEntities(rows, from),
   removed_entities        |-> RemovedEntities(rows, from)]

\* A project the bridge knows, when its data room has rows to read.
ProcessExisting(project, read, levels) ==
  LET added   == read.added_entities
      removed == read.removed_entities
      actual  == ActualFiles(project.actual_files_map, added, removed, levels)
  IN  [project |-> [op                      |-> project.op,
                    latest_data_room_offset |-> read.latest_data_room_offset,
                    actual_files_map        |-> actual,
                    removed_files_map       |-> project.removed_files_map \cup removed],
       changes |-> EntriesChanges(project.op, added, removed, levels)
                     \cup LevelChanges(project.op, actual, levels)]

\* A plausible slip: the offset of the row to read next is stored.
ProcessNewPastTheEnd(op, read, levels) ==
  [project |-> [op                      |-> op,
                latest_data_room_offset |-> read.latest_data_room_offset + 1,
                actual_files_map        |-> AddedWithLevel(read.added_entities, levels),
                removed_files_map       |-> read.removed_entities],
   changes |-> EntriesChanges(op, read.added_entities, read.removed_entities, levels)]

\* A project the bridge sees for the first time: a full scan of its data room.
ProcessNew(op, read, levels) ==
  [project |-> [op                      |-> op,
                latest_data_room_offset |-> read.latest_data_room_offset,
                actual_files_map        |-> AddedWithLevel(read.added_entities, levels),
                removed_files_map       |-> read.removed_entities],
   changes |-> EntriesChanges(op, read.added_entities, read.removed_entities, levels)]
=============================================================================
