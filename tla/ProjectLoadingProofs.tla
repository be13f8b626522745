------------------------ MODULE ProjectLoadingProofs ------------------------
(***************************************************************************)
(* What the pure part of the bridge computes, for every ledger, every      *)
(* project and every batch of operations: who gets and who loses what, and *)
(* what a load makes of the rows it has read.                              *)
(***************************************************************************)
EXTENDS ProjectLoading, FiniteSetTheorems, WellFoundedInduction, TLAPS

-----------------------------------------------------------------------------
(* Numbers of rows. *)

LessThan == {pair \in Nat \X Nat : pair[1] < pair[2]}

\* A set of row numbers has a first one.
LEMMA LeastNumber ==
  ASSUME NEW S \in SUBSET Nat, S # {}
  PROVE  \E m \in S : \A k \in S : m <= k
<1>1. IsWellFoundedOn(LessThan, Nat)
  BY NatLessThanWellFounded, Zenon DEF OpToRel, LessThan
<1>2. PICK m \in S : \A k \in S : <<k, m>> \notin LessThan
  BY <1>1, WFMin
<1>3. \A k, n \in Nat : k < n => <<k, n>> \in LessThan
  BY DEF LessThan
<1>4. \A k \in S : ~ k < m
  BY <1>2, <1>3
<1> QED BY <1>4

\* A set of row numbers that has a bound has a last one.
LEMMA GreatestNumber ==
  ASSUME NEW n \in Nat, NEW S \in SUBSET (0..n), S # {}
  PROVE  \E m \in S : \A k \in S : k <= m
<1> DEFINE rest == {n - k : k \in S}
<1>1. rest \in SUBSET Nat /\ rest # {}
  <2>1. \A k \in S : n - k \in Nat
    OBVIOUS
  <2> QED BY <2>1
<1>2. PICK r \in rest : \A k \in rest : r <= k
  BY <1>1, LeastNumber
<1>3. PICK m \in S : r = n - m
  OBVIOUS
<1>4. \A k \in S : n - m <= n - k
  BY <1>2, <1>3
<1> QED BY <1>4

-----------------------------------------------------------------------------
(* Operations. *)

Live(ids) == ids.core \cup ids.owner \cup ids.holder

\* build_operations, access by access: owners get what is there, unless it was removed
\* or they are revoked; the revoked lose it, and nobody of either keeps a removed file.
LEMMA BuildOperationsEffect ==
  ASSUME NEW ids, NEW owners, NEW revoked, NEW p, NEW d
  PROVE  LET operations == BuildOperations(ids, owners, revoked)
         IN  /\ <<p, d>> \in operations.set <=>
                  p \in owners \ revoked /\ d \in Live(ids) \ ids.removed
             /\ <<p, d>> \in operations.unset <=>
                  \/ p \in revoked /\ d \in Live(ids)
                  \/ p \in owners \cup revoked /\ d \in ids.removed
BY DEF BuildOperations, Live

\* The operations concern the datasets and the people they are built for.
LEMMA BuildOperationsType ==
  ASSUME NEW ids \in ProjectDatasetIds, NEW owners \in SUBSET People,
         NEW revoked \in SUBSET People
  PROVE  BuildOperations(ids, owners, revoked) \in Operations
BY DEF BuildOperations, ProjectDatasetIds, Operations, Access, Datasets

\* Nothing but accesses of the people named is ever set.
LEMMA BuildOperationsSets ==
  ASSUME NEW ids, NEW owners, NEW revoked
  PROVE  \A pair \in BuildOperations(ids, owners, revoked).set :
           /\ pair[1] \in owners
           /\ pair = <<pair[1], pair[2]>>
BY DEF BuildOperations

\* Extend joins two batches as if they were applied one after the other.
LEMMA ExtendComposes ==
  ASSUME NEW a, NEW first, NEW second
  PROVE  Apply(a, Extend(first, second)) = Apply(Apply(a, first), second)
BY DEF Apply, Extend

LEMMA ExtendType ==
  ASSUME NEW first \in Operations, NEW second \in Operations
  PROVE  Extend(first, second) \in Operations
BY DEF Extend, Operations, Access

LEMMA ApplyType ==
  ASSUME NEW a \in Access, NEW operations \in Operations
  PROVE  Apply(a, operations) \in Access
BY DEF Apply, Operations, Access

LEMMA NoOperationsType == NoOperations \in Operations
BY DEF NoOperations, Operations, Access

LEMMA GetProjectDatasetIdsType ==
  ASSUME NEW project \in Projections
  PROVE  GetProjectDatasetIds(project.actual_files_map, project.removed_files_map)
           \in ProjectDatasetIds
<1>1. project.actual_files_map \in FilesMaps /\ project.removed_files_map \in SUBSET Files
  BY DEF Projections
<1>2. DOMAIN project.actual_files_map \subseteq Files
  BY <1>1 DEF FilesMaps
<1> QED BY <1>1, <1>2 DEF GetProjectDatasetIds, ProjectDatasetIds

-----------------------------------------------------------------------------
(* Rows. *)

LEMMA EntitiesType ==
  ASSUME NEW rows, NEW from
  PROVE  AddedEntities(rows, from) \subseteq Files /\ RemovedEntities(rows, from) \subseteq Files
BY DEF AddedEntities, RemovedEntities

LevelMaps == [Files -> Levels \cup {NoLevel}]

LEMMA AddedWithLevelType ==
  ASSUME NEW added \in SUBSET Files, NEW levels \in LevelMaps
  PROVE  AddedWithLevel(added, levels) \in FilesMaps
<1>1. {f \in added : levels[f] # NoLevel} \in SUBSET Files
  OBVIOUS
<1>2. \A f \in {f \in added : levels[f] # NoLevel} : levels[f] \in Levels
  BY DEF LevelMaps
<1>3. AddedWithLevel(added, levels) \in [{f \in added : levels[f] # NoLevel} -> Levels]
  BY <1>2 DEF AddedWithLevel
<1> QED BY <1>1, <1>3 DEF FilesMaps

LEMMA EntriesChangesType ==
  ASSUME NEW op, NEW added \in SUBSET Files, NEW removed \in SUBSET Files,
         NEW levels \in LevelMaps
  PROVE  EntriesChanges(op, added, removed, levels) \in ChangedFiles
BY DEF EntriesChanges, ChangedFiles, LevelMaps

LEMMA ActualFilesType ==
  ASSUME NEW files \in FilesMaps, NEW added \in SUBSET Files, NEW removed \in SUBSET Files,
         NEW levels \in LevelMaps
  PROVE  ActualFiles(files, added, removed, levels) \in FilesMaps
<1> DEFINE fresh == AddedWithLevel(added, levels)
           kept == DOMAIN files \cap removed
<1>1. PICK ds \in SUBSET Files : files \in [ds -> Levels]
  BY DEF FilesMaps
<1>2. PICK gs \in SUBSET Files : fresh \in [gs -> Levels]
  BY AddedWithLevelType DEF FilesMaps
<1>3. ActualFiles(files, added, removed, levels)
        = [f \in kept \cup DOMAIN fresh |-> IF f \in DOMAIN fresh THEN fresh[f] ELSE files[f]]
  BY DEF ActualFiles
<1> HIDE DEF fresh
<1>4. \A f \in kept \cup DOMAIN fresh :
        (IF f \in DOMAIN fresh THEN fresh[f] ELSE files[f]) \in Levels
  BY <1>1, <1>2
<1>5. kept \cup DOMAIN fresh \in SUBSET Files
  BY <1>1, <1>2
<1>6. ActualFiles(files, added, removed, levels) \in [kept \cup DOMAIN fresh -> Levels]
  BY <1>3, <1>4
<1> QED BY <1>5, <1>6 DEF FilesMaps

LEMMA LevelChangesType ==
  ASSUME NEW op, NEW files \in FilesMaps, NEW levels \in LevelMaps
  PROVE  LevelChanges(op, files, levels) \in ChangedFiles
<1>1. DOMAIN files \subseteq Files
  BY DEF FilesMaps
<1> QED BY <1>1 DEF LevelChanges, ChangedFiles, LevelMaps

\* What a load knows of a data room: an offset and the files added and removed.
IsRead(read) ==
  /\ read.latest_data_room_offset \in Nat
  /\ read.added_entities \subseteq Files
  /\ read.removed_entities \subseteq Files

LEMMA ProcessNewType ==
  ASSUME NEW op \in ProjectOps, NEW read, IsRead(read), NEW levels \in LevelMaps
  PROVE  /\ ProcessNew(op, read, levels).project \in Projections
         /\ ProcessNew(op, read, levels).changes \in ChangedFiles
<1>1. AddedWithLevel(read.added_entities, levels) \in FilesMaps
  BY AddedWithLevelType DEF IsRead
<1>2. EntriesChanges(op, read.added_entities, read.removed_entities, levels) \in ChangedFiles
  BY EntriesChangesType DEF IsRead
<1> QED BY <1>1, <1>2 DEF ProcessNew, Projections, IsRead

LEMMA ProcessExistingType ==
  ASSUME NEW project \in Projections, NEW read, IsRead(read), NEW levels \in LevelMaps
  PROVE  /\ ProcessExisting(project, read, levels).project \in Projections
         /\ ProcessExisting(project, read, levels).changes \in ChangedFiles
<1> DEFINE actual == ActualFiles(project.actual_files_map, read.added_entities,
                                 read.removed_entities, levels)
<1>1. actual \in FilesMaps
  BY ActualFilesType DEF IsRead, Projections
<1>2. EntriesChanges(project.op, read.added_entities, read.removed_entities, levels)
        \in ChangedFiles
  BY EntriesChangesType DEF IsRead
<1> HIDE DEF actual
<1>3. LevelChanges(project.op, actual, levels) \in ChangedFiles
  BY <1>1, LevelChangesType
<1>4. ProcessExisting(project, read, levels).project =
        [op |-> project.op, latest_data_room_offset |-> read.latest_data_room_offset,
         actual_files_map |-> actual,
         removed_files_map |-> project.removed_files_map \cup read.removed_entities]
  BY DEF ProcessExisting, actual
<1>5. ProcessExisting(project, read, levels).changes =
        EntriesChanges(project.op, read.added_entities, read.removed_entities, levels)
          \cup LevelChanges(project.op, actual, levels)
  BY DEF ProcessExisting, actual
<1>6. ProcessExisting(project, read, levels).changes \in ChangedFiles
  BY <1>2, <1>3, <1>5 DEF ChangedFiles
<1>7. ProcessExisting(project, read, levels).project \in Projections
  BY <1>1, <1>4 DEF Projections, IsRead
<1> QED BY <1>6, <1>7

-----------------------------------------------------------------------------
(* What a load hands on. *)

\* A load of rows is handed on faithfully: every file the rows removed is reported as
\* removed, and a file is reported with a level only if the rows added it, or next to
\* its removal.
IsHandedOn(read, changes) ==
  /\ \A f \in read.removed_entities : [file |-> f, change |-> Removed] \in changes
  /\ \A c \in changes : c.change # Removed =>
       \/ c.file \in read.added_entities
       \/ [file |-> c.file, change |-> Removed] \in changes

LEMMA EntriesChangesHandOn ==
  ASSUME NEW op, NEW read, NEW levels
  PROVE  IsHandedOn(read, EntriesChanges(op, read.added_entities, read.removed_entities, levels))
BY DEF IsHandedOn, EntriesChanges

LEMMA ProcessNewHandsOn ==
  ASSUME NEW op, NEW read, NEW levels
  PROVE  /\ IsHandedOn(read, ProcessNew(op, read, levels).changes)
         /\ read.removed_entities \subseteq ProcessNew(op, read, levels).project.removed_files_map
BY EntriesChangesHandOn DEF ProcessNew

LEMMA ProcessExistingHandsOn ==
  ASSUME NEW project, NEW read, NEW levels
  PROVE  /\ IsHandedOn(read, ProcessExisting(project, read, levels).changes)
         /\ read.removed_entities \cup project.removed_files_map
              \subseteq ProcessExisting(project, read, levels).project.removed_files_map
<1> DEFINE added == read.added_entities
           removed == read.removed_entities
           actual == ActualFiles(project.actual_files_map, added, removed, levels)
           of_rows == EntriesChanges(project.op, added, removed, levels)
           of_levels == LevelChanges(project.op, actual, levels)
<1>1. ProcessExisting(project, read, levels).changes = of_rows \cup of_levels
  BY DEF ProcessExisting
<1>2. DOMAIN actual \subseteq removed \cup added
  BY DEF ActualFiles, AddedWithLevel
<1>3. \A c \in of_levels : c.file \in DOMAIN actual
  BY DEF LevelChanges
<1>4. IsHandedOn(read, of_rows)
  BY EntriesChangesHandOn
<1>5. IsHandedOn(read, of_rows \cup of_levels)
  <2> HIDE DEF actual, of_rows, of_levels
  <2> QED BY <1>2, <1>3, <1>4 DEF IsHandedOn
<1>6. ProcessExisting(project, read, levels).project.removed_files_map
        = project.removed_files_map \cup removed
  BY DEF ProcessExisting
<1> QED BY <1>1, <1>5, <1>6

-----------------------------------------------------------------------------
(* Ledgers of data rooms. *)

\* After a row that retracts a file, the next one of that file appends it.
IsKept(rows) ==
  \A r, i \in 1..Len(rows) :
    r < i /\ rows[r].op = "Retract" /\ rows[i].file = rows[r].file =>
      \E j \in (r + 1)..i : rows[j].op = "Append" /\ rows[j].file = rows[r].file

\* A ledger stays so when a row is added to it that retracts or corrects a file only
\* if the file is there.
LEMMA KeptAppend ==
  ASSUME NEW rows \in Rows, IsKept(rows), NEW row \in [op : RowOps, file : Files],
         row.op # "Append" => row.file \in AddedEntities(rows, 1)
  PROVE  IsKept(Append(rows, row))
<1> DEFINE n == Len(rows)
           longer == Append(rows, row)
<1>1. n \in Nat /\ Len(longer) = n + 1 /\ longer[n + 1] = row
        /\ \A i \in 1..n : longer[i] = rows[i]
  BY DEF Rows
<1> SUFFICES ASSUME NEW r \in 1..(n + 1), NEW i \in 1..(n + 1), r < i,
                    longer[r].op = "Retract", longer[i].file = longer[r].file
             PROVE  \E j \in (r + 1)..i : /\ longer[j].op = "Append"
                                          /\ longer[j].file = longer[r].file
  BY <1>1 DEF IsKept
<1>2. r \in 1..n /\ rows[r] = longer[r]
  BY <1>1
<1>3. CASE i \in 1..n
  BY <1>1, <1>2, <1>3 DEF IsKept
<1>4. CASE i = n + 1 /\ row.op = "Append"
  BY <1>1, <1>2, <1>4
<1>5. CASE i = n + 1 /\ row.op # "Append"
  <2>1. PICK k \in 1..n : /\ rows[k].file = row.file
                          /\ \A j \in k..n : rows[j].file = row.file => rows[j].op # "Retract"
    BY <1>1, <1>5 DEF AddedEntities
  <2>2. rows[r].file = row.file /\ rows[r].op = "Retract"
    BY <1>1, <1>2, <1>5
  <2>3. r < k
    BY <2>1, <2>2, <1>1, <1>2
  <2>4. PICK j \in (r + 1)..k : rows[j].op = "Append" /\ rows[j].file = rows[r].file
    BY <2>1, <2>2, <2>3, <1>2 DEF IsKept
  <2>5. j \in (r + 1)..i /\ longer[j] = rows[j]
    BY <2>4, <2>1, <1>1, <1>2, <1>5
  <2> QED BY <2>4, <2>5, <1>2
<1> QED BY <1>1, <1>3, <1>4, <1>5

\* What a ledger has removed is not what any of its last rows have added.
LEMMA AddedIsNotRemoved ==
  ASSUME NEW rows \in Rows, IsKept(rows), NEW from \in Nat, from >= 1
  PROVE  AddedEntities(rows, from) \cap RemovedEntities(rows, 1) = {}
<1> SUFFICES ASSUME NEW f \in AddedEntities(rows, from), f \in RemovedEntities(rows, 1)
             PROVE  FALSE
  OBVIOUS
<1>0. Len(rows) \in Nat
  BY DEF Rows
<1>1. PICK i \in from..Len(rows) :
        /\ rows[i].file = f
        /\ \A j \in i..Len(rows) : rows[j].file = f => rows[j].op # "Retract"
  BY DEF AddedEntities
<1>2. PICK r \in 1..Len(rows) :
        /\ rows[r] = [op |-> "Retract", file |-> f]
        /\ \A j \in r..Len(rows) : rows[j].file = f => rows[j].op # "Append"
  BY DEF RemovedEntities
<1>3. r < i
  BY <1>0, <1>1, <1>2
<1>4. PICK j \in (r + 1)..i : rows[j].op = "Append" /\ rows[j].file = f
  BY <1>0, <1>1, <1>2, <1>3 DEF IsKept
<1> QED BY <1>0, <1>1, <1>2, <1>4

\* What a ledger has removed was removed by its first rows, or by the others.
LEMMA RemovedInParts ==
  ASSUME NEW rows \in Rows, NEW m \in 0..Len(rows)
  PROVE  RemovedEntities(rows, 1)
           \subseteq RemovedEntities(SubSeq(rows, 1, m), 1) \cup RemovedEntities(rows, m + 1)
<1> DEFINE first == SubSeq(rows, 1, m)
<1> SUFFICES ASSUME NEW f \in RemovedEntities(rows, 1), f \notin RemovedEntities(rows, m + 1)
             PROVE  f \in RemovedEntities(first, 1)
  OBVIOUS
<1>1. Len(rows) \in Nat /\ Len(first) = m /\ \A i \in 1..m : first[i] = rows[i]
  BY DEF Rows
<1>2. PICK r \in 1..Len(rows) :
        /\ rows[r] = [op |-> "Retract", file |-> f]
        /\ \A j \in r..Len(rows) : rows[j].file = f => rows[j].op # "Append"
  BY DEF RemovedEntities
<1>3. f \in Files
  BY DEF RemovedEntities
<1>4. r \in 1..m
  BY <1>1, <1>2, <1>3 DEF RemovedEntities
<1> HIDE DEF first
<1>5. \A j \in r..m : first[j].file = f => first[j].op # "Append"
  BY <1>1, <1>2, <1>4
<1> QED BY <1>1, <1>2, <1>3, <1>4, <1>5 DEF RemovedEntities

\* A ledger that has grown is the same up to any position it already had.
LEMMA PrefixOfGrown ==
  ASSUME NEW rows \in Rows, NEW row \in [op : RowOps, file : Files], NEW m \in 0..Len(rows)
  PROVE  SubSeq(Append(rows, row), 1, m) = SubSeq(rows, 1, m)
BY DEF Rows
=============================================================================
