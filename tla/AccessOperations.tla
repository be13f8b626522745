-------------------------- MODULE AccessOperations --------------------------
(***************************************************************************)
(* From owners and datasets to permissions: the pure part of applying      *)
(* access, for one OCL.  An access is a pair of a person's account and a   *)
(* dataset of the project.  All access levels give the Maintainer role, so *)
(* an account either has access or has none.                               *)
(*                                                                         *)
(* A batch of operations is kept by its effect: the pairs it ends up       *)
(* setting and the pairs it ends up unsetting.  The code emits operations  *)
(* dataset by dataset, in four loops, and the last one on a pair wins.     *)
(***************************************************************************)
EXTENDS Integers

CONSTANTS People,    \* the owners of accounts
          Files,     \* the versioned files of a project
          DataRoom,  \* the core datasets: data room and announcements, always alike
          Levels     \* the access levels in use

ASSUME DataRoomAssumption == DataRoom \notin Files
ASSUME LevelsAssumption == Levels \subseteq {"public", "holder", "admin", "admin_2"}

Datasets == Files \cup {DataRoom}
Access == SUBSET (People \X Datasets)
Operations == [set : Access, unset : Access]
ProjectDatasetIds == [core : SUBSET {DataRoom}, owner : SUBSET Files,
                      holder : SUBSET Files, removed : SUBSET Files]

NoOperations == [set |-> {}, unset |-> {}]

\* A plausible slip: whoever lost one share of the project is revoked, though
\* they are an owner by another.
RevokedWithoutSanityCheck(current_owners, revoke_access_accounts) == revoke_access_accounts

\* account_access_sanity_checks: who is an owner now is never revoked.
Revoked(current_owners, revoke_access_accounts) == revoke_access_accounts \ current_owners

\* partition_dataset_id_by_molecule_access_level.
ForHolders(level) == level \in {"public", "holder"}
ForOwners(level) == level \in {"admin", "admin_2"}

\* get_project_dataset_ids: everything the bridge knows of the project.
GetProjectDatasetIds(actual_files_map, removed_files_map) ==
  [core    |-> {DataRoom},
   owner   |-> {f \in DOMAIN actual_files_map : ForOwners(actual_files_map[f])},
   holder  |-> {f \in DOMAIN actual_files_map : ForHolders(actual_files_map[f])},
   removed |-> removed_files_map]

\* A plausible slip: the removed files come first, so that the others win.
BuildOperationsRemovedFirst(ids, owners, revoked) ==
  LET live == ids.core \cup ids.owner \cup ids.holder
      set  == (owners \X live) \ (revoked \X live)
  IN  [set   |-> set,
       unset |-> ((revoked \X live) \cup ((owners \cup revoked) \X ids.removed)) \ set]

\* Owners get, the others lose; removed files come last and nobody keeps them.
BuildOperations(ids, owners, revoked) ==
  LET live  == ids.core \cup ids.owner \cup ids.holder
      unset == (revoked \X live) \cup ((owners \cup revoked) \X ids.removed)
  IN  [set |-> (owners \X live) \ unset, unset |-> unset]

\* A plausible slip: the second batch is put before the first.
ExtendAtFront(first, second) ==
  [set   |-> (second.set \ first.unset) \cup first.set,
   unset |-> (second.unset \ first.set) \cup first.unset]

\* One batch after another.
Extend(first, second) ==
  [set   |-> (first.set \ second.unset) \cup second.set,
   unset |-> (first.unset \ second.set) \cup second.unset]

\* What the node's accesses are after a batch.
Apply(access, operations) == (access \ operations.unset) \cup operations.set
=============================================================================
