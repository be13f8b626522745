# Verification of the kamu-molecule-bridge

The bridge is one long-running process between a blockchain and a Kamu node. It follows who
owns the OCL tokens of a LabNFT contract (and who stands behind the Safe wallets among the
owners), reads from the node which projects and files belong to which OCL, and sets the
accounts' access to the files' datasets accordingly. This directory holds TLA+ models of that
program, TLC configurations that check them on small instances, and TLAPS proofs.

Paths below are relative to the repository; `app.rs` is `src/app/bridge/src/app.rs`.

## 1. The system

### Components

| component | state | operations | properties that make it correct |
|---|---|---|---|
| Ownership projection (`molecule_ocl`) | per OCL: current owner, previous owners | `apply_events`, `compress_events`, `apply_transfer` | the projection is the contract's state; the reported differences are net changes; no owner is forgotten |
| Main loop and indexing (`App::init`, `App::update`, `App::indexing`) | `latest_indexed_block_number`, the projection map | initial run, one iteration, skip, process end | no transfer is missed, repeated or taken before it is final; every final block is reached |
| Safe wallet tracking (`App::get_owners`, `App::index_multisig_safes`, Safe API client) | the map `multisig`: address -> nothing, or current and former owners | first question (API + logs), later questions, replay of owner logs | two sources read at different blocks do not corrupt the owner set; nobody treated as an owner is lost |
| Log fetching (`alloy_ext::provider_ext`) | the ranges still to visit | windows of addresses, halving of refused ranges | every block once and in order; the call ends |
| Project loading (`App::load_molecule_projects`, node queries) | offsets, per project its actual and removed files | new rows of the ledger of projects, batches of data rooms, access levels | no row is passed over; a file's last row decides; rooms are read to the end |
| Access application (`initial_access_applying`, `interval_access_applying`, `build_operations`) | `ocl_changes_map`; the accesses and accounts in the node | operations of one OCL, applied in the node | owners and members of owning Safes get access, others do not, former ones lose it |
| Kamu node client (transport) | - | one GraphQL or SQL request, retries | a batch of relations is applied; an answer is complete up to its row limit |
| HTTP server, start-up, configuration, metrics | - | read a copy of the state | - |

### How they interact

`App::main` calls `init` and then `update` for ever, sleeping in between; everything runs in
one task, so the program itself has no data race. Its concurrency is with the world: the chain
grows and finalizes, Safes change owners, people edit data rooms and levels, all between any
two requests. `update` reads the finalized block, replays `OclTransfer` logs (and owner logs
of the known Safes) up to it, loads project changes from the node, joins both into
`ocl_changes_map`, and applies the operations of one OCL after another. `get_owners` is called
while operations are built. Nothing is persisted: any error ends `main`, the deployment starts the
process again, and it begins from the contract's birth block. The accesses in the node survive.

### Hard behaviours

- *Sources read at different times*: the finalized block is read before the logs, the Safe API
  answers as of the head, project rows are read after the indexing they are joined with,
  data rooms in several concurrent queries after the rows of projects, levels last.
- *Answers that are cut*: an SQL answer holds no more than `MAX_SQL_QUERY_LIMIT` rows, and nothing
  says that there were more.
- *Process ends between two steps*, e.g. when some OCLs of a batch have been applied.
- *Order within a batch*: several transfers of an OCL; a person behind the old and the new
  owner; a file removed and re-added; several operations on one account and dataset.
- *Borders*: ranges of blocks, offsets of ledgers, single-block ranges that are refused.
- *Caches that are never refreshed*: an address taken for a regular wallet, files filtered by
  the rows of the last load.
- *Accounts*: only some of the paths that grant access create the accounts first.
- *Liveness*: the skip of an iteration leaves a block for later, a cut answer leaves rows for later,
  and projects are loaded only by iterations that find new blocks.

`PROJECT.json` lists each hazard at its line, with the properties that cover it.

## 2. Modules

```
OclOwnership  <-- OwnershipIndexing  --implements-->  LedgerMirror
     ^            OclOwnershipProofs, OwnershipIndexingProofs, MCOwnershipIndexing
     |
AccessGranting --> ProjectLoading --> AccessOperations        (MCAccessGranting)
     |                  ^             AccessGrantingProofs <-- AccessRightsProofs
     |                  |             ProjectLoadingProofs <-- both loading and access proofs
     |            LedgerLoading                               (MCLedgerLoading)
     |                                LedgerLoadingProofs
     v
MultisigWallets <-- MultisigTracking                          (MultisigTrackingProofs)
LogFetching                                                   (LogFetchingProofs)
```

**OclOwnership** translates the `molecule_ocl` crate as operators on batches of events.
`previous` is a set (`apply_transfer` never stores an owner twice).

**OwnershipIndexing** composes it with the chain and the main loop. The chain's actions
(`MineTransfer`, `MineOther`, `Finalize`) are the world. `StartInit`/`StartUpdate` read the
finalized block; `InitState`, `Update` and `SkipUpdate` do the rest of an iteration; `Crash` is
any error. A block holds at most one transfer, which loses nothing: transfers of one block are
blocks finalized by one step.

**LedgerMirror** is the abstract specification of an indexer: its view is the ledger's state at
one settled block, and the position only moves forward until a restart from nothing.

**MultisigWallets** and **MultisigTracking** model the wallet map, `get_owners` and the scan of
owner logs, one log at a time. A Safe API answer is the owner set at any block from the finalized
one to the head. `Panic` is the `unreachable!()` of the scan.

**AccessOperations** (pure) keeps a batch of operations by its effect: the accesses it ends up
setting and unsetting. **ProjectLoading** (pure) is the processing of one project's rows.

**AccessGranting** is the whole bridge: contract, Safes, ledgers and node on one side, `init` and
`update` step by step on the other. Indexing is taken at the level `LedgerMirror` promises. The
members of Safes are a sequence of owner logs (`safe_logs`) of which a prefix is final; as in
`MultisigTracking` the API answers from any position from the final one to the head, and logs are
replayed up to the final one. `OwnerChanges` joins transfers with changed Safes as `App::indexing`
does. `InitialAccessApplying` and `IntervalAccessApplying` apply one OCL at a time, so a crash
falls between any two; what `get_owners` learns on the way stays in `multisig`. `created` holds the
people this process has called `create_wallet_accounts` for.

**LedgerLoading** is one load in detail, for the questions `AccessGranting` cannot ask as it has a
load happen at once. `ReadProjects` takes the new rows of the ledger of projects and lays out the
batches (the new rows' rooms, then the known ones in any order; rooms that do not exist are left
out). `AnswerBatch` is one query's answer, in any order and with the ledger as it is then, sorted
by room and offset and cut at the limit. `ProcessProjects` folds the answers in any order of the
batches, processes known projects, then new ones, and moves the offsets. `FailBatch` is a query
about a dataset deleted meanwhile. `folded` and `reported` record what came out. `InOrder` (a set of
numbers as a sequence) is a definition of its own because the library's `SetToSortSeq` rests on an
operator the proof system has no definition of.

**LogFetching** is `get_logs_ext` with `binary_get_logs`; its recursion is the queue of ranges
it still has to visit, leftmost first.

Variables and actions carry the code's names; `PROJECT.json` maps every definition to its lines.

### Abstractions

- The head of the chain is not reorganized and the Safe API is never behind the finalized block.
- A project's data room and files belong to its OCL alone. The data room and the announcements
  are always treated alike and are one dataset, `DataRoom`.
- A correction of a row is one row (`Correct`); the code treats its two rows alike.
- In `AccessGranting` a load happens at one instant (`LedgerLoading` is about the rest), Safes are
  deployed from the start, and an iteration that is skipped is a step of nothing. A block holds at
  most one owner log; blocks without one are not told apart, so the block `get_owners` is asked
  for may or may not hold the first new log.
- In `LedgerLoading` an OCL is named by the place of its room in the order of dataset ids. Levels
  are read in the step that processes the rows: only the program's own computation lies between.
  The cap of four concurrent queries is left out, as any number may be answered in any order.
- The owner scan replays logs block by block. `get_logs_ext` delivers them window of addresses by
  window, in order within each (`ChunksAreContiguous`), so the logs of one Safe come in the order
  the models take them in; those of different Safes do not meet.
- All access levels give the same role, so an account has access to a dataset or has none.
- A batch of relations is applied by the node as a whole.
- Left out: `ignore_ocl_ids` (a constant filter on projects), dry run, all formatting and I/O.

## 3. What the runs check

| run | shows | bounds |
|---|---|---|
| `ownership` | the projection is the contract's state at the indexed block, previous owners are justified, nobody is forgotten, diffs are net changes, the indexer implements `LedgerMirror`, and every block before a final one is eventually indexed | 2 addresses, 1 crash; 2 OCLs in 4 blocks, 1 OCL in 5 |
| `multisig` | tracked owners are never older than the scan, meet the chain once it reaches the API's block; former owners are justified; nobody reported is lost | 1 wallet, 2 people, 6 blocks, 1 crash |
| `multisig_former`, `multisig_panic` (violated) | see findings | 5 blocks |
| `access` | access goes only to indexed owners that have an account, follows the members of the owning Safe, is taken from former owners and from removed files; added files are opened | 3 addresses (one a Safe), 2 people, 2 files, 2 levels, 1 crash; 1 OCL and 3 events, or 2 OCLs, 1 event and 2 owner logs |
| `access_files`, `access_new_project`, `access_restart`, `access_deleted` (violated) | see findings | 1 OCL, no owner logs |
| `loading` | no row of a known room is passed over, positions do not go back, what is handed on of a file is what the ledger says, rooms are read to their end, projects in place become known | 2 OCLs, 1 file, 3 rows at first, 2 events, 1 crash; 2 rooms a query, 2 rows an answer |
| `loading_skipped` (violated) | see findings | as `loading` |
| `log_fetching` | blocks are delivered once and in order, success is complete, the call ends | 9 blocks, 2 windows |

*Why these bounds suffice.* Ownership: an OCL can leave its owner and return within one batch
and across iterations, which takes five blocks; another OCL is transferred in between in four; a
restart can fall anywhere. Safes: deployment, two owner changes, an API answer ahead of the
scan and two further iterations fit in six blocks; wallets do not interact, so one is enough.
Ranges: nine blocks are halved four times, in unequal parts.

*Access.* `MCAccessGranting` takes two corners. In the first one OCL is in use: the initial state
already has any owner, a listed project, one row in its room and any levels, and three events on
top make a transfer there and back, a listing with a retraction, or a file added, retracted and
added again, each with a crash in between. In the second both OCLs are, with the same Safe or
other addresses behind them, two changes of Safes and one event, so that an OCL is transferred to
or from a Safe whose members change, and a Safe first met because of one OCL changes the accesses
of the other. OCLs, plain addresses and files are symmetric, and only safety properties are
checked there.

*Loading.* With two rows an answer, a room of three rows is cut by itself, by a room that comes
before it, and by its own copy; with two rooms a query, a load that finds a new row of a known
project has two queries, about the same room. `MCLedgerLoading` fixes the room of the first OCL
to one row at first: its part is to be there before the other.

*Exclusions.* `ReportsAgreeWithLedger` leaves out files in `unleveled` (no level stored when their
row was read), rooms in `cut` (a full scan lost rows of them) and retracted projects;
`ProjectsInPlaceAreLoaded` leaves out deleted rooms and the load whose full scan of the room brings
none of its rows (`LostAllRows`), not one that brings some of them: a project whose room is cut
after its first row must become known. Each exclusion is needed: without it TLC finds the case. A
full scan that is cut may lose all rows of a new project, which is skipped then; or it ends before
the rows that the same load reads of a known room from its position on, and a retraction from before
the gap outlives the row in the gap that took it back; or its answer is folded last and takes the
position back (`PositionsMoveForward` leaves out `cut` too). With a limit of 10 000 rows and 128
rooms a query both need very large rooms, so no finding is made of them.

Deadlock is not checked: the models stop when their bounds are used up (`LogFetching` when the
call has returned).

*Fairness.* `ownership` assumes `WF_vars(Program)`: the process's loop goes on taking steps and the
deployment starts it again after it died. `App::main` is a loop around a sleep with no way out but
an error, and the service runs as a Kubernetes deployment. The `loading` runs assume
`WF_vars(Load)`: loads go on, and a query is answered or fails. That is the same loop, provided
that the chain goes on too, since an iteration without new final blocks returns before it loads
(`app.rs:224`). The world gets no fairness, and the number of crashes is bounded in every run; a
query fails only when a dataset was deleted since its room was resolved.

*Mutants.* For each property `PROJECT.json` names a changed definition ("a plausible slip" in
the modules) under which TLC finds the property violated.

### Findings

The `violation` runs state what the repository says and the code does not do:

1. `multisig_former`: a Safe first met in an iteration is asked for up to the iteration's *first*
   block (`app.rs:258`), though the scan has passed its last one; owners removed in between are
   never former owners.
2. `multisig_panic`: an address is cached as a regular wallet for good; once a Safe is deployed
   there, its logs reach `unreachable!()` (`app.rs:413`).
3. `access_files`: the `retain` of the actual files (`app.rs:575`) keeps the removed ones and drops
   the others; later transfers pass the dropped files by.
4. `access_new_project`: a project listed while the bridge runs gets operations on files only
   (`app.rs:806`); its owners get no access to the data room.
5. `access_restart`: a restart does not revoke the previous owners of an OCL, contrary to
   `README.md:100`: the initial batch leaves none. (Former owners of a Safe and removed files are
   found again at a start, and revoked.)
6. `access_deleted`: the row that retracts a project is skipped, because the project's data room
   has been taken out of the map (`app.rs:630`); its files stay accessible, against
   `CHANGELOG.md:46`. `MembersKeepTheRoom` follows the code here: it speaks of retracted projects
   as of the others.
7. `loading_skipped`: the position moves past the row of a project that is skipped
   (`app.rs:619`), so one listed before its first file is added is never known.

Two smaller remarks. The skip of an iteration (`app.rs:220`) leaves exactly one final block when it
says that there are none; `CatchesUp` shows that it is read by a later one. `GrantsGoToAccounts`
holds for projects known since the start; for one listed while the bridge runs, the operations
on files may be the first to mention its owners, whose accounts nobody has created.

## 4. What is proved

All proofs are for arbitrary values of the constants: any OCLs, addresses, wallets and people, any
limits of queries, any bounds on blocks, events and crashes. They assume only the named ASSUMEs of
the modules, discussed at the end of this section.

**OclOwnershipProofs**: what `ApplyTransfer`, `CompressEvents` and `ApplyEvents` return for every
batch and projection.

**OwnershipIndexingProofs**: `TypeOK`, `CurrentIsOnChainOwner`, `PreviousLostTheToken`,
`NoServedOwnerForgotten`, `DiffIsNetChange`, and the refinement of `LedgerMirror`. The properties
are not inductive alone. The invariant adds *LastTransferDecides* (between any two blocks an
OCL's owner is the receiver of its last transfer, or unchanged), which links the fold over the
logs to the contract's state, and *StartsFromBirth* (a process that has not finished its initial
run knows nothing).

**MultisigTrackingProofs**: `TypeOK`, `TrackedOwnersAreRecent`, `TrackedOwnersConverge`,
`FormerOwnersWereRemoved`, `NoReportedOwnerForgotten`. The invariant adds *OwnersFollowLogs* (each
block changes the owners as its log says), *UnknownUnreported* and *NothingKnownAtStart*.
Convergence follows from recency: with the snapshot behind the scan only the scanned block is left
as a witness, for every person.

**LogFetchingProofs**: `TypeOK`, `ChunksAreContiguous`, `SuccessIsComplete`,
`WorkIsBounded` and `WorkShrinks`, hence termination. The invariant adds
*RangesTileTheRest* (the ranges to visit follow one another from the block reached to the end;
this is what contiguity needs) and *WindowsFollow*. Its last conjunct bounds their number by the
blocks left, without which the measure could go below zero.

**ProjectLoadingProofs**: the operators both kinds of proofs need. What a batch of operations does to one
person and one dataset (`BuildOperationsEffect`), that `Extend` joins batches as if they were applied one after
the other, what `ProcessNew` and `ProcessExisting` hand on and keep, and that a data room whose
files are retracted and corrected only when they are there (*IsKept*) has no file both added and removed.

**LedgerLoadingProofs**: `TypeOK`, `NoRowIsSkipped`, `PositionsMoveForward`, `ReportsAgreeWithLedger`.
- *Operators first.* What `InOrder` and the flattening of the answers return, and *AnswerIs*: an answer
  cut at the limit that has a row of a room has every row from the offset asked for up to it.
- *Positions.* The invariant *AnswersAreWhole*: with a row, an answer has the rows of its room from
  the first one up to it, or those from the known position on; in the first case, all up to the
  known position as well, unless the room is in `cut`. It holds because rooms are asked for
  from 1 or from the position after the known one, and positions change only when the answers
  are dropped. The last row read is the end of such a stretch, hence nothing before it is
  missing.
- *Reports.* `ReportsAgreeWithLedger` speaks of rooms that were read to the end, which an
  invariant cannot start from. *ReportsFollow* says it of every file none of whose rows is
  beyond the position. *ReadingAgrees* carries it through a load: in rows that come in such
  stretches, in any order of the stretches, the last row of a file is the last one read of it
  (*LastRowIsReadLast*), and a row that takes a retraction back is read after it, since it
  lies in the same stretch or in one that is folded later. A new row lies beyond the position,
  so its file is not judged until it is read.

**AccessGrantingProofs**: `TypeOK`, `GrantsOnlyToOwners`, `AddedFilesAreGranted`. The type invariant needs
*Shape*: what may be there in which phase, that changes of files wait for known projects only, and that the
owner a waiting change names is the indexed one, which makes the two ways of asking for the owners agree.

**AccessRightsProofs**: `FormerOwnersLoseTheRoom`, `MembersKeepTheRoom`, `OnlyMembersHaveTheRoom`,
`GrantsGoToAccounts`, `RemovedFilesAreRevoked`. Those properties speak of the moments at which no change waits;
the invariants say what holds while some do, in four layers, each inductive given those before:
1. *WalletsAreRecent*: what is known of a wallet is, person by person, the truth at some position from
   the indexed one to the head.
2. *RoomsOK*: whoever was given access is or was behind an address the projection lists, and is known to
   be (revoking asks about exactly those); of them only owners have the core datasets, or,
   while a change of owners waits, the members of its two addresses; owners of projects known since the
   start have them already, and accounts.
3. *AllRowsOK*: removed files are among those every batch of operations takes away, and a
   file waiting to be given was not removed, unless its removal waits too.
4. *FilesOK*: a removed file is out of reach, or its removal waits.

*Assumptions.* `RegularAssumption`, `NoChangeAssumption`, `NoLevelAssumption`: an absent value is none
of the values it stands beside. `DataRoomAssumption`, `LevelsAssumption`: the data room is no file, and
levels are those the code knows. `BoundsAssumption`: bounds are numbers. `SafesAssumption`: an address that is no Safe is a person.
`OclIdsAssumption`: there are finitely many OCLs, so that answers and the initial ledgers are finite;
in `LedgerLoading` they are the places of their rooms in the order of dataset ids. `LimitsAssumption`: a query may have a row and a room. Each
holds of the program, whose collections are finite and whose limits are positive constants.

*Only model-checked*: `CatchesUp`, `KnownRoomsAreReadToTheEnd` and `ProjectsInPlaceAreLoaded`. They are
liveness properties under fairness, outside the prover's reach. All invariants and action
properties the passing runs check are proved.

*Not modelled*: the HTTP server (reads a copy of the state), start-up, configuration and metrics
(no protocol state; a graceful shutdown drops the main loop wherever it waits, as `Crash` does), and
the transport of the node client (one request each; retries do not
change the effect of a batch).

## 5. Plan

In order:

1. An abstract specification of access (owners of the project, files by their last row) that
   `AccessGranting` implements for projects known since the start.
2. A theorem that relates `LedgerLoading` to the load of `AccessGranting`: with a ledger that
   stands still and no cut answer, both read the same files out of it.
3. A Safe API behind the finalized block: what the bridge can still promise then.
