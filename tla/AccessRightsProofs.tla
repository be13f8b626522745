------------------------- MODULE AccessRightsProofs -------------------------
(***************************************************************************)
(* Who has access when no change waits to be applied: the invariants of    *)
(* AccessGranting, each from what holds while changes are waiting.         *)
(*                                                                         *)
(* They come in layers, each proved inductive given those before: what is  *)
(* known of wallets, who was ever served, the core datasets, the files.    *)
(***************************************************************************)
EXTENDS AccessGrantingProofs

\* Whether a change of an OCL's owners waits to be applied; the files that wait.
OwnersPending(o) == o \in DOMAIN ocl_changes_map /\ ocl_changes_map[o].owner_changes # NoChange
FilesPending(o) == IF o \in DOMAIN ocl_changes_map THEN ocl_changes_map[o].changed_files ELSE {}

\* What the rows read of a data room have removed.
RemovedFiles(o) == RemovedEntities(ReadRows(o), 1)

\* What is known of a wallet is the truth, person by person, at some position from the
\* indexed one to the head.
WalletsAreRecent ==
  \A a \in DOMAIN multisig, p \in People :
    \E b \in indexed_logs..ChainHead : p \in CurrentBehind(multisig, a) <=> p \in OwnersAt(a, b)

\* Whoever was given access is or was behind an address that the projection lists for the
\* OCL, and is known to be: revoking reaches them.
ServedAreKnown(o) ==
  \A p \in served[o] : \E a \in OwnersAsked(o) \cap DOMAIN multisig : p \in EverBehind(multisig, a)

\* Of those who were given access, only owners have the core datasets; while a change of
\* owners is waiting, the members of both its addresses may.
RoomIsOwners(o) ==
  \A p \in served[o] : <<p, DataRoom>> \in access[o] =>
    IF OwnersPending(o)
    THEN LET change == ocl_changes_map[o].owner_changes
         IN  \E a \in {change.current_owner, change.former_owner} \ {NoOwner} :
               a \in DOMAIN multisig /\ p \in EverBehind(multisig, a)
    ELSE p \in OwnersNow(o)

\* The owners of a project known since the start are known, have the core datasets and
\* have accounts, unless a change of owners is waiting.
OwnersAreServed(o) ==
  o \in known_at_init /\ ~OwnersPending(o) =>
    /\ entries[o].current \in DOMAIN multisig
    /\ \A p \in CurrentOwners(multisig, o) : <<p, DataRoom>> \in access[o] /\ p \in created

RoomOK(o) == ServedAreKnown(o) /\ RoomIsOwners(o) /\ OwnersAreServed(o)
RoomsOK == \A o \in OclIds : RoomOK(o)

\* The ledgers of data rooms retract what is there only; a removed file is among those that
\* every batch of operations takes away; and a file that waits to be given is not one that
\* was removed, unless its removal waits too.
RowsOK(o) ==
  /\ IsKept(rooms[o])
  /\ o \in KnownProjects =>
       /\ RemovedFiles(o) \subseteq off_chain_ocl_project_map[o].removed_files_map
       /\ \A c \in FilesPending(o) : c.change # Removed =>
            \/ c.file \notin RemovedFiles(o)
            \/ [file |-> c.file, change |-> Removed] \in FilesPending(o)

\* Nobody who was given access has a removed file, nor has an owner if no change of owners
\* is waiting.
IsRevoked(o, f) ==
  /\ \A p \in served[o] : <<p, f>> \notin access[o]
  /\ \/ OwnersPending(o)
     \/ /\ entries[o].current \in DOMAIN multisig
        /\ \A p \in CurrentOwners(multisig, o) : <<p, f>> \notin access[o]

\* A removed file is out of reach already, or waits to be taken away: by the initial run,
\* or by an iteration.
RemovalOK(o, f) ==
  \/ phase = "granting" /\ o \notin known_at_init
  \/ [file |-> f, change |-> Removed] \in FilesPending(o)
  \/ IsRevoked(o, f)

AllRowsOK == \A o \in OclIds : RowsOK(o)
FilesOK == \A o \in KnownProjects : \A f \in RemovedFiles(o) : RemovalOK(o, f)

-----------------------------------------------------------------------------
(* Owner logs. *)

\* A log is the last of a person in a Safe, in a range of positions.
IsLastLog(s, p, range, i) ==
  i \in LogsOf(s, p, range) /\ \A j \in LogsOf(s, p, range) : j <= i

LEMMA LastLogExists ==
  ASSUME NEW s, NEW p, NEW n \in Nat, NEW range \in SUBSET (0..n), LogsOf(s, p, range) # {}
  PROVE  \E i : IsLastLog(s, p, range, i)
<1>1. LogsOf(s, p, range) \in SUBSET (0..n)
  BY DEF LogsOf
<1> QED BY <1>1, GreatestNumber DEF IsLastLog

\* The last log decides.
LEMMA LastLogDecides ==
  ASSUME NEW s, NEW p, NEW range \in SUBSET Int, NEW before, NEW i, IsLastLog(s, p, range, i)
  PROVE  IsOwnerAfter(s, p, range, before) <=> safe_logs[i].kind = "added"
<1>1. \A j \in LogsOf(s, p, range) : j \in Int
  BY DEF LogsOf
<1>2. \A j \in LogsOf(s, p, range) : (\A k \in LogsOf(s, p, range) : k <= j) => j = i
  BY <1>1 DEF IsLastLog
<1> QED BY <1>2 DEF IsOwnerAfter, IsLastLog

\* The logs up to a position, and those after it, decide together.
LEMMA OwnerAfterParts ==
  ASSUME NEW s, NEW p, NEW m \in Nat, NEW k \in 0..m, NEW before
  PROVE  IsOwnerAfter(s, p, 1..m, before)
           <=> IsOwnerAfter(s, p, (k + 1)..m, IsOwnerAfter(s, p, 1..k, before))
<1> DEFINE first == LogsOf(s, p, 1..k)
           later == LogsOf(s, p, (k + 1)..m)
           all == LogsOf(s, p, 1..m)
<1>1. all = first \cup later
  BY DEF LogsOf
<1>2. CASE later = {}
  BY <1>1, <1>2 DEF IsOwnerAfter
<1>3. CASE later # {}
  <2>1. (k + 1)..m \in SUBSET (0..m) /\ 1..m \in SUBSET Int /\ (k + 1)..m \in SUBSET Int
    OBVIOUS
  <2>2. PICK i : IsLastLog(s, p, (k + 1)..m, i)
    BY <1>3, <2>1, LastLogExists
  <2>3. IsLastLog(s, p, 1..m, i)
    BY <2>2 DEF IsLastLog, LogsOf
  <2> QED BY <2>1, <2>2, <2>3, LastLogDecides
<1> QED BY <1>2, <1>3

\* A person an indexing replays the logs of is an owner then if they are one at the
\* final position, or, if there are no logs of theirs, if they were one before.
LEMMA ReplayedOwners ==
  ASSUME TypeOK, NEW s \in Safes, NEW p \in People, NEW before
  PROVE  \/ IsOwnerAfter(s, p, NewLogs, before) <=> p \in OwnersAt(s, final_logs)
         \/ /\ LogsOf(s, p, NewLogs) = {}
            /\ IsOwnerAfter(s, p, NewLogs, before) = before
            /\ \A b \in indexed_logs..final_logs :
                 p \in OwnersAt(s, b) <=> p \in OwnersAt(s, final_logs)
<1>0. final_logs \in Nat /\ indexed_logs \in 0..final_logs
  BY DEF TypeOK, ChainHead
<1>1. \A b \in 0..final_logs :
        p \in OwnersAt(s, final_logs)
          <=> IsOwnerAfter(s, p, (b + 1)..final_logs, IsOwnerAfter(s, p, 1..b, p \in first_owners[s]))
  BY <1>0, OwnerAfterParts DEF OwnersAt
<1>2. CASE LogsOf(s, p, NewLogs) # {}
  <2>1. NewLogs \in SUBSET (0..final_logs) /\ NewLogs \in SUBSET Int
    BY <1>0 DEF NewLogs
  <2>2. PICK i : IsLastLog(s, p, NewLogs, i)
    BY <1>0, <1>2, <2>1, LastLogExists
  <2> QED BY <1>0, <1>1, <2>1, <2>2, LastLogDecides DEF NewLogs
<1>3. CASE LogsOf(s, p, NewLogs) = {}
  <2>1. IsOwnerAfter(s, p, NewLogs, before) = before
    BY <1>3 DEF IsOwnerAfter
  <2>2. ASSUME NEW b \in indexed_logs..final_logs
        PROVE  p \in OwnersAt(s, b) <=> p \in OwnersAt(s, final_logs)
    <3>1. LogsOf(s, p, (b + 1)..final_logs) = {}
      BY <1>0, <1>3 DEF LogsOf, NewLogs
    <3>2. b \in 0..final_logs
      BY <1>0
    <3> QED BY <1>1, <3>1, <3>2 DEF IsOwnerAfter, OwnersAt
  <2> QED BY <1>3, <2>1, <2>2
<1> QED BY <1>2, <1>3

\* Who is behind a known wallet after an indexing.
LEMMA IndexedBehind ==
  ASSUME TypeOK, NEW a \in DOMAIN multisig
  PROVE  /\ a \in DOMAIN IndexedWallets
         /\ a \notin ChangedMultisigs => IndexedWallets[a] = multisig[a]
         /\ a \in ChangedMultisigs =>
              /\ a \in Safes
              /\ CurrentBehind(multisig, a) = multisig[a].current_owners
              /\ FormerBehind(multisig, a) = multisig[a].former_owners
              /\ CurrentBehind(IndexedWallets, a) = Replayed(a).current_owners
              /\ FormerBehind(IndexedWallets, a) = Replayed(a).former_owners
<1>1. IsWallets(multisig) /\ IsWallets(IndexedWallets) /\ DOMAIN IndexedWallets = DOMAIN multisig
  BY IndexedWalletsType DEF TypeOK, IsWallets
<1>2. IndexedWallets[a] = IF a \in ChangedMultisigs THEN Replayed(a) ELSE multisig[a]
  BY DEF IndexedWallets
<1>3. ASSUME a \in ChangedMultisigs
      PROVE  a \in Safes
  <2>1. final_logs \in 0..ChainHead /\ indexed_logs \in Nat /\ ChainHead \in Nat
    BY DEF TypeOK, ChainHead
  <2>2. PICK i \in NewLogs : safe_logs[i].safe = a
    BY <1>3 DEF ChangedMultisigs
  <2> QED BY <2>1, <2>2, SafeLogType DEF NewLogs, SafeLog
<1>4. \A w : w \in MW!MultisigState => w # Regular
  BY RegularAssumption
<1>5. a \in ChangedMultisigs => multisig[a] # Regular /\ IndexedWallets[a] # Regular
  BY <1>1, <1>3, <1>4 DEF IsWallets
<1> QED BY <1>1, <1>2, <1>3, <1>5 DEF CurrentBehind, FormerBehind, MW!GetOwnersResponse

\* An indexing forgets nobody who was behind a wallet.
LEMMA NobodyIsForgotten ==
  ASSUME TypeOK, NEW a \in DOMAIN multisig
  PROVE  EverBehind(multisig, a) \subseteq EverBehind(IndexedWallets, a)
<1>1. CASE a \notin ChangedMultisigs
  BY <1>1, IndexedBehind, BehindSame
<1>2. CASE a \in ChangedMultisigs
  <2>0. TypeOK => final_logs \in 0..ChainHead /\ ChainHead \in Nat /\ indexed_logs \in Nat
    BY DEF TypeOK, ChainHead
  <2>1. NewLogs \in SUBSET (0..final_logs) /\ NewLogs \in SUBSET Int /\ final_logs \in Nat
    BY <2>0 DEF NewLogs
  <2>2. /\ EverBehind(multisig, a) = multisig[a].current_owners \cup multisig[a].former_owners
        /\ EverBehind(IndexedWallets, a) = Replayed(a).current_owners \cup Replayed(a).former_owners
        /\ multisig[a].current_owners \subseteq People
    BY <1>2, IndexedBehind DEF EverBehind, TypeOK, MW!MultisigState
  <2>3. ASSUME NEW p \in multisig[a].current_owners, p \notin Replayed(a).current_owners
        PROVE  p \in Replayed(a).former_owners
    <3>1. p \in People
      BY <2>2, <2>3
    <3>2. ~IsOwnerAfter(a, p, NewLogs, TRUE)
      BY <2>3, <3>1 DEF Replayed
    <3>3. LogsOf(a, p, NewLogs) # {}
      BY <3>2 DEF IsOwnerAfter
    <3>4. PICK i : IsLastLog(a, p, NewLogs, i)
      BY <2>1, <3>3, LastLogExists
    <3>5. i \in LogsOf(a, p, NewLogs) /\ safe_logs[i].kind # "added"
      BY <2>1, <3>2, <3>4, LastLogDecides DEF IsLastLog
    <3>6. i \in 1..ChainHead
      BY <2>0, <3>5 DEF LogsOf, NewLogs
    <3>7. safe_logs[i].kind = "removed"
      BY <3>5, <3>6, SafeLogType DEF SafeLog
    <3> QED BY <3>1, <3>5, <3>7 DEF Replayed
  <2>4. multisig[a].former_owners \subseteq Replayed(a).former_owners
    BY DEF Replayed
  <2> QED BY <2>2, <2>3, <2>4
<1> QED BY <1>1, <1>2

\* Who is behind an address at a position depends on the logs up to it only.
LEMMA OwnersAtKept ==
  ASSUME TypeOK, NEW a, NEW b \in 0..ChainHead, first_owners' = first_owners,
         safe_logs' = safe_logs \/ \E log : safe_logs' = Append(safe_logs, log)
  PROVE  OwnersAt(a, b)' = OwnersAt(a, b)
<1>1. \A i \in 1..b : safe_logs'[i] = safe_logs[i]
  <2>1. safe_logs \in Seq(SafeLog) /\ ChainHead = Len(safe_logs) /\ Len(safe_logs) \in Nat
    BY DEF TypeOK, SafeLog, ChainHead
  <2>2. \A i \in 1..b : i \in 1..Len(safe_logs)
    BY <2>1
  <2>3. \A log : \A i \in 1..Len(safe_logs) : Append(safe_logs, log)[i] = safe_logs[i]
    BY <2>1
  <2> QED BY <2>2, <2>3
<1>2. \A p : LogsOf(a, p, 1..b)' = LogsOf(a, p, 1..b)
  BY <1>1 DEF LogsOf
<1>3. \A p : \A i \in LogsOf(a, p, 1..b) : safe_logs'[i] = safe_logs[i]
  BY <1>1 DEF LogsOf
<1>4. \A p : IsOwnerAfter(a, p, 1..b, p \in first_owners[a])' <=> IsOwnerAfter(a, p, 1..b, p \in first_owners[a])
  BY <1>2, <1>3 DEF IsOwnerAfter
<1> QED BY <1>4 DEF OwnersAt

-----------------------------------------------------------------------------
(* What is known of wallets. *)

\* Nothing is learnt or forgotten while wallets, logs and the indexed position stay.
LEMMA WalletsStay ==
  ASSUME TypeOK, WalletsAreRecent, TypeOK',
         UNCHANGED <<multisig, indexed_logs, first_owners>>,
         safe_logs' = safe_logs \/ \E log : safe_logs' = Append(safe_logs, log)
  PROVE  WalletsAreRecent'
<1>1. ChainHead <= ChainHead' /\ ChainHead \in Nat /\ ChainHead' \in Nat /\ indexed_logs \in Nat
  <2>1. safe_logs \in Seq(SafeLog) /\ safe_logs' \in Seq(SafeLog)
    BY DEF TypeOK, SafeLog
  <2>2. \A log : Len(Append(safe_logs, log)) = Len(safe_logs) + 1
    BY <2>1
  <2>3. Len(safe_logs) \in Nat /\ Len(safe_logs') \in Nat
    BY <2>1
  <2> QED BY <2>2, <2>3 DEF ChainHead, TypeOK
<1>2. ASSUME NEW a \in DOMAIN multisig, NEW p \in People
      PROVE  \E b \in indexed_logs..ChainHead' :
               p \in CurrentBehind(multisig, a) <=> p \in OwnersAt(a, b)'
  <2>1. PICK b \in indexed_logs..ChainHead :
          p \in CurrentBehind(multisig, a) <=> p \in OwnersAt(a, b)
    BY DEF WalletsAreRecent
  <2>2. b \in 0..ChainHead /\ b \in indexed_logs..ChainHead'
    BY <1>1
  <2> QED BY <2>1, <2>2, OwnersAtKept
<1> QED BY <1>2 DEF WalletsAreRecent

LEMMA WalletsIndexed ==
  ASSUME TypeOK, WalletsAreRecent, multisig' = IndexedWallets, indexed_logs' = final_logs,
         UNCHANGED worldVars
  PROVE  WalletsAreRecent'
<1>0. final_logs \in 0..ChainHead /\ indexed_logs \in 0..final_logs /\ ChainHead \in Nat
  BY DEF TypeOK, ChainHead
<1>1. UNCHANGED <<first_owners, safe_logs>> /\ ChainHead' = ChainHead
  BY DEF worldVars, safeVars, ChainHead
<1>2. ASSUME NEW a \in DOMAIN multisig, NEW p \in People
      PROVE  \E b \in final_logs..ChainHead :
               p \in CurrentBehind(IndexedWallets, a) <=> p \in OwnersAt(a, b)
  <2>1. PICK b \in indexed_logs..ChainHead :
          p \in CurrentBehind(multisig, a) <=> p \in OwnersAt(a, b)
    BY DEF WalletsAreRecent
  <2>2. final_logs \in final_logs..ChainHead
    BY <1>0
  <2>3. CASE a \in ChangedMultisigs
    <3>1. /\ a \in Safes
          /\ p \in CurrentBehind(IndexedWallets, a)
               <=> IsOwnerAfter(a, p, NewLogs, p \in CurrentBehind(multisig, a))
      BY <2>3, IndexedBehind DEF Replayed
    <3>2. CASE p \in CurrentBehind(IndexedWallets, a) <=> p \in OwnersAt(a, final_logs)
      BY <2>2, <3>2
    <3>3. CASE /\ p \in CurrentBehind(IndexedWallets, a) <=> p \in CurrentBehind(multisig, a)
               /\ \A k \in indexed_logs..final_logs :
                    p \in OwnersAt(a, k) <=> p \in OwnersAt(a, final_logs)
      <4>1. b \in indexed_logs..final_logs \/ b \in final_logs..ChainHead
        BY <1>0
      <4> QED BY <2>1, <2>2, <3>3, <4>1
    <3>4. \/ IsOwnerAfter(a, p, NewLogs, p \in CurrentBehind(multisig, a))
               <=> p \in OwnersAt(a, final_logs)
          \/ /\ IsOwnerAfter(a, p, NewLogs, p \in CurrentBehind(multisig, a))
                  = (p \in CurrentBehind(multisig, a))
             /\ \A k \in indexed_logs..final_logs :
                  p \in OwnersAt(a, k) <=> p \in OwnersAt(a, final_logs)
      BY <3>1, ReplayedOwners
    <3> QED BY <3>1, <3>2, <3>3, <3>4
  <2>4. CASE a \notin ChangedMultisigs /\ a \in Safes
    <3>1. p \in CurrentBehind(IndexedWallets, a) <=> p \in CurrentBehind(multisig, a)
      BY <2>4, IndexedBehind, BehindSame
    <3>2. LogsOf(a, p, NewLogs) = {}
      BY <2>4 DEF LogsOf, ChangedMultisigs
    <3>3. (p \in OwnersAt(a, b) <=> p \in OwnersAt(a, final_logs)) \/ b \in final_logs..ChainHead
      <4>1. b \in indexed_logs..final_logs \/ b \in final_logs..ChainHead
        BY <1>0
      <4>2. b \in indexed_logs..final_logs => (p \in OwnersAt(a, b) <=> p \in OwnersAt(a, final_logs))
        BY <2>4, <3>2, ReplayedOwners DEF IsOwnerAfter
      <4> QED BY <4>1, <4>2
    <3> QED BY <2>1, <2>2, <3>1, <3>3
  <2>5. CASE a \notin Safes
    <3>1. multisig[a] = Regular /\ a \notin ChangedMultisigs
      BY <2>5, IndexedBehind DEF TypeOK
    <3>2. CurrentBehind(IndexedWallets, a) = OwnersAt(a, final_logs)
      BY <2>5, <3>1, IndexedBehind DEF CurrentBehind, MW!GetOwnersResponse, OwnersAt
    <3> QED BY <2>2, <3>2
  <2> QED BY <2>3, <2>4, <2>5
<1>3. DOMAIN IndexedWallets = DOMAIN multisig
  BY DEF IndexedWallets
<1>4. \A a, b : OwnersAt(a, b)' = OwnersAt(a, b)
  BY <1>1 DEF OwnersAt, IsOwnerAfter, LogsOf
<1> QED BY <1>1, <1>2, <1>3, <1>4 DEF WalletsAreRecent

LEMMA WalletsLearnt ==
  ASSUME TypeOK, WalletsAreRecent, NEW asked, Learns(asked), UNCHANGED <<worldVars, chainVars>>
  PROVE  WalletsAreRecent'
<1>0. final_logs \in 0..ChainHead /\ indexed_logs \in 0..final_logs /\ ChainHead \in Nat
  BY DEF TypeOK, ChainHead
<1>1. UNCHANGED <<first_owners, safe_logs, indexed_logs>> /\ ChainHead' = ChainHead
  BY DEF worldVars, safeVars, chainVars, ChainHead
<1>2. \A a, b : OwnersAt(a, b)' = OwnersAt(a, b)
  BY <1>1 DEF OwnersAt, IsOwnerAfter, LogsOf
<1>3. ASSUME NEW a \in DOMAIN multisig', NEW p \in People
      PROVE  \E b \in indexed_logs..ChainHead :
               p \in CurrentBehind(multisig', a) <=> p \in OwnersAt(a, b)
  <2>1. CASE a \in DOMAIN multisig
    BY <2>1, BehindSame DEF Learns, WalletsAreRecent
  <2>2. CASE a \notin DOMAIN multisig
    <3>1. PICK b \in final_logs..ChainHead : CurrentBehind(multisig', a) = OwnersAt(a, b)
      BY <2>2, <1>3 DEF Learns
    <3>2. b \in indexed_logs..ChainHead
      BY <1>0
    <3> QED BY <3>1, <3>2
  <2> QED BY <2>1, <2>2
<1> QED BY <1>1, <1>2, <1>3 DEF WalletsAreRecent

\* The steps of the bridge that ask for no wallets and index nothing.
LEMMA NothingIsAsked ==
  ASSUME InitLoading \/ Loading \/ InitDone \/ NoLoading \/ UpdateDone \/ UNCHANGED vars
  PROVE  UNCHANGED <<multisig, indexed_logs, first_owners, safe_logs>>
<1>1. CASE InitLoading \/ Loading
  BY <1>1 DEF InitLoading, Loading, worldVars, safeVars, chainVars
<1>2. CASE InitDone \/ NoLoading \/ UpdateDone
  BY <1>2 DEF InitDone, NoLoading, UpdateDone, worldVars, safeVars, chainVars
<1>3. CASE UNCHANGED vars
  BY <1>3 DEF vars, worldVars, safeVars, programVars, chainVars
<1> QED BY <1>1, <1>2, <1>3

LEMMA WalletsNext ==
  ASSUME TypeShape, TypeShape', WalletsAreRecent, [Next]_vars
  PROVE  WalletsAreRecent'
<1>0. TypeOK /\ TypeOK'
  BY DEF TypeShape
<1>1. CASE World \/ SafeWallets
  <2>1. WorldGrows
    BY <1>0, <1>1, WorldStep
  <2>2. UNCHANGED <<multisig, indexed_logs, first_owners>>
    BY <2>1 DEF WorldGrows, programVars, chainVars
  <2> QED BY <1>0, <2>1, <2>2, WalletsStay DEF WorldGrows
<1>2. CASE InitIndexing \/ Indexing
  BY <1>0, <1>2, WalletsIndexed DEF InitIndexing, Indexing
<1>3. CASE InitialAccessApplying
  <2>1. PICK o \in KnownProjects : Initially(o)
    BY <1>3, InitialStep
  <2> QED BY <1>0, <2>1, WalletsLearnt DEF Initially
<1>4. CASE IntervalAccessApplying
  <2>1. PICK o \in DOMAIN ocl_changes_map : InInterval(o)
    BY <1>4, IntervalStep
  <2>2. UNCHANGED <<worldVars, chainVars>>
    BY <2>1 DEF InInterval
  <2>3. CASE Learns(IntervalAsked(o, ocl_changes_map[o]))
    BY <1>0, <2>2, <2>3, WalletsLearnt
  <2>4. CASE multisig' = multisig
    <3>1. UNCHANGED <<multisig, indexed_logs, first_owners>> /\ safe_logs' = safe_logs
      BY <2>2, <2>4 DEF worldVars, safeVars, chainVars
    <3> QED BY <1>0, <3>1, WalletsStay
  <2> QED BY <2>1, <2>3, <2>4 DEF InInterval
<1>5. CASE InitLoading \/ Loading \/ InitDone \/ NoLoading \/ UpdateDone \/ UNCHANGED vars
  BY <1>0, <1>5, NothingIsAsked, WalletsStay
<1>6. CASE Crash
  BY <1>6 DEF Crash, Nothing, WalletsAreRecent
<1> QED BY <1>1, <1>2, <1>3, <1>4, <1>5, <1>6 DEF Next, AppInit, AppUpdate

LEMMA WalletsAreKept == Spec => [](TypeShape /\ WalletsAreRecent)
<1>1. Init => WalletsAreRecent
  BY DEF Init, Nothing, WalletsAreRecent
<1>2. TypeShape /\ TypeShape' /\ WalletsAreRecent /\ [Next]_vars => WalletsAreRecent'
  BY WalletsNext
<1> QED BY <1>1, <1>2, ShapeIsKept, PTL DEF Spec

-----------------------------------------------------------------------------
(* What a step does to the core datasets of one project. *)

\* A step that leaves a project alone, whatever it learns of wallets.
LeftAlone(o) ==
  /\ entries' = entries
  /\ served'[o] = served[o]
  /\ access'[o] = access[o]
  /\ DOMAIN multisig \subseteq DOMAIN multisig'
  /\ \A a \in DOMAIN multisig : multisig'[a] = multisig[a]
  /\ created \subseteq created'
  /\ o \in known_at_init' <=> o \in known_at_init
  /\ OwnersPending(o)' <=> OwnersPending(o)
  /\ OwnersPending(o) => ocl_changes_map'[o].owner_changes = ocl_changes_map[o].owner_changes

\* What is known of a wallet already stays while a project is left alone.
LEMMA OwnersNowKept ==
  ASSUME NEW o, entries' = entries, DOMAIN multisig \subseteq DOMAIN multisig',
         \A a \in DOMAIN multisig : multisig'[a] = multisig[a]
  PROVE  /\ \A a \in DOMAIN multisig : /\ CurrentBehind(multisig', a) = CurrentBehind(multisig, a)
                                       /\ EverBehind(multisig', a) = EverBehind(multisig, a)
         /\ OwnersNow(o) \subseteq OwnersNow(o)'
         /\ entries[o].current \in DOMAIN multisig =>
              CurrentOwners(multisig', o) = CurrentOwners(multisig, o)
<1>1. \A a \in DOMAIN multisig : /\ CurrentBehind(multisig', a) = CurrentBehind(multisig, a)
                                 /\ EverBehind(multisig', a) = EverBehind(multisig, a)
  BY BehindSame
<1>2. entries[o].current \in DOMAIN multisig =>
        CurrentOwners(multisig', o) = CurrentOwners(multisig, o)
  BY <1>1 DEF CurrentOwners
<1>3. CurrentOwners(multisig, o)' = CurrentOwners(multisig', o)
  BY DEF CurrentOwners
<1>4. OwnersNow(o) \subseteq OwnersNow(o)'
  BY <1>2, <1>3 DEF OwnersNow
<1> QED BY <1>1, <1>2, <1>4

LEMMA RoomLeftAlone ==
  ASSUME NEW o, RoomOK(o), LeftAlone(o)
  PROVE  RoomOK(o)'
<1>1. /\ \A a \in DOMAIN multisig : EverBehind(multisig', a) = EverBehind(multisig, a)
      /\ OwnersNow(o) \subseteq OwnersNow(o)'
      /\ entries[o].current \in DOMAIN multisig =>
           CurrentOwners(multisig', o) = CurrentOwners(multisig, o)
  BY OwnersNowKept DEF LeftAlone
<1>2. ServedAreKnown(o)'
  <2>1. OwnersAsked(o)' = OwnersAsked(o)
    BY DEF OwnersAsked, LeftAlone
  <2> QED BY <1>1, <2>1 DEF RoomOK, ServedAreKnown, LeftAlone
<1>3. RoomIsOwners(o)'
  <2>1. CASE OwnersPending(o)
    BY <1>1, <2>1 DEF RoomOK, RoomIsOwners, LeftAlone
  <2>2. CASE ~OwnersPending(o)
    BY <1>1, <2>2 DEF RoomOK, RoomIsOwners, LeftAlone
  <2> QED BY <2>1, <2>2
<1>4. OwnersAreServed(o)'
  <2>1. CurrentOwners(multisig, o)' = CurrentOwners(multisig', o)
    BY DEF CurrentOwners, LeftAlone
  <2> QED BY <1>1, <2>1 DEF RoomOK, OwnersAreServed, LeftAlone
<1> QED BY <1>2, <1>3, <1>4 DEF RoomOK

\* Some are given the core datasets, others lose them.
RoomStep(o, given, taken) ==
  \A p : <<p, DataRoom>> \in access'[o] <=>
           p \in given \/ (<<p, DataRoom>> \in access[o] /\ p \notin taken)

\* A batch built for a project gives its core datasets to the owners.
LEMMA ProjectBatchRoom ==
  ASSUME TypeOK, NEW o \in KnownProjects, NEW owners, NEW revoked, NEW p,
         revoked \cap owners = {}
  PROVE  LET operations == BuildOperations(ProjectDatasets(o), owners, revoked)
         IN  /\ <<p, DataRoom>> \in operations.set <=> p \in owners
             /\ <<p, DataRoom>> \in operations.unset <=> p \in revoked
<1>1. ProjectDatasets(o) \in ProjectDatasetIds
  BY GetProjectDatasetIdsType DEF TypeOK, KnownProjects, ProjectDatasets
<1>2. DataRoom \in Live(ProjectDatasets(o))
  BY DEF Live, ProjectDatasets, GetProjectDatasetIds
<1>3. DataRoom \notin ProjectDatasets(o).removed
  BY <1>1, DataRoomAssumption DEF ProjectDatasetIds
<1>4. LET operations == BuildOperations(ProjectDatasets(o), owners, revoked)
      IN  /\ <<p, DataRoom>> \in operations.set <=> p \in owners \ revoked
          /\ <<p, DataRoom>> \in operations.unset <=> p \in revoked
  BY <1>2, <1>3, BuildOperationsEffect
<1> QED BY <1>4

\* The core datasets are no business of the project part.
LEMMA ProjectPartRoom ==
  ASSUME NEW o, NEW wallets, NEW changed_files \in ChangedFiles, NEW p
  PROVE  LET operations == ProjectOperations(wallets, o, changed_files)
         IN  <<p, DataRoom>> \notin operations.set \cup operations.unset
<1> DEFINE ids == ChangedDatasets(changed_files)
<1>1. ids \in ProjectDatasetIds /\ ids.core = {}
  BY ChangedDatasetsType DEF ChangedDatasets
<1>2. DataRoom \notin Live(ids) \cup ids.removed
  BY <1>1, DataRoomAssumption DEF ProjectDatasetIds, Live
<1> HIDE DEF ids
<1>3. LET operations == BuildOperations(ids, CurrentOwners(wallets, o), RevokeAccess(wallets, o))
      IN  <<p, DataRoom>> \notin operations.set \cup operations.unset
  BY <1>2, BuildOperationsEffect
<1> QED BY <1>3 DEF ProjectOperations, NoOperations, ids

\* What the initial run does to a project.
LEMMA InitialRoom ==
  ASSUME TypeShape, NEW o \in KnownProjects, Initially(o)
  PROVE  /\ o \in OclIds
         /\ RoomStep(o, CurrentOwners(multisig', o), RevokeAccess(multisig', o))
         /\ served'[o] \subseteq served[o] \cup CurrentOwners(multisig', o)
         /\ CurrentOwners(multisig', o) \subseteq created'
         /\ entries[o].current \in DOMAIN multisig'
         /\ \A q \in OclIds \ {o} : LeftAlone(q)
         /\ ~OwnersPending(o)'
<1> DEFINE operations == InitialOperations(multisig', o)
           accounts == InitialAccounts(multisig', o)
<1>0. Parts /\ TypeOK /\ o \in OclIds
  BY TypeOKParts DEF TypeShape, Parts, ProjectsOK, ChainOK, KnownProjects
<1>1. /\ access'[o] = Apply(access[o], operations)
      /\ served'[o] = served[o] \cup {pair[1] : pair \in operations.set}
      /\ \A q \in OclIds \ {o} : access'[q] = access[q] /\ served'[q] = served[q]
      /\ created' = created \cup accounts
  BY <1>0, AppliedIsSet DEF Initially, Parts, Applies
<1>2. RevokeAccess(multisig', o) \cap CurrentOwners(multisig', o) = {}
  BY DEF RevokeAccess, Revoked
<1>3. RoomStep(o, CurrentOwners(multisig', o), RevokeAccess(multisig', o))
  <2>1. \A p : /\ <<p, DataRoom>> \in operations.set <=> p \in CurrentOwners(multisig', o)
               /\ <<p, DataRoom>> \in operations.unset <=> p \in RevokeAccess(multisig', o)
    BY <1>0, <1>2, ProjectBatchRoom DEF InitialOperations
  <2> QED BY <1>1, <2>1 DEF RoomStep, Apply
<1>4. served'[o] \subseteq served[o] \cup CurrentOwners(multisig', o)
  BY <1>1, OnlyOwnersAreSet
<1>5. CurrentOwners(multisig', o) \subseteq created'
  BY <1>1 DEF InitialAccounts
<1>6. entries[o].current \in DOMAIN multisig'
  BY DEF Initially, Learns, OwnersAsked
<1>7. ocl_changes_map' = ocl_changes_map /\ DOMAIN ocl_changes_map = {}
  BY DEF Initially, TypeShape, Shape
<1>8. entries' = entries /\ known_at_init' = known_at_init \cup {o}
  BY DEF Initially, chainVars
<1>9. ASSUME NEW q \in OclIds \ {o}
      PROVE  LeftAlone(q)
  BY <1>1, <1>7, <1>8 DEF LeftAlone, OwnersPending, Initially, Learns
<1> QED BY <1>0, <1>3, <1>4, <1>5, <1>6, <1>7, <1>8, <1>9 DEF OwnersPending

\* What an iteration does to a project.
LEMMA IntervalRoom ==
  ASSUME TypeShape, NEW o \in DOMAIN ocl_changes_map, o \in KnownProjects, InInterval(o)
  PROVE  LET change == ocl_changes_map[o].owner_changes
         IN  /\ RoomStep(o, IF OwnersPending(o) THEN CurrentOwners(multisig', o) ELSE {},
                            IF OwnersPending(o) THEN OldOwners(multisig', change) ELSE {})
             /\ served'[o] = served[o] \/ entries[o].current \in DOMAIN multisig'
             /\ served'[o] \subseteq served[o] \cup CurrentOwners(multisig', o)
             /\ OwnersPending(o) =>
                  /\ entries[o].current \in DOMAIN multisig'
                  /\ CurrentOwners(multisig', o) \subseteq created'
                  /\ CurrentOwners(multisig', o) \cup OldOwners(multisig', change)
                       = UNION {EverBehind(multisig', a) :
                                  a \in {change.current_owner, change.former_owner} \ {NoOwner}}
             /\ ~OwnersPending(o)'
<1> DEFINE whole == ocl_changes_map[o]
           change == whole.owner_changes
           first == BlockchainOperations(multisig', o, change)
           second == ProjectOperations(multisig', o, whole.changed_files)
<1>0. Parts /\ TypeOK /\ o \in OclIds /\ o \in DOMAIN entries /\ whole \in OclChange
  BY TypeOKParts DEF TypeShape, Parts, ProjectsOK, ChainOK, LoopOK, KnownProjects
<1>1. /\ Learns(IntervalAsked(o, whole))
      /\ Applies(o, IntervalAccounts(multisig', change), IntervalOperations(multisig', o, whole))
  BY DEF InInterval
<1>2. /\ access'[o] = Apply(Apply(access[o], first), second)
      /\ served'[o] = served[o] \cup {pair[1] : pair \in IntervalOperations(multisig', o, whole).set}
      /\ created' = created \cup IntervalAccounts(multisig', change)
  <2>1. access'[o] = Apply(access[o], IntervalOperations(multisig', o, whole))
    BY <1>0, <1>1, AppliedIsSet DEF Parts
  <2>2. Apply(access[o], IntervalOperations(multisig', o, whole)) = Apply(Apply(access[o], first), second)
    BY ExtendComposes DEF IntervalOperations
  <2> QED BY <1>0, <1>1, <2>1, <2>2, AppliedIsSet DEF Parts, Applies
<1>3. \A p : <<p, DataRoom>> \notin second.set \cup second.unset
  BY <1>0, ProjectPartRoom DEF OclChange
<1>4. served'[o] \subseteq served[o] \cup CurrentOwners(multisig', o)
  BY <1>2, OnlyOwnersAreSet
<1>5. ~OwnersPending(o)'
  BY DEF InInterval, OwnersPending
<1>6. /\ change # NoChange =>
           /\ {change.current_owner, change.former_owner} \ {NoOwner} \subseteq DOMAIN multisig'
           /\ change.current_owner = entries[o].current
           /\ change \in OclOwnershipChange
      /\ whole.changed_files # {} => OwnersAsked(o) \subseteq DOMAIN multisig'
  BY <1>0, <1>1, IntervalAskedType DEF Learns, TypeShape, Shape, OclChange
<1>7. OwnersPending(o) <=> change # NoChange
  BY DEF OwnersPending
<1>8. CASE change = NoChange
  <2>1. Apply(access[o], first) = access[o]
    BY <1>8 DEF BlockchainOperations, NoOperations, Apply
  <2>2. RoomStep(o, {}, {})
    BY <1>2, <1>3, <2>1 DEF RoomStep, Apply
  <2>3. served'[o] = served[o] \/ entries[o].current \in DOMAIN multisig'
    <3>1. CASE whole.changed_files = {}
      <4>1. IntervalOperations(multisig', o, whole).set = {}
        BY <1>8, <3>1 DEF IntervalOperations, BlockchainOperations, ProjectOperations, NoOperations,
                          Extend
      <4> QED BY <1>2, <4>1
    <3>2. CASE whole.changed_files # {}
      BY <1>6, <3>2 DEF OwnersAsked
    <3> QED BY <3>1, <3>2
  <2> HIDE DEF change, whole
  <2> QED BY <1>4, <1>5, <1>7, <1>8, <2>2, <2>3 DEF change, whole
<1>9. CASE change # NoChange
  <2> DEFINE owners == CurrentOwners(multisig', o)
             old == OldOwners(multisig', change)
  <2>1. NewOwners(multisig', change) = owners
    BY <1>9, NewOwnersAreOwners
  <2>2. first = BuildOperations(ProjectDatasets(o), owners, old \ owners)
    BY <1>9, <2>1 DEF BlockchainOperations, Revoked
  <2>3. entries[o].current \in DOMAIN multisig'
    BY <1>6, <1>9, <1>0, NoOwnerAssumption DEF OclOwnershipChange
  <2>4. owners \cup old = UNION {EverBehind(multisig', a) :
                                   a \in {change.current_owner, change.former_owner} \ {NoOwner}}
    BY <1>1, <1>6, <1>9, <2>1, AccountsByChange DEF Learns
  <2>5. owners \subseteq created'
    BY <1>2, <1>9, <2>1 DEF IntervalAccounts
  <2> HIDE DEF owners, old
  <2>6. RoomStep(o, owners, old)
    <3>1. \A p : /\ <<p, DataRoom>> \in first.set <=> p \in owners
                 /\ <<p, DataRoom>> \in first.unset <=> p \in old \ owners
      BY <1>0, <2>2, ProjectBatchRoom
    <3> HIDE DEF first, second
    <3> QED BY <1>2, <1>3, <3>1 DEF RoomStep, Apply
  <2> HIDE DEF change, whole
  <2> QED BY <1>4, <1>5, <1>7, <1>9, <2>3, <2>4, <2>5, <2>6 DEF owners, old, change, whole
<1> QED BY <1>8, <1>9

-----------------------------------------------------------------------------
(* The core datasets, step by step. *)

LEMMA InitialRoomOK ==
  ASSUME TypeShape, RoomsOK, InitialAccessApplying
  PROVE  RoomsOK'
<1>1. PICK o \in KnownProjects : Initially(o)
  BY InitialStep
<1>2. /\ o \in OclIds
      /\ RoomStep(o, CurrentOwners(multisig', o), RevokeAccess(multisig', o))
      /\ served'[o] \subseteq served[o] \cup CurrentOwners(multisig', o)
      /\ CurrentOwners(multisig', o) \subseteq created'
      /\ entries[o].current \in DOMAIN multisig'
      /\ \A q \in OclIds \ {o} : LeftAlone(q)
      /\ ~OwnersPending(o)'
  BY <1>1, InitialRoom
<1>3. /\ entries' = entries
      /\ DOMAIN multisig \subseteq DOMAIN multisig'
      /\ \A a \in DOMAIN multisig : multisig'[a] = multisig[a]
      /\ ~OwnersPending(o)
  BY <1>1 DEF Initially, Learns, chainVars, OwnersPending, TypeShape, Shape
<1>4. /\ \A a \in DOMAIN multisig : EverBehind(multisig', a) = EverBehind(multisig, a)
      /\ OwnersNow(o) \subseteq OwnersNow(o)'
      /\ OwnersNow(o)' = CurrentOwners(multisig', o)
      /\ CurrentOwners(multisig, o)' = CurrentOwners(multisig', o)
  <2>1. CurrentOwners(multisig, o)' = CurrentOwners(multisig', o)
    BY <1>3 DEF CurrentOwners
  <2> QED BY <1>2, <1>3, <2>1, OwnersNowKept DEF OwnersNow
<1>5. ServedAreKnown(o)'
  <2> SUFFICES ASSUME NEW p \in served'[o]
               PROVE  \E a \in OwnersAsked(o)' \cap DOMAIN multisig' : p \in EverBehind(multisig', a)
    BY DEF ServedAreKnown
  <2>1. OwnersAsked(o)' = OwnersAsked(o) /\ entries[o].current \in OwnersAsked(o)
    BY <1>3 DEF OwnersAsked
  <2>2. CASE p \in served[o]
    BY <1>2, <1>3, <1>4, <2>1, <2>2 DEF RoomsOK, RoomOK, ServedAreKnown
  <2>3. CASE p \in CurrentOwners(multisig', o)
    BY <1>2, <2>1, <2>3 DEF CurrentOwners, EverBehind
  <2> QED BY <1>2, <2>2, <2>3
<1>6. RoomIsOwners(o)'
  <2>1. ASSUME NEW p \in served'[o], <<p, DataRoom>> \in access'[o]
        PROVE  p \in CurrentOwners(multisig', o)
    BY <1>2, <1>3, <1>4, <2>1 DEF RoomStep, RoomsOK, RoomOK, RoomIsOwners
  <2> QED BY <1>2, <1>4, <2>1 DEF RoomIsOwners
<1>7. OwnersAreServed(o)'
  BY <1>2, <1>3, <1>4 DEF OwnersAreServed, RoomStep
<1>8. \A q \in OclIds \ {o} : RoomOK(q)'
  BY <1>2, RoomLeftAlone DEF RoomsOK
<1> QED BY <1>5, <1>6, <1>7, <1>8 DEF RoomsOK, RoomOK

LEMMA IntervalRoomOK ==
  ASSUME TypeShape, RoomsOK, IntervalAccessApplying
  PROVE  RoomsOK'
<1>0. Parts /\ TypeOK
  BY TypeOKParts DEF TypeShape
<1>1. PICK o \in DOMAIN ocl_changes_map : InInterval(o)
  BY IntervalStep
<1>2. o \in OclIds
  BY <1>0 DEF Parts, LoopOK, ChainOK
<1>3. /\ entries' = entries /\ known_at_init' = known_at_init
      /\ ocl_changes_map' = [q \in DOMAIN ocl_changes_map \ {o} |-> ocl_changes_map[q]]
  BY <1>1 DEF InInterval, chainVars
<1>4. /\ DOMAIN multisig \subseteq DOMAIN multisig'
      /\ \A a \in DOMAIN multisig : multisig'[a] = multisig[a]
      /\ created \subseteq created'
  BY <1>1 DEF InInterval, Learns, Applies
<1>5. \A q \in OclIds \ {o} : access'[q] = access[q] /\ served'[q] = served[q]
  BY <1>0, <1>1, <1>2, AppliedIsSet DEF InInterval, Parts
<1>6. \A q \in OclIds \ {o} : LeftAlone(q)
  BY <1>3, <1>4, <1>5 DEF LeftAlone, OwnersPending
<1>7. \A q \in OclIds \ {o} : RoomOK(q)'
  BY <1>6, RoomLeftAlone DEF RoomsOK
<1>8. RoomOK(o)
  BY <1>2 DEF RoomsOK
<1>9. /\ \A a \in DOMAIN multisig : EverBehind(multisig', a) = EverBehind(multisig, a)
      /\ OwnersNow(o) \subseteq OwnersNow(o)'
      /\ entries[o].current \in DOMAIN multisig =>
           CurrentOwners(multisig', o) = CurrentOwners(multisig, o)
      /\ entries[o].current \in DOMAIN multisig' => OwnersNow(o)' = CurrentOwners(multisig', o)
      /\ CurrentOwners(multisig, o)' = CurrentOwners(multisig', o)
  <2>1. CurrentOwners(multisig, o)' = CurrentOwners(multisig', o)
    BY <1>3 DEF CurrentOwners
  <2> QED BY <1>3, <1>4, <2>1, OwnersNowKept DEF OwnersNow
<1>10. CASE o \in KnownProjects
  <2> DEFINE change == ocl_changes_map[o].owner_changes
  <2>1. /\ RoomStep(o, IF OwnersPending(o) THEN CurrentOwners(multisig', o) ELSE {},
                       IF OwnersPending(o) THEN OldOwners(multisig', change) ELSE {})
        /\ served'[o] = served[o] \/ entries[o].current \in DOMAIN multisig'
        /\ served'[o] \subseteq served[o] \cup CurrentOwners(multisig', o)
        /\ OwnersPending(o) =>
             /\ entries[o].current \in DOMAIN multisig'
             /\ CurrentOwners(multisig', o) \subseteq created'
             /\ CurrentOwners(multisig', o) \cup OldOwners(multisig', change)
                  = UNION {EverBehind(multisig', a) :
                             a \in {change.current_owner, change.former_owner} \ {NoOwner}}
        /\ ~OwnersPending(o)'
    BY <1>1, <1>10, IntervalRoom
  <2>2. ServedAreKnown(o)'
    <3> SUFFICES ASSUME NEW p \in served'[o]
                 PROVE  \E a \in OwnersAsked(o)' \cap DOMAIN multisig' : p \in EverBehind(multisig', a)
      BY DEF ServedAreKnown
    <3>1. OwnersAsked(o)' = OwnersAsked(o) /\ entries[o].current \in OwnersAsked(o)
      BY <1>3 DEF OwnersAsked
    <3>2. CASE p \in served[o]
      BY <1>4, <1>8, <1>9, <3>1, <3>2 DEF RoomOK, ServedAreKnown
    <3>3. CASE p \notin served[o]
      BY <2>1, <3>1, <3>3 DEF CurrentOwners, EverBehind
    <3> QED BY <3>2, <3>3
  <2>3. RoomIsOwners(o)'
    <3>1. ASSUME NEW p \in served'[o], <<p, DataRoom>> \in access'[o]
          PROVE  p \in OwnersNow(o)'
      <4>1. CASE OwnersPending(o)
        <5>1. p \in CurrentOwners(multisig', o)
                \/ (p \in served[o] /\ <<p, DataRoom>> \in access[o]
                      /\ p \notin OldOwners(multisig', change))
          BY <2>1, <3>1, <4>1 DEF RoomStep
        <5>2. CASE p \in served[o] /\ <<p, DataRoom>> \in access[o]
                     /\ p \notin OldOwners(multisig', change)
          <6>1. PICK a \in {change.current_owner, change.former_owner} \ {NoOwner} :
                  a \in DOMAIN multisig /\ p \in EverBehind(multisig, a)
            BY <1>8, <4>1, <5>2 DEF RoomOK, RoomIsOwners
          <6>2. p \in EverBehind(multisig', a)
            BY <1>9, <6>1
          <6> HIDE DEF change
          <6> QED BY <1>9, <2>1, <4>1, <5>2, <6>1, <6>2
        <5> QED BY <1>9, <2>1, <4>1, <5>1, <5>2
      <4>2. CASE ~OwnersPending(o)
        <5>1. <<p, DataRoom>> \in access[o]
          BY <2>1, <3>1, <4>2 DEF RoomStep
        <5> QED BY <1>8, <1>9, <2>1, <3>1, <4>2, <5>1 DEF RoomOK, RoomIsOwners
      <4> QED BY <4>1, <4>2
    <3> QED BY <2>1, <3>1 DEF RoomIsOwners
  <2>4. OwnersAreServed(o)'
    <3>1. CASE OwnersPending(o)
      BY <1>3, <1>9, <2>1, <3>1 DEF OwnersAreServed, RoomStep
    <3>2. CASE ~OwnersPending(o)
      BY <1>3, <1>4, <1>8, <1>9, <2>1, <3>2 DEF RoomOK, OwnersAreServed, RoomStep
    <3> QED BY <3>1, <3>2
  <2> QED BY <1>7, <2>2, <2>3, <2>4 DEF RoomsOK, RoomOK
<1>11. CASE o \notin KnownProjects
  <2>1. served'[o] = {} /\ o \notin known_at_init'
    BY <1>0, <1>1, <1>2, <1>3, <1>11 DEF InInterval, TypeShape, Shape, Parts, LoopOK, KnownProjects
  <2> QED BY <1>7, <2>1 DEF RoomsOK, RoomOK, ServedAreKnown, RoomIsOwners, OwnersAreServed
<1> QED BY <1>10, <1>11

\* What an indexing of the loop says of a known project: a change of owners is waiting
\* then, between the address it was known with and the one it has now, or its owner and
\* what is known of it stay.
LEMMA IndexedChange ==
  ASSUME TypeShape, NEW o \in KnownProjects, Indexing
  PROVE  /\ o \in DOMAIN entries /\ o \in Owned
         /\ \/ /\ OwnersPending(o)'
               /\ entries[o].current \in {ocl_changes_map'[o].owner_changes.current_owner,
                                          ocl_changes_map'[o].owner_changes.former_owner} \ {NoOwner}
            \/ /\ ~OwnersPending(o)'
               /\ entries'[o].current = entries[o].current
               /\ entries[o].current \notin ChangedMultisigs
<1>0. TypeOK /\ o \in DOMAIN entries /\ o \in Owned /\ o \in OclIds
  BY DEF TypeShape, TypeOK, Shape, KnownProjects
<1>1. ocl_changes_map' = OwnerChanges /\ entries' = IndexedEntries
  BY DEF Indexing
<1>2. DOMAIN OwnerChanges = Transferred \cup OwnedByChanged
  BY DEF OwnerChanges
<1>3. FormerOwner(o) = entries[o].current /\ entries[o].current \in Addresses
        /\ entries'[o].current = owner[o]
  BY <1>0, <1>1, IndexedEntriesResult, OwnersAskedType DEF FormerOwner
<1>4. CASE o \in DOMAIN OwnerChanges
  <2>1. OwnerChanges[o].owner_changes # NoChange
    BY <1>0, <1>4, OwnerChangesType, NoChangeAssumption
  <2>2. OwnersPending(o)'
    BY <1>1, <1>4, <2>1 DEF OwnersPending
  <2>3. OwnerChanges[o].owner_changes
          = [former_owner |-> IF o \in Transferred THEN FormerOwner(o) ELSE NoOwner,
             current_owner |-> owner[o]]
    BY <1>2, <1>4 DEF OwnerChanges
  <2>4. o \notin Transferred => owner[o] = entries[o].current
    BY <1>0, <1>3 DEF Transferred
  <2>5. entries[o].current # NoOwner
    BY <1>3, NoOwnerAssumption
  <2>6. \/ /\ o \in Transferred
           /\ OwnerChanges[o].owner_changes.former_owner = entries[o].current
        \/ /\ o \notin Transferred
           /\ OwnerChanges[o].owner_changes.current_owner = entries[o].current
    BY <1>3, <2>3, <2>4
  <2> QED BY <1>0, <1>1, <2>2, <2>5, <2>6
<1>5. CASE o \notin DOMAIN OwnerChanges
  <2>1. ~OwnersPending(o)'
    BY <1>1, <1>5 DEF OwnersPending
  <2>2. owner[o] = entries[o].current /\ owner[o] \notin ChangedMultisigs
    BY <1>0, <1>2, <1>3, <1>5 DEF Transferred, OwnedByChanged
  <2> QED BY <1>0, <1>3, <2>1, <2>2
<1> QED BY <1>4, <1>5

LEMMA IndexingRoomOK ==
  ASSUME TypeShape, RoomsOK, Indexing
  PROVE  RoomsOK'
<1>0. TypeOK
  BY DEF TypeShape
<1>1. /\ entries' = IndexedEntries /\ multisig' = IndexedWallets
      /\ UNCHANGED <<access, known_at_init, served, created>>
  BY DEF Indexing, historyVars
<1>2. /\ DOMAIN multisig' = DOMAIN multisig
      /\ \A a \in DOMAIN multisig : EverBehind(multisig, a) \subseteq EverBehind(multisig', a)
  BY <1>0, <1>1, IndexedWalletsType, NobodyIsForgotten
<1>3. ASSUME NEW o \in OclIds, o \notin KnownProjects
      PROVE  RoomOK(o)'
  <2>1. served[o] = {} /\ o \notin known_at_init
    BY <1>3 DEF TypeShape, Shape, TypeOK, KnownProjects
  <2> QED BY <1>1, <2>1 DEF RoomOK, ServedAreKnown, RoomIsOwners, OwnersAreServed
<1>4. ASSUME NEW o \in KnownProjects, o \in OclIds
      PROVE  RoomOK(o)'
  <2> DEFINE address == entries[o].current
  <2>1. /\ o \in DOMAIN entries /\ o \in Owned
        /\ \/ /\ OwnersPending(o)'
              /\ address \in {ocl_changes_map'[o].owner_changes.current_owner,
                              ocl_changes_map'[o].owner_changes.former_owner} \ {NoOwner}
           \/ /\ ~OwnersPending(o)'
              /\ entries'[o].current = address
              /\ address \notin ChangedMultisigs
    BY <1>4, IndexedChange
  <2>2. ~OwnersPending(o) /\ RoomOK(o)
    BY <1>4 DEF OwnersPending, Indexing, TypeShape, Shape, RoomsOK
  <2>3. /\ CurrentOwners(multisig, o) = CurrentBehind(multisig, address)
        /\ CurrentOwners(multisig, o)' = CurrentBehind(multisig', entries'[o].current)
    BY DEF CurrentOwners
  <2>4. address \in DOMAIN multisig /\ address \notin ChangedMultisigs =>
          CurrentBehind(multisig', address) = CurrentBehind(multisig, address)
    BY <1>0, <1>1, IndexedBehind, BehindSame
  <2>5. ServedAreKnown(o)'
    <3>1. OwnersAsked(o) \subseteq OwnersAsked(o)'
      BY <1>0, <1>1, <2>1, IndexedEntriesResult DEF OwnersAsked
    <3> QED BY <1>1, <1>2, <2>2, <3>1 DEF RoomOK, ServedAreKnown
  <2>6. RoomIsOwners(o)'
    <3>1. ASSUME NEW p \in served[o], <<p, DataRoom>> \in access[o]
          PROVE  address \in DOMAIN multisig /\ p \in CurrentBehind(multisig, address)
      BY <2>2, <2>3, <3>1 DEF RoomOK, RoomIsOwners, OwnersNow
    <3>2. CASE OwnersPending(o)'
      BY <1>1, <1>2, <2>1, <3>1, <3>2 DEF RoomIsOwners, EverBehind
    <3>3. CASE ~OwnersPending(o)'
      <4>1. address \in DOMAIN multisig => OwnersNow(o)' = CurrentBehind(multisig, address)
        BY <1>2, <2>1, <2>3, <2>4, <3>3 DEF OwnersNow
      <4> QED BY <1>1, <3>1, <3>3, <4>1 DEF RoomIsOwners
    <3> QED BY <3>2, <3>3
  <2>7. OwnersAreServed(o)'
    <3>1. CASE OwnersPending(o)'
      BY <3>1 DEF OwnersAreServed
    <3>2. CASE ~OwnersPending(o)'
      BY <1>1, <1>2, <2>1, <2>2, <2>3, <2>4, <3>2 DEF RoomOK, OwnersAreServed
    <3> QED BY <3>1, <3>2
  <2> QED BY <2>5, <2>6, <2>7 DEF RoomOK
<1> QED BY <1>3, <1>4 DEF RoomsOK

\* Steps that change nobody's access and no owners.
LEMMA NothingIsGiven ==
  ASSUME World \/ SafeWallets \/ InitLoading \/ Loading \/ InitDone \/ NoLoading \/ UpdateDone
           \/ UNCHANGED vars
  PROVE  UNCHANGED <<access, entries, multisig, known_at_init, served, created>>
<1>1. CASE World \/ SafeWallets
  BY <1>1 DEF World, Transfer, ListProject, RetractProject, AddFile, RetractFile, CorrectFile,
              ChangeRoom, SetLevel, SafeWallets, AddOwner, RemoveOwner, ChangeSafe, Finalize,
              programVars, chainVars, historyVars
<1>2. CASE InitLoading \/ Loading
  BY <1>2 DEF InitLoading, Loading, chainVars, historyVars
<1>3. CASE InitDone \/ NoLoading \/ UpdateDone
  BY <1>3 DEF InitDone, NoLoading, UpdateDone, chainVars, historyVars
<1>4. CASE UNCHANGED vars
  BY <1>4 DEF vars, programVars, chainVars, historyVars
<1> QED BY <1>1, <1>2, <1>3, <1>4

\* They let no change of owners wait, and apply none.
LEMMA OwnersStayPending ==
  ASSUME NEW o,
         World \/ SafeWallets \/ InitLoading \/ Loading \/ InitDone \/ NoLoading \/ UpdateDone
           \/ UNCHANGED vars
  PROVE  /\ OwnersPending(o)' <=> OwnersPending(o)
         /\ OwnersPending(o) => ocl_changes_map'[o].owner_changes = ocl_changes_map[o].owner_changes
<1>1. CASE Loading
  BY <1>1 DEF Loading, OwnersPending
<1>2. CASE ocl_changes_map' = ocl_changes_map
  BY <1>2 DEF OwnersPending
<1>3. World \/ SafeWallets => ocl_changes_map' = ocl_changes_map
  BY DEF World, Transfer, ListProject, RetractProject, AddFile, RetractFile, CorrectFile,
         ChangeRoom, SetLevel, SafeWallets, AddOwner, RemoveOwner, ChangeSafe, Finalize,
         programVars, loopVars
<1>4. InitLoading \/ InitDone \/ NoLoading \/ UpdateDone => ocl_changes_map' = ocl_changes_map
  BY DEF InitLoading, InitDone, NoLoading, UpdateDone
<1>5. UNCHANGED vars => ocl_changes_map' = ocl_changes_map
  BY DEF vars, programVars, loopVars
<1> QED BY <1>1, <1>2, <1>3, <1>4, <1>5

LEMMA RoomsNext ==
  ASSUME TypeShape, RoomsOK, [Next]_vars
  PROVE  RoomsOK'
<1>0. TypeOK
  BY DEF TypeShape
<1>1. CASE World \/ SafeWallets \/ InitLoading \/ Loading \/ InitDone \/ NoLoading \/ UpdateDone
             \/ UNCHANGED vars
  <2>1. UNCHANGED <<access, entries, multisig, known_at_init, served, created>>
    BY <1>1, NothingIsGiven
  <2>2. ASSUME NEW o \in OclIds
        PROVE  LeftAlone(o)
    <3>1. /\ OwnersPending(o)' <=> OwnersPending(o)
          /\ OwnersPending(o) => ocl_changes_map'[o].owner_changes = ocl_changes_map[o].owner_changes
      BY <1>1, OwnersStayPending
    <3> QED BY <2>1, <3>1 DEF LeftAlone
  <2> QED BY <2>2, RoomLeftAlone DEF RoomsOK
<1>2. CASE InitIndexing
  <2>1. \A o \in OclIds : served'[o] = {} /\ o \notin known_at_init'
    BY <1>0, <1>2 DEF InitIndexing, historyVars, TypeShape, Shape, TypeOK, KnownProjects
  <2> QED BY <2>1 DEF RoomsOK, RoomOK, ServedAreKnown, RoomIsOwners, OwnersAreServed
<1>3. CASE Crash
  <2>1. \A o \in OclIds : served'[o] = {} /\ o \notin known_at_init'
    BY <1>3 DEF Crash
  <2> QED BY <2>1 DEF RoomsOK, RoomOK, ServedAreKnown, RoomIsOwners, OwnersAreServed
<1> QED BY <1>1, <1>2, <1>3, InitialRoomOK, IntervalRoomOK, IndexingRoomOK DEF Next, AppInit, AppUpdate

LEMMA RoomsAreOK == Spec => [](TypeShape /\ WalletsAreRecent /\ RoomsOK)
<1>1. Init => RoomsOK
  BY DEF Init, RoomsOK, RoomOK, ServedAreKnown, RoomIsOwners, OwnersAreServed
<1>2. TypeShape /\ RoomsOK /\ [Next]_vars => RoomsOK'
  BY RoomsNext
<1> QED BY <1>1, <1>2, WalletsAreKept, PTL DEF Spec

-----------------------------------------------------------------------------
(* Who has the core datasets when nothing waits. *)

LEMMA NothingPendsAtRest ==
  ASSUME TypeShape, AtRest
  PROVE  /\ \A o : ~OwnersPending(o) /\ FilesPending(o) = {}
         /\ \A o \in KnownProjects : o \in DOMAIN entries /\ o \in OclIds
BY DEF TypeShape, Shape, TypeOK, AtRest, OwnersPending, FilesPending, KnownProjects

\* Whoever lost an OCL under this process, or left the Safe that owns it, has lost the
\* core datasets of its project once the changes are applied, unless they are behind the
\* owner now: interval_access_applying revokes the members of both addresses but those
\* that account_access_sanity_checks keeps.
THEOREM FormerOwnersAreRevoked == Spec => []FormerOwnersLoseTheRoom
<1>1. TypeShape /\ RoomsOK => FormerOwnersLoseTheRoom
  BY NothingPendsAtRest DEF FormerOwnersLoseTheRoom, OwnersBefore, RoomsOK, RoomOK, RoomIsOwners
<1> QED BY <1>1, RoomsAreOK, PTL

\* Whoever is behind the owner of a project known since the start, on chain and ever
\* since the indexed block, has its core datasets: what the bridge knows of a wallet is the
\* truth at some position since then, and the owners it knows have been served.
THEOREM MembersAreServed == Spec => []MembersKeepTheRoom
<1>1. ASSUME TypeShape, WalletsAreRecent, RoomsOK, AtRest,
             NEW o \in known_at_init, NEW p \in People, AlwaysBehind(o, p)
      PROVE  <<p, DataRoom>> \in access[o]
  <2>1. o \in KnownProjects
    BY <1>1 DEF TypeShape, TypeOK, KnownProjects
  <2>2. ~OwnersPending(o) /\ o \in OclIds
    BY <1>1, <2>1, NothingPendsAtRest
  <2>3. /\ entries[o].current \in DOMAIN multisig
        /\ \A q \in CurrentOwners(multisig, o) : <<q, DataRoom>> \in access[o]
    BY <1>1, <2>2 DEF RoomsOK, RoomOK, OwnersAreServed
  <2>4. p \in CurrentBehind(multisig, entries[o].current)
    BY <1>1, <2>3 DEF WalletsAreRecent, AlwaysBehind
  <2> QED BY <2>3, <2>4 DEF CurrentOwners
<1>2. TypeShape /\ WalletsAreRecent /\ RoomsOK => MembersKeepTheRoom
  BY <1>1 DEF MembersKeepTheRoom
<1> QED BY <1>2, RoomsAreOK, PTL

\* Of those this process has served, whoever has the core datasets is behind the owner on
\* chain at the indexed block or later: a member who left the Safe, by any log up to the
\* indexed block, has lost them.
THEOREM OthersAreRevoked == Spec => []OnlyMembersHaveTheRoom
<1>1. ASSUME TypeShape, WalletsAreRecent, RoomsOK, AtRest, NEW o \in KnownProjects,
             NEW p \in served[o], <<p, DataRoom>> \in access[o]
      PROVE  SometimesBehind(o, p)
  <2>1. ~OwnersPending(o) /\ o \in OclIds
    BY <1>1, NothingPendsAtRest
  <2>2. p \in People
    BY <1>1, <2>1 DEF TypeShape, TypeOK
  <2>3. p \in OwnersNow(o)
    BY <1>1, <2>1 DEF RoomsOK, RoomOK, RoomIsOwners
  <2>4. entries[o].current \in DOMAIN multisig /\ p \in CurrentBehind(multisig, entries[o].current)
    BY <2>3 DEF OwnersNow, CurrentOwners
  <2> QED BY <1>1, <2>2, <2>4 DEF WalletsAreRecent, SometimesBehind
<1>2. TypeShape /\ WalletsAreRecent /\ RoomsOK => OnlyMembersHaveTheRoom
  BY <1>1 DEF OnlyMembersHaveTheRoom
<1> QED BY <1>2, RoomsAreOK, PTL

\* Whoever gets access to a dataset of a project known since the start has an account by
\* then, though the project part of an iteration creates none: the owners it grants access
\* to are those of the initial run or of a change applied since.
THEOREM GrantedHaveAccounts == Spec => GrantsGoToAccounts
<1> DEFINE Accounted == \A o \in known_at_init' : \A pair \in access'[o] \ access[o] :
                          pair[1] \in created'
           Granted == \A o \in OclIds : \A pair \in access'[o] \ access[o] :
                        pair[1] \in CurrentOwners(multisig', o)
<1>1. ASSUME TypeShape, RoomsOK, TypeShape', RoomsOK', Granted, [Next]_vars
      PROVE  Accounted
  <2> SUFFICES ASSUME NEW o \in known_at_init', NEW pair \in access'[o] \ access[o]
               PROVE  pair[1] \in created'
    OBVIOUS
  <2>1. o \in OclIds /\ o \in KnownProjects'
    BY <1>1 DEF TypeShape, TypeOK, KnownProjects
  <2>2. pair[1] \in CurrentOwners(multisig', o)
    BY <1>1, <2>1
  <2>3. CASE InitialAccessApplying
    <3>1. PICK q \in KnownProjects : Initially(q)
      BY <1>1, <2>3, InitialStep
    <3>2. q = o
      BY <2>1, <3>1, <1>1, InitialRoom DEF LeftAlone
    <3> QED BY <1>1, <2>2, <3>1, <3>2, InitialRoom
  <2>4. CASE IntervalAccessApplying
    <3>1. PICK q \in DOMAIN ocl_changes_map : InInterval(q)
      BY <1>1, <2>4, IntervalStep
    <3>2. q \in OclIds
      BY <1>1, <3>1 DEF TypeShape, TypeOK
    <3>3. q = o
      BY <1>1, <2>1, <3>1, <3>2, AppliedIsSet, TypeOKParts DEF InInterval, TypeShape, Parts
    <3>4. ~OwnersPending(o)' /\ entries' = entries
      BY <3>1, <3>3 DEF InInterval, OwnersPending, chainVars
    <3>5. \A p \in CurrentOwners(multisig, o)' : p \in created'
      BY <1>1, <2>1, <3>4 DEF RoomsOK, RoomOK, OwnersAreServed
    <3>6. CurrentOwners(multisig, o)' = CurrentOwners(multisig', o)
      BY <3>4 DEF CurrentOwners
    <3> QED BY <2>2, <3>5, <3>6
  <2>5. CASE ~InitialAccessApplying /\ ~IntervalAccessApplying
    BY <1>1, <2>5, AccessKept
  <2> QED BY <2>3, <2>4, <2>5
<1>2. TypeShape /\ RoomsOK /\ TypeShape' /\ RoomsOK' /\ [Granted]_vars /\ [Next]_vars
        => [Accounted]_vars
  BY <1>1
<1>3. Spec => [][Granted]_vars
  BY GrantsReachOwnersOnly DEF GrantsOnlyToOwners
<1> QED BY <1>2, <1>3, RoomsAreOK, PTL DEF Spec, GrantsGoToAccounts

-----------------------------------------------------------------------------
(* Rows and removed files. *)

\* A load reads a data room to its end: what the rows have removed then is handed on by
\* this load, or was removed before; and it hands on nothing else that was removed.
LEMMA LoadedFiles ==
  ASSUME TypeOK, AllRowsOK, LoadMoleculeProjects, rooms' = rooms, NEW o \in Existing \cup NewProjects
  PROVE  /\ o \in OclIds
         /\ off_chain_ocl_project_map'[o] = Processed(o).project
         /\ RemovedFiles(o)' = RemovedEntities(rooms[o], 1)
         /\ RemovedFiles(o)' \subseteq Processed(o).project.removed_files_map
         /\ \A f \in RemovedFiles(o)' :
              \/ [file |-> f, change |-> Removed] \in Processed(o).changes
              \/ o \in KnownProjects /\ f \in RemovedFiles(o)
         /\ \A c \in Processed(o).changes : c.change # Removed =>
              \/ c.file \notin RemovedFiles(o)'
              \/ [file |-> c.file, change |-> Removed] \in Processed(o).changes
<1>1. /\ o \in DOMAIN entries
      /\ Processed(o).project.latest_data_room_offset = Len(rooms[o])
      /\ IsHandedOn(Read(o), Processed(o).changes)
      /\ Read(o).removed_entities \subseteq Processed(o).project.removed_files_map
      /\ o \in KnownProjects =>
           off_chain_ocl_project_map[o].removed_files_map
             \subseteq Processed(o).project.removed_files_map
  BY ProcessedResult
<1>2. o \in OclIds
  BY <1>1 DEF TypeOK
<1>3. rooms[o] \in Rows /\ Len(rooms[o]) \in Nat
  BY <1>2, ReadType
<1>4. IsKept(rooms[o]) /\ (o \in KnownProjects =>
        RemovedFiles(o) \subseteq off_chain_ocl_project_map[o].removed_files_map)
  BY <1>2 DEF AllRowsOK, RowsOK
<1>5. off_chain_ocl_project_map'[o] = Processed(o).project
  BY LoadedProjectsResult DEF LoadMoleculeProjects
<1>6. ReadRows(o)' = rooms[o]
  <2>1. ReadRows(o)' = SubSeq(rooms[o], 1, Len(rooms[o]))
    BY <1>1, <1>5 DEF ReadRows
  <2>2. \A S : \A s \in Seq(S) : SubSeq(s, 1, Len(s)) = s
    OBVIOUS
  <2> QED BY <1>3, <2>1, <2>2 DEF Rows
<1>7. RemovedFiles(o)' = RemovedEntities(rooms[o], 1)
  BY <1>6 DEF RemovedFiles
<1>8. o \in KnownProjects \/ NewRowsOf(o) # {}
  BY DEF Existing, NewProjects, KnownProjects
<1>9. /\ ReadFrom(o) \in Nat /\ ReadFrom(o) >= 1
      /\ \/ ReadFrom(o) = 1
         \/ /\ o \in KnownProjects
            /\ ReadFrom(o) = off_chain_ocl_project_map[o].latest_data_room_offset + 1
  BY <1>2, <1>8, ReadFromResult
<1>10. /\ Read(o).added_entities = AddedEntities(rooms[o], ReadFrom(o))
       /\ Read(o).removed_entities = RemovedEntities(rooms[o], ReadFrom(o))
  BY DEF Read, VersionedFilesEntries
<1>11. ASSUME NEW f \in RemovedEntities(rooms[o], 1), f \notin Read(o).removed_entities
       PROVE  o \in KnownProjects /\ f \in RemovedFiles(o)
  <2> DEFINE m == off_chain_ocl_project_map[o].latest_data_room_offset
  <2>1. o \in KnownProjects /\ ReadFrom(o) = m + 1
    BY <1>9, <1>10, <1>11
  <2>2. m \in 0..Len(rooms[o])
    BY <1>3, <2>1 DEF TypeOK, KnownProjects
  <2>3. f \in RemovedEntities(SubSeq(rooms[o], 1, m), 1)
    BY <1>3, <1>10, <1>11, <2>1, <2>2, RemovedInParts
  <2> QED BY <2>1, <2>3 DEF RemovedFiles, ReadRows
<1>12. RemovedFiles(o)' \subseteq Processed(o).project.removed_files_map
  BY <1>1, <1>4, <1>7, <1>11
<1>13. \A f \in RemovedFiles(o)' :
         \/ [file |-> f, change |-> Removed] \in Processed(o).changes
         \/ o \in KnownProjects /\ f \in RemovedFiles(o)
  BY <1>1, <1>7, <1>11 DEF IsHandedOn
<1>14. \A c \in Processed(o).changes : c.change # Removed =>
         \/ c.file \notin RemovedFiles(o)'
         \/ [file |-> c.file, change |-> Removed] \in Processed(o).changes
  <2>1. AddedEntities(rooms[o], ReadFrom(o)) \cap RemovedEntities(rooms[o], 1) = {}
    BY <1>3, <1>4, <1>9, AddedIsNotRemoved
  <2> QED BY <1>1, <1>7, <1>10, <2>1 DEF IsHandedOn
<1> QED BY <1>2, <1>5, <1>7, <1>12, <1>13, <1>14

\* A known project that a load has no rows of stays as it is.
LEMMA UnloadedFiles ==
  ASSUME TypeOK, LoadMoleculeProjects, rooms' = rooms, NEW o \in KnownProjects',
         o \notin Existing \cup NewProjects
  PROVE  /\ o \in KnownProjects
         /\ off_chain_ocl_project_map'[o] = off_chain_ocl_project_map[o]
         /\ RemovedFiles(o)' = RemovedFiles(o)
<1>1. off_chain_ocl_project_map' = LoadedProjects
  BY DEF LoadMoleculeProjects
<1>2. o \in KnownProjects \ Existing
  BY <1>1, LoadedProjectsResult DEF KnownProjects
<1>3. off_chain_ocl_project_map'[o] = off_chain_ocl_project_map[o]
  BY <1>1, <1>2, LoadedProjectsResult
<1> QED BY <1>2, <1>3 DEF RemovedFiles, ReadRows

\* The changes of files that wait after a load of the loop.
LEMMA LoadedChanges ==
  ASSUME TypeShape, Loading, NEW o
  PROVE  /\ o \in Existing \cup NewProjects => FilesPending(o)' = Processed(o).changes
         /\ o \notin Existing \cup NewProjects => FilesPending(o)' = {}
         /\ FilesPending(o) = {}
<1>1. FilesPending(o) = {}
  BY DEF FilesPending, Loading, TypeShape, Shape
<1>2. FilesPending(o)' = IF o \in DOMAIN DetectedChanges THEN DetectedChanges[o] ELSE {}
  <2>1. DOMAIN ocl_changes_map' = DOMAIN ocl_changes_map \cup DOMAIN DetectedChanges
    BY DEF Loading
  <2>2. o \in DOMAIN ocl_changes_map' =>
          ocl_changes_map'[o].changed_files
            = IF o \in DOMAIN DetectedChanges THEN DetectedChanges[o] ELSE {}
    BY <2>1 DEF Loading
  <2> QED BY <2>1, <2>2 DEF FilesPending
<1>3. DOMAIN DetectedChanges = {q \in Existing \cup NewProjects : Processed(q).changes # {}}
  BY DEF DetectedChanges
<1>4. o \in DOMAIN DetectedChanges => DetectedChanges[o] = Processed(o).changes
  BY DEF DetectedChanges
<1> QED BY <1>1, <1>2, <1>3, <1>4

\* While its projection and the rows read of it stay, a project's rows stay in order.
LEMMA WorldRows ==
  ASSUME TypeOK, AllRowsOK, WorldGrows, NEW o \in OclIds
  PROVE  /\ IsKept(rooms'[o])
         /\ o \in KnownProjects => RemovedFiles(o)' = RemovedFiles(o)
<1>1. rooms[o] \in Rows /\ IsKept(rooms[o]) /\ Len(rooms[o]) \in Nat
  BY ReadType DEF AllRowsOK, RowsOK
<1>2. off_chain_ocl_project_map' = off_chain_ocl_project_map
  BY DEF WorldGrows, programVars, projectVars
<1>3. CASE rooms'[o] = rooms[o]
  BY <1>1, <1>2, <1>3 DEF RemovedFiles, ReadRows
<1>4. ASSUME NEW row, Follows(rooms[o], row), rooms'[o] = Append(rooms[o], row)
      PROVE  /\ IsKept(rooms'[o])
             /\ o \in KnownProjects => RemovedFiles(o)' = RemovedFiles(o)
  <2>1. IsKept(rooms'[o])
    BY <1>1, <1>4, KeptAppend DEF Follows
  <2>2. ASSUME o \in KnownProjects
        PROVE  RemovedFiles(o)' = RemovedFiles(o)
    <3>1. off_chain_ocl_project_map[o].latest_data_room_offset \in 0..Len(rooms[o])
      BY <1>1, <2>2 DEF TypeOK, KnownProjects
    <3>2. ReadRows(o)' = ReadRows(o)
      BY <1>1, <1>2, <1>4, <3>1, PrefixOfGrown DEF ReadRows, Follows
    <3> QED BY <3>2 DEF RemovedFiles
  <2> QED BY <2>1, <2>2
<1> QED BY <1>3, <1>4 DEF WorldGrows

\* Steps that read no ledger let no file wait that did not.
LEMMA NothingIsRead ==
  ASSUME TypeShape, NEW o,
         InitIndexing \/ InitialAccessApplying \/ InitDone \/ Indexing \/ NoLoading
           \/ IntervalAccessApplying \/ UpdateDone \/ UNCHANGED vars
  PROVE  /\ UNCHANGED <<rooms, off_chain_ocl_project_map>>
         /\ FilesPending(o)' \in {FilesPending(o), {}}
<1>1. UNCHANGED <<rooms, off_chain_ocl_project_map>>
  <2>1. CASE InitIndexing \/ Indexing \/ InitDone \/ NoLoading \/ UpdateDone
    BY <2>1 DEF InitIndexing, Indexing, InitDone, NoLoading, UpdateDone, worldVars, nodeVars,
                projectVars
  <2>2. CASE InitialAccessApplying \/ IntervalAccessApplying
    BY <2>2 DEF InitialAccessApplying, IntervalAccessApplying, worldVars, nodeVars, projectVars
  <2>3. CASE UNCHANGED vars
    BY <2>3 DEF vars, worldVars, nodeVars, programVars, projectVars
  <2> QED BY <2>1, <2>2, <2>3
<1>2. CASE ocl_changes_map' = ocl_changes_map
  BY <1>1, <1>2 DEF FilesPending
<1>3. CASE Indexing
  <2>1. ocl_changes_map' = OwnerChanges
    BY <1>3 DEF Indexing
  <2>2. FilesPending(o)' = {}
    BY <2>1, OwnerChangesType DEF FilesPending, TypeShape
  <2> QED BY <1>1, <2>2
<1>4. CASE IntervalAccessApplying
  <2>1. PICK q \in DOMAIN ocl_changes_map : InInterval(q)
    BY <1>4, IntervalStep
  <2>2. ocl_changes_map' = [p \in DOMAIN ocl_changes_map \ {q} |-> ocl_changes_map[p]]
    BY <2>1 DEF InInterval
  <2> QED BY <1>1, <2>2 DEF FilesPending
<1>5. InitIndexing \/ InitDone \/ NoLoading \/ UpdateDone => ocl_changes_map' = ocl_changes_map
  BY DEF InitIndexing, InitDone, NoLoading, UpdateDone
<1>6. InitialAccessApplying => ocl_changes_map' = ocl_changes_map
  BY DEF InitialAccessApplying
<1>7. UNCHANGED vars => ocl_changes_map' = ocl_changes_map
  BY DEF vars, programVars, loopVars
<1> QED BY <1>2, <1>3, <1>4, <1>5, <1>6, <1>7

LEMMA RowsNext ==
  ASSUME TypeShape, AllRowsOK, [Next]_vars
  PROVE  AllRowsOK'
<1>0. TypeOK
  BY DEF TypeShape
<1>1. CASE World \/ SafeWallets
  <2>1. WorldGrows
    BY <1>0, <1>1, WorldStep
  <2>2. UNCHANGED <<off_chain_ocl_project_map, ocl_changes_map>>
    BY <2>1 DEF WorldGrows, programVars, projectVars, loopVars
  <2>3. ASSUME NEW o \in OclIds
        PROVE  RowsOK(o)'
    <3>1. /\ IsKept(rooms'[o])
          /\ o \in KnownProjects => RemovedFiles(o)' = RemovedFiles(o)
      BY <1>0, <2>1, WorldRows
    <3>2. KnownProjects' = KnownProjects /\ FilesPending(o)' = FilesPending(o)
      BY <2>2 DEF KnownProjects, FilesPending
    <3> QED BY <2>2, <3>1, <3>2 DEF AllRowsOK, RowsOK
  <2> QED BY <2>3 DEF AllRowsOK
<1>2. CASE InitLoading \/ Loading
  <2>1. LoadMoleculeProjects /\ rooms' = rooms
    BY <1>2 DEF InitLoading, Loading, worldVars, nodeVars
  <2>2. \A o : \/ InitLoading /\ FilesPending(o)' = {}
               \/ Loading
    BY <1>2 DEF InitLoading, FilesPending, TypeShape, Shape
  <2>3. ASSUME NEW o \in OclIds, o \in Existing \cup NewProjects
        PROVE  RowsOK(o)'
    BY <1>0, <2>1, <2>2, <2>3, LoadedFiles, LoadedChanges DEF AllRowsOK, RowsOK
  <2>4. ASSUME NEW o \in OclIds, o \notin Existing \cup NewProjects
        PROVE  RowsOK(o)'
    <3>1. FilesPending(o)' = {}
      BY <2>2, <2>4, LoadedChanges
    <3>2. o \in KnownProjects' =>
            /\ o \in KnownProjects
            /\ off_chain_ocl_project_map'[o] = off_chain_ocl_project_map[o]
            /\ RemovedFiles(o)' = RemovedFiles(o)
      BY <1>0, <2>1, <2>4, UnloadedFiles
    <3> QED BY <2>1, <3>1, <3>2 DEF AllRowsOK, RowsOK
  <2> QED BY <2>3, <2>4 DEF AllRowsOK
<1>3. CASE InitIndexing \/ InitialAccessApplying \/ InitDone \/ Indexing \/ NoLoading
             \/ IntervalAccessApplying \/ UpdateDone \/ UNCHANGED vars
  <2> SUFFICES ASSUME NEW o \in OclIds
               PROVE  RowsOK(o)'
    BY DEF AllRowsOK
  <2>1. /\ UNCHANGED <<rooms, off_chain_ocl_project_map>>
        /\ FilesPending(o)' \in {FilesPending(o), {}}
    BY <1>3, NothingIsRead
  <2>2. KnownProjects' = KnownProjects /\ RemovedFiles(o)' = RemovedFiles(o)
    BY <2>1 DEF KnownProjects, RemovedFiles, ReadRows
  <2> QED BY <2>1, <2>2 DEF AllRowsOK, RowsOK
<1>4. CASE Crash
  BY <1>4 DEF Crash, Nothing, worldVars, nodeVars, KnownProjects, AllRowsOK, RowsOK
<1> QED BY <1>1, <1>2, <1>3, <1>4 DEF Next, AppInit, AppUpdate

LEMMA RowsAreOK == Spec => [](TypeShape /\ AllRowsOK)
<1>1. ASSUME Init
      PROVE  AllRowsOK
  <2>1. \A o \in OclIds : rooms[o] = <<>> \/ \E row : rooms[o] = <<row>>
    BY <1>1 DEF Init
  <2>2. \A rows : rows = <<>> \/ (\E row : rows = <<row>>) => IsKept(rows)
    BY DEF IsKept
  <2>3. KnownProjects = {}
    BY <1>1 DEF Init, Nothing, KnownProjects
  <2> QED BY <2>1, <2>2, <2>3 DEF AllRowsOK, RowsOK
<1>2. TypeShape /\ AllRowsOK /\ [Next]_vars => AllRowsOK'
  BY RowsNext
<1> QED BY <1>1, <1>2, ShapeIsKept, PTL DEF Spec

-----------------------------------------------------------------------------
(* What a step does to a removed file of one project. *)

LEMMA InitialFile ==
  ASSUME TypeShape, NEW o \in KnownProjects, Initially(o),
         NEW f \in off_chain_ocl_project_map[o].removed_files_map
  PROVE  \A p : <<p, f>> \in access'[o] =>
           /\ <<p, f>> \in access[o]
           /\ p \notin UNION {EverBehind(multisig', a) : a \in OwnersAsked(o)}
<1> DEFINE operations == InitialOperations(multisig', o)
<1>0. Parts /\ TypeOK /\ o \in OclIds /\ o \in DOMAIN entries
  BY TypeOKParts DEF TypeShape, Parts, ProjectsOK, ChainOK, KnownProjects
<1>1. access'[o] = Apply(access[o], operations)
  BY <1>0, AppliedIsSet DEF Initially, Parts
<1>2. f \in ProjectDatasets(o).removed
  BY DEF ProjectDatasets, GetProjectDatasetIds
<1>3. \A p : /\ <<p, f>> \notin operations.set
             /\ p \in CurrentOwners(multisig', o) \cup RevokeAccess(multisig', o)
                  => <<p, f>> \in operations.unset
  BY <1>2, BuildOperationsEffect DEF InitialOperations
<1>4. CurrentOwners(multisig', o) \cup RevokeAccess(multisig', o)
        = UNION {EverBehind(multisig', a) : a \in OwnersAsked(o)}
  BY <1>0, AccountsByProject DEF Initially, Learns
<1> HIDE DEF operations
<1> QED BY <1>1, <1>3, <1>4 DEF Apply

LEMMA IntervalFile ==
  ASSUME TypeShape, NEW o \in DOMAIN ocl_changes_map, o \in KnownProjects, RowsOK(o),
         InInterval(o), NEW f \in RemovedFiles(o)
  PROVE  /\ \A p : <<p, f>> \in access'[o] =>
              /\ <<p, f>> \in access[o]
              /\ OwnersPending(o) => p \notin CurrentOwners(multisig', o)
              /\ [file |-> f, change |-> Removed] \in FilesPending(o) =>
                   p \notin UNION {EverBehind(multisig', a) : a \in OwnersAsked(o)}
         /\ [file |-> f, change |-> Removed] \in FilesPending(o) =>
              OwnersAsked(o) \subseteq DOMAIN multisig'
<1> DEFINE whole == ocl_changes_map[o]
           change == whole.owner_changes
           files == whole.changed_files
           first == BlockchainOperations(multisig', o, change)
           second == ProjectOperations(multisig', o, files)
<1>0. /\ Parts /\ TypeOK /\ o \in OclIds /\ o \in DOMAIN entries
      /\ whole \in OclChange /\ files \in ChangedFiles /\ f \in Files
  BY TypeOKParts, EntitiesType
     DEF TypeShape, Parts, ProjectsOK, ChainOK, LoopOK, KnownProjects, OclChange, RemovedFiles
<1>1. /\ Learns(IntervalAsked(o, whole))
      /\ Applies(o, IntervalAccounts(multisig', change), IntervalOperations(multisig', o, whole))
  BY DEF InInterval
<1>2. access'[o] = Apply(Apply(access[o], first), second)
  <2>1. access'[o] = Apply(access[o], IntervalOperations(multisig', o, whole))
    BY <1>0, <1>1, AppliedIsSet DEF Parts
  <2> QED BY <2>1, ExtendComposes DEF IntervalOperations
<1>3. FilesPending(o) = files /\ (OwnersPending(o) <=> change # NoChange)
  BY DEF FilesPending, OwnersPending
<1>4. f \in ProjectDatasets(o).removed
  BY DEF ProjectDatasets, GetProjectDatasetIds, RowsOK
<1>5. files # {} => OwnersAsked(o) \subseteq DOMAIN multisig'
  BY <1>0, <1>1, IntervalAskedType DEF Learns
<1>6. \A p : /\ <<p, f>> \notin first.set
             /\ change # NoChange /\ p \in CurrentOwners(multisig', o) => <<p, f>> \in first.unset
  <2>1. CASE change = NoChange
    BY <2>1 DEF BlockchainOperations, NoOperations
  <2>2. CASE change # NoChange
    <3>1. first = BuildOperations(ProjectDatasets(o), CurrentOwners(multisig', o),
                    Revoked(CurrentOwners(multisig', o), OldOwners(multisig', change)))
      BY <2>2, NewOwnersAreOwners DEF BlockchainOperations
    <3> HIDE DEF first
    <3> QED BY <1>4, <3>1, BuildOperationsEffect
  <2> QED BY <2>1, <2>2
<1> DEFINE removed == [file |-> f, change |-> Removed]
<1>7. removed \in files \/ ~ \E c \in files : c.file = f /\ c.change # Removed
  BY <1>3 DEF RowsOK
<1>8. \A p : /\ <<p, f>> \notin second.set
             /\ removed \in files /\ p \in CurrentOwners(multisig', o) \cup RevokeAccess(multisig', o)
                  => <<p, f>> \in second.unset
  <2> HIDE DEF files
  <2> QED BY <1>0, <1>7, ProjectOperationsEffect
<1>9. removed \in files =>
        CurrentOwners(multisig', o) \cup RevokeAccess(multisig', o)
          = UNION {EverBehind(multisig', a) : a \in OwnersAsked(o)}
  BY <1>0, <1>1, <1>5, AccountsByProject DEF Learns
<1> HIDE DEF whole, change, files, first, second
<1> QED BY <1>2, <1>3, <1>5, <1>6, <1>8, <1>9 DEF Apply, removed

-----------------------------------------------------------------------------
(* Removed files, step by step. *)

\* A project left alone keeps what was taken away out of reach.
LEMMA RevokedLeftAlone ==
  ASSUME NEW o, NEW f, IsRevoked(o, f), LeftAlone(o)
  PROVE  IsRevoked(o, f)'
<1>1. entries[o].current \in DOMAIN multisig =>
        CurrentOwners(multisig, o)' = CurrentOwners(multisig, o)
  <2>1. CurrentOwners(multisig, o)' = CurrentOwners(multisig', o)
    BY DEF CurrentOwners, LeftAlone
  <2> QED BY <2>1, OwnersNowKept DEF LeftAlone
<1> QED BY <1>1 DEF IsRevoked, LeftAlone

\* So do the steps that give nothing, index nothing and read nothing.
LEMMA GivenNothing ==
  ASSUME NEW o,
         World \/ SafeWallets \/ InitLoading \/ Loading \/ InitDone \/ NoLoading \/ UpdateDone
           \/ UNCHANGED vars
  PROVE  LeftAlone(o)
BY NothingIsGiven, OwnersStayPending DEF LeftAlone

LEMMA InitialFilesOK ==
  ASSUME TypeShape, RoomsOK, AllRowsOK, FilesOK, InitialAccessApplying
  PROVE  FilesOK'
<1>1. PICK o \in KnownProjects : Initially(o)
  BY InitialStep
<1>2. /\ o \in OclIds
      /\ served'[o] \subseteq served[o] \cup CurrentOwners(multisig', o)
      /\ entries[o].current \in DOMAIN multisig'
      /\ \A q \in OclIds \ {o} : LeftAlone(q)
  BY <1>1, InitialRoom
<1>3. /\ UNCHANGED <<rooms, entries, off_chain_ocl_project_map, ocl_changes_map, phase>>
      /\ known_at_init' = known_at_init \cup {o}
      /\ DOMAIN multisig \subseteq DOMAIN multisig'
      /\ \A a \in DOMAIN multisig : multisig'[a] = multisig[a]
  BY <1>1 DEF Initially, Learns, worldVars, nodeVars, chainVars, projectVars
<1>4. /\ KnownProjects' = KnownProjects
      /\ \A q : RemovedFiles(q)' = RemovedFiles(q) /\ FilesPending(q)' = FilesPending(q)
  BY <1>3 DEF KnownProjects, RemovedFiles, ReadRows, FilesPending
<1>5. ASSUME NEW f \in RemovedFiles(o)
      PROVE  IsRevoked(o, f)'
  <2>1. f \in off_chain_ocl_project_map[o].removed_files_map
    BY <1>2 DEF AllRowsOK, RowsOK
  <2>2. \A p : <<p, f>> \in access'[o] =>
          p \notin UNION {EverBehind(multisig', a) : a \in OwnersAsked(o)}
    BY <1>1, <2>1, InitialFile
  <2>3. \A p \in CurrentOwners(multisig', o) : <<p, f>> \notin access'[o]
    BY <2>2 DEF CurrentOwners, EverBehind, OwnersAsked
  <2>4. ASSUME NEW p \in served[o]
        PROVE  <<p, f>> \notin access'[o]
    <3>1. PICK a \in OwnersAsked(o) \cap DOMAIN multisig : p \in EverBehind(multisig, a)
      BY <1>2 DEF RoomsOK, RoomOK, ServedAreKnown
    <3>2. p \in EverBehind(multisig', a)
      BY <1>3, <3>1, BehindSame
    <3> QED BY <2>2, <3>1, <3>2
  <2>5. CurrentOwners(multisig, o)' = CurrentOwners(multisig', o)
    BY <1>3 DEF CurrentOwners
  <2> QED BY <1>2, <1>3, <2>3, <2>4, <2>5 DEF IsRevoked
<1>6. ASSUME NEW q \in KnownProjects, q # o, NEW f \in RemovedFiles(q)
      PROVE  RemovalOK(q, f)'
  <2>1. q \in OclIds
    BY DEF TypeShape, TypeOK, KnownProjects
  <2>2. RemovalOK(q, f) /\ LeftAlone(q)
    BY <1>2, <1>6, <2>1 DEF FilesOK
  <2> QED BY <1>3, <1>4, <1>6, <2>2, RevokedLeftAlone DEF RemovalOK
<1> QED BY <1>4, <1>5, <1>6 DEF FilesOK, RemovalOK

LEMMA IntervalFilesOK ==
  ASSUME TypeShape, RoomsOK, AllRowsOK, FilesOK, IntervalAccessApplying
  PROVE  FilesOK'
<1>0. Parts /\ TypeOK
  BY TypeOKParts DEF TypeShape
<1>1. PICK o \in DOMAIN ocl_changes_map : InInterval(o)
  BY IntervalStep
<1>2. o \in OclIds
  BY <1>0 DEF Parts, LoopOK, ChainOK
<1>3. /\ UNCHANGED <<rooms, entries, off_chain_ocl_project_map, known_at_init, phase>>
      /\ ocl_changes_map' = [q \in DOMAIN ocl_changes_map \ {o} |-> ocl_changes_map[q]]
      /\ phase = "applying"
  BY <1>1 DEF InInterval, worldVars, nodeVars, chainVars, projectVars
<1>4. /\ DOMAIN multisig \subseteq DOMAIN multisig'
      /\ \A a \in DOMAIN multisig : multisig'[a] = multisig[a]
      /\ created \subseteq created'
  BY <1>1 DEF InInterval, Learns, Applies
<1>5. /\ KnownProjects' = KnownProjects
      /\ \A q : RemovedFiles(q)' = RemovedFiles(q)
      /\ \A q : q # o => FilesPending(q)' = FilesPending(q)
  BY <1>3 DEF KnownProjects, RemovedFiles, ReadRows, FilesPending
<1>6. ASSUME NEW q \in OclIds \ {o}
      PROVE  LeftAlone(q)
  <2>1. access'[q] = access[q] /\ served'[q] = served[q]
    BY <1>0, <1>1, <1>2, AppliedIsSet DEF InInterval, Parts
  <2> QED BY <1>3, <1>4, <2>1 DEF LeftAlone, OwnersPending
<1>7. ASSUME NEW q \in KnownProjects, q # o, NEW f \in RemovedFiles(q)
      PROVE  RemovalOK(q, f)'
  <2>1. q \in OclIds
    BY <1>0 DEF TypeOK, KnownProjects
  <2>2. RemovalOK(q, f) /\ LeftAlone(q)
    BY <1>6, <1>7, <2>1 DEF FilesOK
  <2> QED BY <1>3, <1>5, <1>7, <2>2, RevokedLeftAlone DEF RemovalOK
<1>8. ASSUME o \in KnownProjects, NEW f \in RemovedFiles(o)
      PROVE  IsRevoked(o, f)'
  <2> DEFINE change == ocl_changes_map[o].owner_changes
             removed == [file |-> f, change |-> Removed]
  <2>1. RowsOK(o) /\ RoomOK(o) /\ RemovalOK(o, f)
    BY <1>2, <1>8 DEF AllRowsOK, RoomsOK, FilesOK
  <2>2. /\ \A p : <<p, f>> \in access'[o] =>
             /\ <<p, f>> \in access[o]
             /\ OwnersPending(o) => p \notin CurrentOwners(multisig', o)
             /\ removed \in FilesPending(o) =>
                  p \notin UNION {EverBehind(multisig', a) : a \in OwnersAsked(o)}
        /\ removed \in FilesPending(o) => OwnersAsked(o) \subseteq DOMAIN multisig'
    BY <1>1, <1>8, <2>1, IntervalFile
  <2>3. /\ served'[o] = served[o] \/ entries[o].current \in DOMAIN multisig'
        /\ served'[o] \subseteq served[o] \cup CurrentOwners(multisig', o)
        /\ OwnersPending(o) => entries[o].current \in DOMAIN multisig'
    BY <1>1, <1>8, IntervalRoom
  <2>4. CurrentOwners(multisig, o)' = CurrentOwners(multisig', o)
    BY <1>3 DEF CurrentOwners
  <2>5. entries[o].current \in DOMAIN multisig =>
          CurrentOwners(multisig', o) = CurrentOwners(multisig, o)
    BY <1>3, <1>4, OwnersNowKept
  <2>6. CASE removed \in FilesPending(o)
    <3>1. entries[o].current \in DOMAIN multisig'
      BY <2>2, <2>6 DEF OwnersAsked
    <3>2. \A p \in CurrentOwners(multisig', o) : <<p, f>> \notin access'[o]
      BY <2>2, <2>6 DEF CurrentOwners, EverBehind, OwnersAsked
    <3>3. ASSUME NEW p \in served[o]
          PROVE  <<p, f>> \notin access'[o]
      <4>1. PICK a \in OwnersAsked(o) \cap DOMAIN multisig : p \in EverBehind(multisig, a)
        BY <2>1 DEF RoomOK, ServedAreKnown
      <4>2. p \in EverBehind(multisig', a)
        BY <1>4, <4>1, BehindSame
      <4> QED BY <2>2, <2>6, <4>1, <4>2
    <3> QED BY <1>3, <2>3, <2>4, <3>1, <3>2, <3>3 DEF IsRevoked
  <2>7. CASE IsRevoked(o, f)
    <3>1. \A p \in served[o] : <<p, f>> \notin access'[o]
      BY <2>2, <2>7 DEF IsRevoked
    <3>2. CASE OwnersPending(o)
      BY <1>3, <2>2, <2>3, <2>4, <3>1, <3>2 DEF IsRevoked
    <3>3. CASE ~OwnersPending(o)
      BY <1>3, <1>4, <2>2, <2>3, <2>4, <2>5, <2>7, <3>1, <3>3 DEF IsRevoked
    <3> QED BY <3>2, <3>3
  <2> QED BY <1>3, <2>1, <2>6, <2>7 DEF RemovalOK
<1> QED BY <1>5, <1>7, <1>8 DEF FilesOK, RemovalOK

LEMMA LoadingFilesOK ==
  ASSUME TypeShape, AllRowsOK, FilesOK, Loading
  PROVE  FilesOK'
<1>0. TypeOK
  BY DEF TypeShape
<1>1. LoadMoleculeProjects /\ rooms' = rooms /\ phase = "indexed"
  BY DEF Loading, worldVars, nodeVars
<1>2. \A o \in KnownProjects : \A f \in RemovedFiles(o) : IsRevoked(o, f)
  BY <1>1, LoadedChanges DEF FilesOK, RemovalOK
<1>3. \A o : LeftAlone(o)
  BY GivenNothing
<1>4. ASSUME NEW o \in KnownProjects', NEW f \in RemovedFiles(o)'
      PROVE  RemovalOK(o, f)'
  <2>1. CASE o \in Existing \cup NewProjects
    <3>1. \/ [file |-> f, change |-> Removed] \in Processed(o).changes
          \/ o \in KnownProjects /\ f \in RemovedFiles(o)
      BY <1>0, <1>1, <2>1, LoadedFiles
    <3>2. FilesPending(o)' = Processed(o).changes
      BY <2>1, LoadedChanges
    <3> QED BY <1>2, <1>3, <3>1, <3>2, RevokedLeftAlone DEF RemovalOK
  <2>2. CASE o \notin Existing \cup NewProjects
    <3>1. o \in KnownProjects /\ f \in RemovedFiles(o)
      BY <1>0, <1>1, <2>2, UnloadedFiles
    <3> QED BY <1>2, <1>3, <3>1, RevokedLeftAlone DEF RemovalOK
  <2> QED BY <2>1, <2>2
<1> QED BY <1>4 DEF FilesOK

LEMMA IndexingFilesOK ==
  ASSUME TypeShape, FilesOK, Indexing
  PROVE  FilesOK'
<1>0. TypeOK
  BY DEF TypeShape
<1>1. /\ UNCHANGED <<rooms, off_chain_ocl_project_map, access, served>>
      /\ multisig' = IndexedWallets /\ phase = "sleeping"
  BY DEF Indexing, worldVars, nodeVars, projectVars, historyVars
<1>2. KnownProjects' = KnownProjects /\ \A o : RemovedFiles(o)' = RemovedFiles(o)
  BY <1>1 DEF KnownProjects, RemovedFiles, ReadRows
<1>3. \A o : FilesPending(o) = {} /\ ~OwnersPending(o)
  BY <1>1 DEF TypeShape, Shape, FilesPending, OwnersPending
<1>4. ASSUME NEW o \in KnownProjects, NEW f \in RemovedFiles(o)
      PROVE  IsRevoked(o, f)'
  <2> DEFINE address == entries[o].current
  <2>1. /\ \A p \in served[o] : <<p, f>> \notin access[o]
        /\ address \in DOMAIN multisig
        /\ \A p \in CurrentBehind(multisig, address) : <<p, f>> \notin access[o]
    BY <1>1, <1>3, <1>4 DEF FilesOK, RemovalOK, IsRevoked, CurrentOwners
  <2>2. CASE OwnersPending(o)'
    BY <1>1, <2>1, <2>2 DEF IsRevoked
  <2>3. CASE ~OwnersPending(o)'
    <3>1. entries'[o].current = address /\ address \notin ChangedMultisigs
      BY <2>3, <1>4, IndexedChange
    <3>2. DOMAIN multisig' = DOMAIN multisig
            /\ CurrentBehind(multisig', address) = CurrentBehind(multisig, address)
      BY <1>0, <1>1, <2>1, <3>1, IndexedWalletsType, IndexedBehind, BehindSame
    <3>3. CurrentOwners(multisig, o)' = CurrentBehind(multisig', address)
      BY <3>1 DEF CurrentOwners
    <3> QED BY <1>1, <2>1, <3>1, <3>2, <3>3 DEF IsRevoked
  <2> QED BY <2>2, <2>3
<1> QED BY <1>2, <1>4 DEF FilesOK, RemovalOK

LEMMA FilesNext ==
  ASSUME TypeShape, RoomsOK, AllRowsOK, FilesOK, [Next]_vars
  PROVE  FilesOK'
<1>0. TypeOK
  BY DEF TypeShape
<1>1. CASE World \/ SafeWallets
  <2>1. WorldGrows
    BY <1>0, <1>1, WorldStep
  <2>2. UNCHANGED <<off_chain_ocl_project_map, ocl_changes_map, phase, known_at_init>>
    BY <2>1 DEF WorldGrows, programVars, projectVars, loopVars, historyVars
  <2>3. KnownProjects' = KnownProjects /\ \A o : FilesPending(o)' = FilesPending(o)
    BY <2>2 DEF KnownProjects, FilesPending
  <2>4. \A o \in KnownProjects : RemovedFiles(o)' = RemovedFiles(o)
    BY <1>0, <2>1, WorldRows DEF TypeOK, KnownProjects
  <2>5. \A o : LeftAlone(o)
    BY <1>1, GivenNothing
  <2> QED BY <2>2, <2>3, <2>4, <2>5, RevokedLeftAlone DEF FilesOK, RemovalOK
<1>2. CASE InitDone \/ NoLoading \/ UpdateDone \/ UNCHANGED vars
  <2>1. UNCHANGED <<rooms, off_chain_ocl_project_map, ocl_changes_map, known_at_init>>
    <3>1. CASE InitDone \/ NoLoading \/ UpdateDone
      BY <3>1 DEF InitDone, NoLoading, UpdateDone, worldVars, nodeVars, projectVars, historyVars
    <3>2. CASE UNCHANGED vars
      BY <3>2 DEF vars, worldVars, nodeVars, programVars, projectVars, loopVars, historyVars
    <3> QED BY <1>2, <3>1, <3>2
  <2>2. /\ KnownProjects' = KnownProjects
        /\ \A o : FilesPending(o)' = FilesPending(o) /\ RemovedFiles(o)' = RemovedFiles(o)
    BY <2>1 DEF KnownProjects, FilesPending, RemovedFiles, ReadRows
  <2>3. \A o : LeftAlone(o)
    BY <1>2, GivenNothing
  <2>4. \A o \in KnownProjects :
          phase = "granting" /\ o \notin known_at_init => phase' = phase
    BY <1>2 DEF InitDone, NoLoading, UpdateDone, KnownProjects, vars, programVars, loopVars
  <2> QED BY <2>1, <2>2, <2>3, <2>4, RevokedLeftAlone DEF FilesOK, RemovalOK
<1>3. CASE InitIndexing
  BY <1>3 DEF InitIndexing, projectVars, TypeShape, Shape, KnownProjects, FilesOK
<1>4. CASE InitLoading
  <2>1. phase' = "granting" /\ known_at_init' = {}
    BY <1>0, <1>4 DEF InitLoading, historyVars, TypeShape, Shape, TypeOK, KnownProjects
  <2> QED BY <2>1 DEF FilesOK, RemovalOK
<1>5. CASE Crash
  BY <1>5 DEF Crash, Nothing, KnownProjects, FilesOK
<1> QED BY <1>1, <1>2, <1>3, <1>4, <1>5, InitialFilesOK, IntervalFilesOK, LoadingFilesOK,
           IndexingFilesOK
        DEF Next, AppInit, AppUpdate

LEMMA FilesAreOK == Spec => [](TypeShape /\ FilesOK)
<1>1. Init => FilesOK
  BY DEF Init, Nothing, KnownProjects, FilesOK
<1>2. TypeShape /\ RoomsOK /\ AllRowsOK /\ FilesOK /\ [Next]_vars => FilesOK'
  BY FilesNext
<1> QED BY <1>1, <1>2, ShapeIsKept, RoomsAreOK, RowsAreOK, PTL DEF Spec

\* A file whose last row, of those this process has read, retracts it is out of reach of
\* everyone it knows as an owner or has ever served, of those who got the OCL later
\* included: its removal is applied by the initial run or by the iteration that reads it,
\* and no batch gives it again, as removed files come last in build_operations.
THEOREM RemovedFilesAreOutOfReach == Spec => []RemovedFilesAreRevoked
<1>1. ASSUME TypeShape, FilesOK, AtRest, NEW o \in KnownProjects, NEW f \in RemovedFiles(o),
             NEW p \in OwnersNow(o) \cup OwnersBefore(o)
      PROVE  <<p, f>> \notin access[o]
  <2>1. FilesPending(o) = {} /\ ~OwnersPending(o) /\ phase # "granting"
    BY <1>1, NothingPendsAtRest DEF AtRest
  <2>2. IsRevoked(o, f)
    BY <1>1, <2>1 DEF FilesOK, RemovalOK
  <2> QED BY <2>1, <2>2 DEF IsRevoked, OwnersNow, OwnersBefore
<1>2. TypeShape /\ FilesOK => RemovedFilesAreRevoked
  BY <1>1 DEF RemovedFilesAreRevoked, RemovedFiles
<1> QED BY <1>2, FilesAreOK, PTL
=============================================================================
