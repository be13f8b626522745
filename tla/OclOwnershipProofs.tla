------------------------- MODULE OclOwnershipProofs -------------------------
(***************************************************************************)
(* What the operators of the ownership projection return, for every batch  *)
(* and every projection: the facts the state machines rest on.             *)
(***************************************************************************)
EXTENDS OclOwnership, TLAPS

\* A batch of transfers: a function from integer positions to events.
IsBatch(events) == /\ DOMAIN events \subseteq Int
                   /\ \A i \in DOMAIN events : events[i] \in OclTransferEvent

\* Position k holds the last event of OCL o in the batch.
IsLastOf(events, o, k) ==
  /\ k \in DOMAIN events
  /\ events[k].ocl_id = o
  /\ \A j \in DOMAIN events : events[j].ocl_id = o => j <= k

\* Entries of the projection map: well-formed projections of known OCLs.
IsEntries(entries) == /\ DOMAIN entries \subseteq OclIds
                      /\ \A o \in DOMAIN entries : entries[o] \in OclOwnershipProjection

\* compress_events keeps, of every OCL in the batch, the owner its last event
\* gave it, wherever that event is.
LEMMA CompressEventsKeepsLast ==
  ASSUME NEW events, IsBatch(events), NEW o, NEW k, IsLastOf(events, o, k)
  PROVE  /\ o \in DOMAIN CompressEvents(events)
         /\ CompressEvents(events)[o] = events[k].to
<1> DEFINE last == CHOOSE i \in DOMAIN events :
                     /\ events[i].ocl_id = o
                     /\ \A j \in DOMAIN events : events[j].ocl_id = o => j <= i
<1>1. last = k
  <2>1. /\ last \in DOMAIN events
        /\ events[last].ocl_id = o
        /\ \A j \in DOMAIN events : events[j].ocl_id = o => j <= last
    BY DEF IsLastOf
  <2>2. last <= k /\ k <= last
    BY <2>1 DEF IsLastOf
  <2> QED BY <2>1, <2>2 DEF IsBatch, IsLastOf
<1>2. o \in {events[i].ocl_id : i \in DOMAIN events}
  BY DEF IsLastOf
<1> QED BY <1>1, <1>2 DEF CompressEvents

\* compress_events mentions no OCL the batch does not mention.
LEMMA CompressEventsDomain ==
  ASSUME NEW events
  PROVE  DOMAIN CompressEvents(events) = {events[i].ocl_id : i \in DOMAIN events}
BY DEF CompressEvents

\* apply_transfer makes the new owner current, remembers exactly the others, and
\* returns the owner it replaced, or nothing when the owner stays.
LEMMA ApplyTransferResult ==
  ASSUME NEW projection \in OclOwnershipProjection, NEW new_owner \in Addresses
  PROVE  LET applied == ApplyTransfer(projection, new_owner)
         IN  /\ applied.projection \in OclOwnershipProjection
             /\ applied.projection.current = new_owner
             /\ applied.former_owner = NoOwner <=> projection.current = new_owner
             /\ applied.former_owner # NoOwner => applied.former_owner = projection.current
             /\ projection.current \notin projection.previous =>
                  /\ new_owner \notin applied.projection.previous
                  /\ applied.projection.previous \cup {new_owner} =
                       projection.previous \cup {projection.current, new_owner}
<1>1. projection.current # NoOwner
  BY NoOwnerAssumption DEF OclOwnershipProjection
<1>2. CASE projection.current = new_owner
  BY <1>1, <1>2 DEF ApplyTransfer, OclOwnershipProjection
<1>3. CASE projection.current # new_owner
  BY <1>1, <1>3 DEF ApplyTransfer, OclOwnershipProjection
<1> QED BY <1>2, <1>3

\* apply_events, OCL by OCL: the entries after the batch.
LEMMA ApplyEventsEntries ==
  ASSUME NEW entries, IsEntries(entries), NEW events,
         DOMAIN CompressEvents(events) \subseteq OclIds,
         \A o \in DOMAIN CompressEvents(events) : CompressEvents(events)[o] \in Addresses
  PROVE  LET compressed == CompressEvents(events)
             after      == ApplyEvents(entries, events).entries
         IN  /\ IsEntries(after)
             /\ DOMAIN after = DOMAIN entries \cup DOMAIN compressed
             /\ \A o \in DOMAIN after :
                  IF o \notin DOMAIN compressed THEN after[o] = entries[o]
                  ELSE IF o \notin DOMAIN entries THEN after[o] = NewProjection(compressed[o])
                  ELSE after[o] = ApplyTransfer(entries[o], compressed[o]).projection
<1> DEFINE compressed == CompressEvents(events)
           after == ApplyEvents(entries, events).entries
<1>1. DOMAIN after = DOMAIN entries \cup DOMAIN compressed
  BY DEF ApplyEvents
<1>2. ASSUME NEW o \in DOMAIN after
      PROVE  /\ IF o \notin DOMAIN compressed THEN after[o] = entries[o]
                ELSE IF o \notin DOMAIN entries THEN after[o] = NewProjection(compressed[o])
                ELSE after[o] = ApplyTransfer(entries[o], compressed[o]).projection
             /\ after[o] \in OclOwnershipProjection
  <2>1. CASE o \notin DOMAIN compressed
    BY <1>1, <2>1 DEF ApplyEvents, IsEntries
  <2>2. CASE o \in DOMAIN compressed /\ o \notin DOMAIN entries
    BY <1>1, <2>2 DEF ApplyEvents, NewProjection, OclOwnershipProjection
  <2>3. CASE o \in DOMAIN compressed /\ o \in DOMAIN entries
    <3>1. after[o] = ApplyTransfer(entries[o], compressed[o]).projection
      BY <1>1, <2>3 DEF ApplyEvents
    <3>2. entries[o] \in OclOwnershipProjection /\ compressed[o] \in Addresses
      BY <2>3 DEF IsEntries
    <3>3. ApplyTransfer(entries[o], compressed[o]).projection \in OclOwnershipProjection
      BY <3>2, ApplyTransferResult
    <3> QED BY <3>1, <3>3, <2>3
  <2> QED BY <1>1, <2>1, <2>2, <2>3
<1> QED BY <1>1, <1>2 DEF IsEntries

\* apply_events, OCL by OCL: the difference it reports.
LEMMA ApplyEventsDiff ==
  ASSUME NEW entries, IsEntries(entries), NEW events,
         DOMAIN CompressEvents(events) \subseteq OclIds,
         \A o \in DOMAIN CompressEvents(events) : CompressEvents(events)[o] \in Addresses
  PROVE  LET compressed == CompressEvents(events)
         IN  ApplyEvents(entries, events).diff =
               [o \in {o \in DOMAIN compressed :
                         o \in DOMAIN entries => entries[o].current # compressed[o]} |->
                  [former_owner  |-> IF o \in DOMAIN entries THEN entries[o].current
                                     ELSE NoOwner,
                   current_owner |-> compressed[o]]]
<1> DEFINE compressed == CompressEvents(events)
           occupied == DOMAIN compressed \cap DOMAIN entries
           vacant == DOMAIN compressed \ DOMAIN entries
           applied == [o \in occupied |-> ApplyTransfer(entries[o], compressed[o])]
           changed == {o \in occupied : applied[o].former_owner # NoOwner}
           reported == {o \in DOMAIN compressed :
                          o \in DOMAIN entries => entries[o].current # compressed[o]}
<1>1. \A o \in occupied :
        /\ applied[o].former_owner = NoOwner <=> entries[o].current = compressed[o]
        /\ applied[o].former_owner # NoOwner => applied[o].former_owner = entries[o].current
  BY ApplyTransferResult DEF IsEntries
<1>2. changed \cup vacant = reported
  BY <1>1
<1>3. ApplyEvents(entries, events).diff =
        [o \in changed \cup vacant |->
           [former_owner  |-> IF o \in vacant THEN NoOwner ELSE applied[o].former_owner,
            current_owner |-> compressed[o]]]
  BY DEF ApplyEvents
<1>4. \A o \in reported :
        (IF o \in vacant THEN NoOwner ELSE applied[o].former_owner)
          = IF o \in DOMAIN entries THEN entries[o].current ELSE NoOwner
  BY <1>1
<1> HIDE DEF applied, changed, vacant, occupied
<1> QED BY <1>2, <1>3, <1>4
=============================================================================
