---------------------------- MODULE OclOwnership ----------------------------
(***************************************************************************)
(* The ownership projection of the molecule_ocl crate: for every OCL the   *)
(* owner it has now and the owners it had before, folded from batches of   *)
(* OclTransfer events.                                                     *)
(*                                                                         *)
(* A batch of events is a function from positions (any integers, ordered   *)
(* as the log is) to events, so that a batch can be cut out of the chain   *)
(* without renumbering.  The vector `previous` is a set: nothing in the    *)
(* program depends on its order, and apply_transfer never stores an owner  *)
(* in it twice because the current owner is never one of the previous.     *)
(***************************************************************************)
EXTENDS Integers

CONSTANTS OclIds,     \* the OCL tokens of the LabNFT contract
          Addresses,  \* the addresses that can own a token
          NoOwner     \* the absent Option<Address>

ASSUME NoOwnerAssumption == NoOwner \notin Addresses

OclTransferEvent == [ocl_id : OclIds, to : Addresses]
OclOwnershipProjection == [current : Addresses, previous : SUBSET Addresses]
OclOwnershipChange == [former_owner : Addresses \cup {NoOwner},
                       current_owner : Addresses]

NewProjection(initial_owner) == [current |-> initial_owner, previous |-> {}]

\* A plausible slip: the new owner stays listed among the previous ones.
ApplyTransferWithoutRetain(projection, new_owner) ==
  IF projection.current = new_owner
  THEN [projection |-> projection, former_owner |-> NoOwner]
  ELSE [projection |-> [current  |-> new_owner,
                        previous |-> projection.previous \cup {projection.current}],
        former_owner |-> projection.current]

\* A plausible slip: the owner that loses the token is not remembered.
ApplyTransferWithoutPush(projection, new_owner) ==
  IF projection.current = new_owner
  THEN [projection |-> projection, former_owner |-> NoOwner]
  ELSE [projection |-> [current  |-> new_owner,
                        previous |-> projection.previous \ {new_owner}],
        former_owner |-> projection.current]

\* A plausible slip: a transfer to the owner itself counts as a change.
ApplyTransferToSelfIsChange(projection, new_owner) ==
  [projection |->
     [current  |-> new_owner,
      previous |-> (projection.previous \cup {projection.current}) \ {new_owner}],
   former_owner |-> projection.current]

\* The projection after a transfer, and the owner it took the token from
\* (NoOwner when the transfer changes nothing).
ApplyTransfer(projection, new_owner) ==
  IF projection.current = new_owner
  THEN [projection |-> projection, former_owner |-> NoOwner]
  ELSE [projection |->
          [current  |-> new_owner,
           previous |-> (projection.previous \ {new_owner}) \cup {projection.current}],
        former_owner |-> projection.current]

\* A plausible slip: the first event of an OCL wins (an `or_insert`).
CompressEventsKeepingFirst(events) ==
  [o \in {events[i].ocl_id : i \in DOMAIN events} |->
     LET first == CHOOSE i \in DOMAIN events :
                    /\ events[i].ocl_id = o
                    /\ \A j \in DOMAIN events : events[j].ocl_id = o => i <= j
     IN  events[first].to]

\* The last owner every OCL of the batch got.
CompressEvents(events) ==
  [o \in {events[i].ocl_id : i \in DOMAIN events} |->
     LET last == CHOOSE i \in DOMAIN events :
                   /\ events[i].ocl_id = o
                   /\ \A j \in DOMAIN events : events[j].ocl_id = o => j <= i
     IN  events[last].to]

\* The entries after a batch, and the difference map: one change for every OCL
\* whose owner the batch changed, however many transfers it went through.
ApplyEvents(entries, events) ==
  LET compressed == CompressEvents(events)
      occupied   == DOMAIN compressed \cap DOMAIN entries
      vacant     == DOMAIN compressed \ DOMAIN entries
      applied    == [o \in occupied |-> ApplyTransfer(entries[o], compressed[o])]
      changed    == {o \in occupied : applied[o].former_owner # NoOwner}
  IN  [entries |-> [o \in DOMAIN entries \cup vacant |->
                      IF o \in vacant THEN NewProjection(compressed[o])
                      ELSE IF o \in occupied THEN applied[o].projection
                      ELSE entries[o]],
       diff    |-> [o \in changed \cup vacant |->
                      [former_owner  |-> IF o \in vacant THEN NoOwner
                                         ELSE applied[o].former_owner,
                       current_owner |-> compressed[o]]]]
=============================================================================
