-------------------------- MODULE MultisigWallets --------------------------
(***************************************************************************)
(* What the bridge remembers of the wallets it has asked about, and how    *)
(* that changes: the AppState map `multisig`, from an address to the       *)
(* owners of a Safe, or to nothing when the address is a regular wallet.   *)
(***************************************************************************)
EXTENDS Integers

CONSTANTS Wallets,  \* addresses that can own an OCL
          People,   \* addresses that can be owners of a Safe
          Regular   \* the map's value for an address that is not a Safe

MultisigState == [current_owners : SUBSET People, former_owners : SUBSET People]

ASSUME PeopleAssumption == People # {}
ASSUME RegularAssumption == \A state \in MultisigState : state # Regular

\* A plausible slip: the owner that leaves is dropped without a trace.
RemovedOwnerForgotten(state, removed_owner) ==
  [state EXCEPT !.current_owners = @ \ {removed_owner}]

\* A plausible slip: only the newer form of the event is understood.
AddedOwnerIgnored(state, added_owner) == state

AddedOwner(state, added_owner) ==
  [state EXCEPT !.current_owners = @ \cup {added_owner}]

RemovedOwner(state, removed_owner) ==
  [state EXCEPT !.current_owners = @ \ {removed_owner},
                !.former_owners  = @ \cup {removed_owner}]

\* The state of a Safe seen for the first time: its owners from the Safe API, and
\* the owners its RemovedOwner logs name that the API does not.
NewMultisigState(multisig_owners_from_api, removed_owners) ==
  [current_owners |-> multisig_owners_from_api,
   former_owners  |-> removed_owners \ multisig_owners_from_api]

\* The owners behind an address: those of the Safe, or the address itself.
GetOwnersResponse(address, known) ==
  IF known = Regular THEN [current_owners |-> {address}, former_owners |-> {}]
  ELSE [current_owners |-> known.current_owners, former_owners |-> known.former_owners]
=============================================================================
