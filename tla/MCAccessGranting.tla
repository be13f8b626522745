-------------------------- MODULE MCAccessGranting --------------------------
(***************************************************************************)
(* AccessGranting for TLC, in two corners of its state space: a few events *)
(* of every kind for one OCL, with no change of a Safe, and changes of     *)
(* Safes with every OCL in use, one file, and one event.                   *)
(*                                                                         *)
(* Nothing tells apart two OCLs, two wallets that are not Safes, or two    *)
(* files, and all the properties checked are safety properties.            *)
(***************************************************************************)
EXTENDS AccessGranting, TLC

Symmetry ==
  Permutations(OclIds) \cup Permutations(Addresses \ Safes) \cup Permutations(Files)

\* Whether there is something of a file in a data room.
Mentions(o, f) == levels[o][f] # NoLevel \/ \E i \in DOMAIN rooms[o] : rooms[o][i].file = f

Untouched(o) ==
  owner[o] = NoOwner /\ LastRow(o) = 0 /\ \A f \in Files : ~Mentions(o, f)

\* The first corner.
OneOcl == \E o \in OclIds : \A other \in OclIds \ {o} : Untouched(other)

\* The second one.
EveryOcl ==
  /\ events <= 1
  /\ \A o \in OclIds : owner[o] # NoOwner /\ LastRow(o) # 0
  /\ \E f \in Files : \A o \in OclIds, other \in Files \ {f} : ~Mentions(o, other)

\* There, every data room has a file of a known level to begin with.
MCInit ==
  /\ Init
  /\ \/ OneOcl
     \/ EveryOcl /\ \A o \in OclIds : \E f \in Files : rooms[o] # <<>> /\ levels[o][f] = "holder"

MCNext ==
  \/ World /\ (OneOcl' \/ EveryOcl')
  \/ EveryOcl /\ SafeWallets
  \/ AppInit
  \/ AppUpdate
  \/ Crash

MCSpec == MCInit /\ [][MCNext]_vars
=============================================================================
