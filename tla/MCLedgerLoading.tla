-------------------------- MODULE MCLedgerLoading --------------------------
(***************************************************************************)
(* LedgerLoading for TLC, with two OCLs.  The data room of the second is   *)
(* empty or has all the history it may have at first, of a file whose      *)
(* level may be missing; the first is there to share the batches, with a   *)
(* room that comes before in them.                                         *)
(***************************************************************************)
EXTENDS LedgerLoading

MCInit ==
  /\ Init
  /\ 2 \in on_chain
  /\ Len(rooms[1]) = 1
  /\ Len(rooms[2]) \in {0, MaxFirstRows}
  /\ \A f \in Files : levels[1][f] # NoLevel
  /\ \A i, j \in DOMAIN projects : i < j => projects[i].ocl_id < projects[j].ocl_id

MCSpec == MCInit /\ [][Next]_vars /\ WF_vars(Load)
=============================================================================
