------------------------ MODULE MCOwnershipIndexing ------------------------
(***************************************************************************)
(* OwnershipIndexing for TLC: the last block a chain may have is mined     *)
(* only if one and the same OCL is in all its transfers.  An OCL can leave *)
(* its owner and return within three iterations then, which takes all the  *)
(* blocks, and two OCLs can be transferred by turns in fewer.              *)
(***************************************************************************)
EXTENDS OwnershipIndexing

\* One OCL stands for each of them: nothing tells them apart.
Alone == CHOOSE o \in OclIds : TRUE

MCNext ==
  \/ Chain /\ (Len(chain') = MaxBlocks => \A b \in 1..MaxBlocks : chain'[b].ocl_id \in {Alone, NoOcl})
  \/ Program
  \/ Crash

MCSpec == Init /\ [][MCNext]_vars /\ WF_vars(Program)
=============================================================================
