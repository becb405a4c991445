------------------------------- MODULE AllFibs -------------------------------
(***************************************************************************)
(* The LC-trie FIB, which no program makes, made from the same table after *)
(* the two FIBs of the experiment.                                         *)
(***************************************************************************)
EXTENDS Fibs, LCTrie

AllInit == FibsInit /\ LCInit

CreateFibs == FibsNext /\ UNCHANGED lcVars

CreateLC == Done /\ LCNext /\ UNCHANGED fibsVars

AllNext == CreateFibs \/ CreateLC

AllSpec == AllInit /\ [][AllNext]_<<fibsVars, lcVars>>
=============================================================================
