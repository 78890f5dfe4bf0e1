------------------------ MODULE MC_ProcessRefinement ------------------------
(***************************************************************************)
(* The instance of MC_DoclingProcessor for the refinement runs.            *)
(***************************************************************************)
EXTENDS MC_DoclingProcessor, ProcessRefinement
=============================================================================
