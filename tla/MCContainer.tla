---------------------------- MODULE MCContainer -----------------------------
(***************************************************************************)
(* The containerised deployment, instantiated for TLC as MCRaft is.        *)
(***************************************************************************)
EXTENDS MCRaft, RaftContainer
=============================================================================
