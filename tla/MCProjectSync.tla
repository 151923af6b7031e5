---------------------------- MODULE MCProjectSync ----------------------------
(***************************************************************************)
(* ProjectSync on a small instance: a page holds one issue, so that two    *)
(* issues are two requests.                                                *)
(***************************************************************************)
EXTENDS ProjectSync, TLC

\* An action that a webhook passes on; opening is one that it translates.
MCActions == {"labeled"}
=============================================================================
