---------------------------- MODULE MCCopyEngine ----------------------------
(***************************************************************************)
(* Streams for the model checking of CopyEngine.                           *)
(***************************************************************************)
EXTENDS CopyEngine

CONSTANTS s1, s2

\* the last notification is a repetition
Twice == <<s1, s2, s1>>
=============================================================================
