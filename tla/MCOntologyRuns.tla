---------------------------- MODULE MCOntologyRuns ----------------------------
(* An instance of OntologyRuns for TLC. *)
EXTENDS OntologyRuns

CONSTANTS r1, r2, r3, h1, h2
=============================================================================
