--------------------------- MODULE MCAccessGrants ---------------------------
(***************************************************************************)
(* An instance of AccessGrants for TLC.                                    *)
(***************************************************************************)
EXTENDS AccessGrants

CONSTANTS ann, ben, sales, r1, r2, r3, g1, g2

\* The administrator takes the two-day option away.
OneDay == {{1}}
=============================================================================
