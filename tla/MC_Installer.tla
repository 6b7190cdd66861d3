---------------------------- MODULE MC_Installer ----------------------------
(* The installer run three times, with memory that gives a budget below  *)
(* every catalogue entry, one between them and one above them all.       *)
EXTENDS Installer

MCRamAvail == {400, 3700, 8000}

=============================================================================
