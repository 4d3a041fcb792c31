----------------------------- MODULE MCHotCall -----------------------------
(* HotCall on small rings, with the TIMEOUT build option.                  *)
EXTENDS HotCall
=============================================================================
