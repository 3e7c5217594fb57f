----------------------------- MODULE MCWikiLoop -----------------------------
EXTENDS WikiLoop, TLC

WikiSymmetry == Permutations(Pages) \cup Permutations(Units)
=============================================================================
