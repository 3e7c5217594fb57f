------------------------------ MODULE MCWorker ------------------------------
\* Worker for TLC: job ids are interchangeable, which the safety runs use.
EXTENDS Worker, TLC

JobSymmetry == Permutations(Jobs)
=============================================================================
