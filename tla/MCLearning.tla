----------------------------- MODULE MCLearning -----------------------------
EXTENDS Learning, TLC

TopicSymmetry == Permutations(Topics)
AgentSymmetry == Permutations(Agents) \cup Permutations(Topics)
=============================================================================
