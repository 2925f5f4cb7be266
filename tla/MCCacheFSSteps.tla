---------------------------- MODULE MCCacheFSSteps ---------------------------
(* CacheFSSteps on small instances.                                         *)
EXTENDS CacheFSSteps

\* Names and workers are compared, never ordered.
StepSymmetry == Permutations(Names) \cup Permutations(Workers)
==============================================================================
