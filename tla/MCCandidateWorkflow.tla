------------------------ MODULE MCCandidateWorkflow ------------------------
(* Model values and symmetry for the TLC runs of CandidateWorkflow. *)
EXTENDS CandidateWorkflow, TLC

Symmetry == Permutations(Handlers) \cup Permutations(Failures)
              \cup Permutations(Candidates)
=============================================================================
