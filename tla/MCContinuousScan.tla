-------------------------- MODULE MCContinuousScan --------------------------
(***************************************************************************)
(* Small instances of ContinuousScan for TLC.                              *)
(***************************************************************************)
EXTENDS ContinuousScan

CONSTANTS rootsA, rootsB, job1, job2, row1, row2, row3

MCRoots == {rootsA, rootsB}
MCRows == {row1, row2, row3}
MCMounts == BOOLEAN
TwoJobs == {job1, job2}
OneJob == {job1}
OneConfig == {rootsA}

(* What config.toml may say: either set of roots, nothing enabled, or text *)
(* that does not parse.                                                    *)
EveryConfig == MCRoots \cup {Off, Unreadable}

=============================================================================
