----------------------------- MODULE MCDagCache -----------------------------
(* Two workers, each reconciling one of two JobFlows at a time.             *)
EXTENDS DagCache

CONSTANTS w1, w2, f1, f2, s1, s2, s3
=============================================================================
