----------------------------- MODULE MCS3Store ------------------------------
(* Instances of S3Store for TLC.                                           *)
EXTENDS S3Store, TLC

\* Requests differ in nothing but their names.
RequestSymmetry == Permutations(Requests)
=============================================================================
