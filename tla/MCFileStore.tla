----------------------------- MODULE MCFileStore -----------------------------
(* Values of the constants of FileStore for TLC.  Uploads are alike: no    *)
(* action or property tells two of them apart.                             *)
EXTENDS FileStore, TLC

Symmetry == Permutations(Uploads)
=============================================================================
