-------------------------- MODULE MCImagePipeline --------------------------
(***************************************************************************)
(* ImagePipeline for TLC.  Inodes are interchangeable.                     *)
(***************************************************************************)
EXTENDS ImagePipeline, TLC

Perms == Permutations(Inodes)
=============================================================================
