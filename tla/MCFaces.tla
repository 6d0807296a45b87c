------------------------------- MODULE MCFaces -------------------------------
(***************************************************************************)
(* Two pictures of three glyphs in two sizes.                              *)
(***************************************************************************)
EXTENDS Faces

MCText == <<30, 22, 30>>
=============================================================================
