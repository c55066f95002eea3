----------------------------- MODULE MCQuinTree -----------------------------
(***************************************************************************)
(* A binary tree of eight leaves: three levels, so that a subtree can lie  *)
(* at any depth between a leaf and the root.                               *)
(***************************************************************************)
EXTENDS QuinTree
=============================================================================
