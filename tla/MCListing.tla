------------------------------ MODULE MCListing ------------------------------
(* Listing for TLC: items are interchangeable.                                *)
EXTENDS Listing, TLC

Symmetry == Permutations(Item)
=============================================================================
