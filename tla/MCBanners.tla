------------------------------ MODULE MCBanners ------------------------------
(* The request threads are alike for the model checking of Banners.        *)
EXTENDS Banners, TLC

Symmetry == Permutations(Proc)
=============================================================================
