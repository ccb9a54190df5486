----------------------------- MODULE MCCommerce -----------------------------
(* The accounting of Free and Premium downloads, on a small instance.      *)
EXTENDS Commerce, TLC

\* No download and no client is treated specially.
Interchangeable == Permutations(Downloads) \cup Permutations(Clients)
=============================================================================
