---------------------------- MODULE MCProxyCache ----------------------------
(* A small instance of ProxyCache. *)
EXTENDS ProxyCache, TLC

Symmetry == Permutations(Keys) \cup Permutations(Sessions)
            \cup Permutations(Workers) \cup Permutations(Entries)
=============================================================================
