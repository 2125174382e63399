----------------------------- MODULE MCZnsStore -----------------------------
(* Small instances of ZnsStore, and what the program says of itself.        *)
EXTENDS ZnsStore, TLC

\* Keys are interchangeable: the workload names any of them at any time.
KeySymmetry == Permutations(Keys)

\* "delete: value_size=0" (zns_simulation.h:53): a key that the workload has
\* deleted is not stored any more.  A scan for the first valid block of a zone
\* without one goes on into the next zone (line 475), and what it copies there
\* is found again when its key is long gone.
DeletedIsGone == pc = "request" => \A k \in Keys : live[k] = 0 => Stored(k) = 0
=============================================================================
