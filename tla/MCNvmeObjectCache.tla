------------------------ MODULE MCNvmeObjectCache ------------------------
(* Small instances of NvmeObjectCache for TLC. *)
EXTENDS NvmeObjectCache, TLC

CONSTANTS k1, k2, k3, t1, t2

\* Under a budget of 3, k3 alone exceeds it and k1 with k2 fits.
MCClaimedSize ==
  [k \in Keys |-> CASE k = k1 -> 1 [] k = k2 -> 2 [] k = k3 -> 4]

\* Every thread reads every object
MCAll == {[t \in Threads |-> Keys]}

\* Two threads whose entries do not fit together, or one thread alone
MCFew == {[t \in Threads |-> {k2, k3}],
          [t \in Threads |-> IF t = t1 THEN Keys ELSE {}]}

MCSymmetry == Permutations(Threads)
=============================================================================
