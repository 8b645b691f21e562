----------------------- MODULE MCParquetScanOperator -----------------------
(* Small instances of ParquetScanOperator for TLC. *)
EXTENDS ParquetScanOperator

CONSTANTS MaxChunks,   \* bound: chunks of a scan
          MaxFiles     \* bound: fragments of a scan

\* Every way to spread the chunks over the fragments
Spread(n) ==
  {c \in BoundedSeq([rows : BOOLEAN, file : 1..n], MaxChunks) :
     \A i \in 2..Len(c) : c[i].file >= c[i - 1].file}

\* Only scans with partition columns tell one fragment from another
MCSources ==
  LET Scan(p, n) == {[partitioned |-> p, fragments |-> n, chunks |-> c] : c \in Spread(n)}
  IN  UNION {Scan(TRUE, n) : n \in 0..MaxFiles} \union Scan(FALSE, 0) \union Scan(FALSE, 1)
=============================================================================
