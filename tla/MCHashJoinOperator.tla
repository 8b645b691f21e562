------------------------- MODULE MCHashJoinOperator -------------------------
EXTENDS HashJoinOperator

\* Batches of up to two rows over two keys and two values.
MCBatches == {{}, {<<1, 1>>}, {<<2, 1>>}, {<<1, 2>>, <<2, 2>>}}

\* Sequences of up to two batches; a row's identity is its place.
MCInputs ==
  LET row(b, r) == [key |-> r[1], val |-> r[2], at |-> <<b, r>>]
  IN  {[b \in DOMAIN s |-> {row(b, r) : r \in s[b]}] :
         s \in UNION {[1 .. n -> MCBatches] : n \in 0 .. 2}}

MCHash == [k \in {1, 2} |-> k]
=============================================================================
