------------------------- MODULE MCFlightSqlServer -------------------------
(* Small instances of FlightSqlServer for TLC. *)
EXTENDS FlightSqlServer, TLC

MCSymmetry == Permutations(Calls) \cup Permutations(Statements)
=============================================================================
