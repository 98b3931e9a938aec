--------------------------- MODULE MCQueryResults ---------------------------
(* An instance of QueryResults: result sets of no row, one and two, alone  *)
(* and as the parts of a multi-statement that is complete or breaks off.   *)
EXTENDS QueryResults, TLC

CONSTANTS o1, o2, h1, h2

MCAnswers == {<<Done>>, <<Refusal>>, <<ResultSet(0)>>, <<ResultSet(2)>>,
              <<ResultSet(1), Done>>, <<Done, ResultSet(2), ResultSet(1)>>,
              <<ResultSet(2), Refusal>>}
Symmetry == Permutations({o1, o2}) \cup Permutations({h1, h2})
=============================================================================
