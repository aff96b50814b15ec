--------------------------- MODULE MCPartSourcing ---------------------------
EXTENDS PartSourcing, TLC

CONSTANTS home, other, third, c1, c2, c3, n1, n2

Branch(slug, code, name) ==
  [rooftopId |-> slug, code |-> code, name |-> name, isActive |-> TRUE]

SeededRooftops == <<Branch(home, c1, n1), Branch(other, c2, n2)>>

OfferedRooftops == {Branch(third, c3, n) : n \in {n1, n2}}

AskedPatches ==
  {[field |-> "rooftopId", value |-> third], [field |-> "name", value |-> n1],
   [field |-> "isActive", value |-> FALSE]}

SourcingSymmetry == Permutations(Resolvers)
=============================================================================
