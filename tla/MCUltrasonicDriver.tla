------------------------ MODULE MCUltrasonicDriver ------------------------
EXTENDS UltrasonicDriver, TLC

\* Two of the sensors, tested in another order than they are triggered.
CenterLeft == <<"center", "left">>
LeftCenter == <<"left", "center">>

Symmetry == Permutations(Readers)
=============================================================================
