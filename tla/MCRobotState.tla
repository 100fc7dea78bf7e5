---------------------------- MODULE MCRobotState ----------------------------
EXTENDS RobotState

\* Two lines of saveSTATE and the request, with room for values of two characters.
TwoKeys == {"Sensores", "Encoder"}
OneToThree == [k \in TwoKeys |-> 1..3]
ThreeLines ==
  <<"Sensores", "old", "old", Newline, "Encoder", "old", "old", Newline,
    Request, "right", Newline>>
=============================================================================
