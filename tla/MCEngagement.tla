--------------------------- MODULE MCEngagement ---------------------------
EXTENDS Engagement

CONSTANTS s1, s2

StreamCar == [uds |-> TRUE, periodic |-> TRUE, dvi |-> FALSE]
PlainCar  == [uds |-> FALSE, periodic |-> TRUE, dvi |-> FALSE]
DviCar    == [uds |-> TRUE, periodic |-> TRUE, dvi |-> TRUE]
AllCars   == {StreamCar, PlainCar, DviCar}
=============================================================================
