\* The colours it answers for each light.
SPECIFICATION Spec
CONSTANT Boxes <- SmallBoxes
INVARIANTS OwnColours
CHECK_DEADLOCK FALSE
