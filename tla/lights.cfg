\* What GetFrontPanelLights answers, for every box with up to three indicators.
SPECIFICATION Spec
CONSTANT Boxes <- SmallBoxes
INVARIANTS SupportedAreDescribed AllNamedAreSupported OwnRange
CHECK_DEADLOCK FALSE
