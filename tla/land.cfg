SPECIFICATION GroundFairSpec
CONSTANTS
  Channel = {ch1}
  Mode = {"STABILIZE", "LAND"}
  FreshTicks = 1
  TickMod = 2
  Height = 2
  Stick = {0, 1}
PROPERTIES LandDescendsGradually
