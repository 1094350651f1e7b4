SPECIFICATION SFairSpec
CONSTANTS
  Hil = FALSE
  NSamples = 3
  ArmSamples = {1}
  Est = {0}
  Est0 = 0
  Health = {"Degraded", "Healthy"}
  TelemFrames = 2
  EvtLimit = 1
INVARIANTS TornByOneSample IdleOnlyAsleep NothingUsedUninitialised
PROPERTIES EstAtomicFromStart StartsAsSpecified ArmTakesEffect
