SPECIFICATION Spec
CONSTANTS
  NoTemp = NoTemp
  MaxWidth = 2
  Horizon = 2
  Unit = 20
  Alpha = 5
  SloRatio = 15
  SloTemp = 70
  PenaltyUp = 6
  PenaltyDown = 3
  Ceiling = 80
  SafetyMargin = 5
  EmergencyMargin = 5
  HardCost = 12
  Temps <- MCTemps
  Performance <- MCPerformance
  Files <- MCFiles
  Defaults <- MCDefaults
INVARIANTS OneStepResidual CeilingIsPriced ChoiceIsSettled WideningJustified
