SPECIFICATION MobileSpec
CONSTANTS
  Unset = Unset
  MaxEdits = 3
  Core <- MCCore
  Touched <- MCTouched
INVARIANTS
  MobileTypeOK
  FreezeIsNear
  FrozenIsShown
  FinishedChangeSurvives
  ShownIsStored
  PrefsAreStored
  CustomSoundExists
