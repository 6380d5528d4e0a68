\* Two edits of a form: switch the frequency and type, or switch it and back.
SPECIFICATION Spec
CONSTANTS
  Null = Null
  Cron <- MCCron
  Numbers <- MCNumbers
  Times <- MCTimes
  Clicked = {1, 6}
  MaxEdits = 2
INVARIANT TypeOK
INVARIANT ShownIsStored
INVARIANT SavedIsShown
INVARIANT Reopens
INVARIANT FlipsKeep
INVARIANT UntouchedSaves
