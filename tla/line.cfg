SPECIFICATION FairSpec
CONSTANTS
  first_touch = first_touch
  second_touch = second_touch
  final_soft_close = final_soft_close
  StageLabels = {first_touch, second_touch, final_soft_close}
  NoLabel = NoLabel
  Nothing = Nothing
  Label <- MCLabel
  Interval <- MCInterval
  Learning <- MCLearning
  UserSpace <- MCUserSpace
  DispatchSpace <- MCDispatchSpace
  MaxOverdue <- MCMaxOverdue
  Window = 1
  Cooldown = 1
  RetryAfter = 1
  SlowBy = 1
  LineBy = 1
  MaxTime = 21
  MaxTurns = 2
  LastMove = 10
INVARIANTS TypeOK TouchesInOrder BuildersAgree PostureKept ListingUnderstands
PROPERTIES SpaceIsKept RetiredStaysRetired LinesEnd
CHECK_DEADLOCK FALSE
