CONSTANTS
  a1 = a1
  a2 = a2
  Apps = {a1, a2}
  Senders = {a1, a2}
  Boot = boot
  MaxCrashes = 1
SPECIFICATION FairSpec
INVARIANTS
  TypeOK
  OneListener
  AnsweredOnce
  AppsSurvive
PROPERTIES
  ConnectionEnds
  EveryAppListenedFor
  RequestAnswered
CHECK_DEADLOCK FALSE
