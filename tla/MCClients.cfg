CONSTANTS
  MaxSessions = 2
  MaxIO = 1
  MaxSends = 1
SPECIFICATION MCSpec
INVARIANT AnnouncedIsMapped
PROPERTIES DeviceIsShownAlone LossIsTold StaysConnectedAlone
CHECK_DEADLOCK FALSE
