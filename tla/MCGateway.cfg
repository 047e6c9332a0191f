SPECIFICATION FairSpec
CONSTANTS
  Requests = {r1, r2}
  SearchConcurrency = 1
  TokenTTL = 2
  Second = 2
  MaxClock = 2
INVARIANTS
  TypeOK
  SlotsBelongToRequests
  TokensLiveTheirTTL
  AdminAnswersAreTrue
  BadArgumentsAreTold
PROPERTIES
  LeaversLeaveNothing
