CONSTANTS
  u1 = u1
  u2 = u2
  Users <- MCUsers
  Nobody = Nobody
  MaxChallenge = 2
  MaxClicks = 4
SPECIFICATION FairSpec
INVARIANTS
  TypeOK
  AuthJustified
  AnswersOwnChallenge
  LatestAnswerable
PROPERTY CallResolved
CHECK_DEADLOCK FALSE
