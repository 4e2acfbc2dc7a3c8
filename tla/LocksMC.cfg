CONSTANTS
  p1 = p1
  p2 = p2
  f1 = f1
  f2 = f2
  r1 = r1
  o1 = o1
  mail1 = mail1
  mail2 = mail2
  site1 = site1
  org1 = org1
  Process <- MCProcess
  Inode <- MCInode
  Nil = Nil
  Dead = Dead
  MaxDeaths = 1
  MaxSleeps = 1
  Form <- MCForm
  Rest <- MCRest
  OAuth <- MCOAuth
  email <- MCemail
  Invite <- MCInvite
  timesCanUse <- MCtimesCanUse
  Token <- MCToken
  None = None
SPECIFICATION MCSpec
INVARIANTS
  LockTypes MutualExclusion ConfirmedOwnerKeepsLock
  RegistrationTypes FirstAlone SomeoneAdministers InvitationsAreCounted
PROPERTIES
  OrphansAreReclaimed
CHECK_DEADLOCK FALSE
