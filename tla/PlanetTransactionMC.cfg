CONSTANTS
  i = i
  k = k
  z = z
  Activation <- MCActivation
  Reset <- MCReset
  WithKeys <- MCWithKeys
  DbId <- MCDbId
  Orig = Orig
  DefaultConf = DefaultConf
  NoRows = "official"
  None = None
  Boot = Boot
  Attempts = 2
  MaxFaults = 3
SPECIFICATION Spec
INVARIANTS TypeOK NothingLeftBehind RestartRemembered
PROPERTIES SwitchesAtomically SuccessIsInstalled RecoveryFinishes
CHECK_DEADLOCK FALSE
