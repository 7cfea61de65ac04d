SPECIFICATION FairSpec
CONSTANTS
  I1 = I1
  I2 = I2
  Wg0 = Wg0
  Wg1 = Wg1
  None = None
  Configs <- MCConfigs
  Issuers = {I1, I2}
  Names = {Wg0, Wg1}
  DefaultName = Wg0
  AllowPublicRoutes = FALSE
  MaxExits = 2
  MaxEdits = 2
  MaxKeys = 2
INVARIANTS TypeOK CleanAfterStop ServingDeviceReady IdentityStable GrantsConfirmed OnlyPrivateRoutes
PROPERTY ServerComesUp
CHECK_DEADLOCK FALSE
