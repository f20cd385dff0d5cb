SPECIFICATION Spec
CONSTANTS
  Segments <- MCSegments
  TextOrder <- MCTextOrder
  StoreDir <- MCStoreDir
  DigestBytes = 3
  MaxNarSize = 20
  Words <- MCWords
  PathInfos <- MCPathInfos
  Posted <- MCPosted
  ForeignTexts <- MCForeignTexts
  SigningKeys <- MCSigningKeys
  RelayKeys <- MCRelayKeys
INVARIANTS
  TypeOK
  AcceptedIsServed
  ReprintIsNoConflict
  SignaturesVerify
  RelayKeepsSource
