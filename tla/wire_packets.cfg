CONSTANTS
  Transports = {"IRDA", "USB", "CUSTOM"}
  MtuTx = 12
  LinkMtu = 5
  NonHeaderSizes = {2}
  BodySizes = {0, 13}
  NameSizes = {4, 6, 14}
  ChunkSizes = {0, 7}
  MaxHeaders = 2
  MaxChunks = 2
  MaxFaults = 1
SPECIFICATION FairSpec
INVARIANTS
  TypeOK
  Framed
  PacketsFit
  FitsOnePacket
  BodyWhole
PROPERTIES
  ImplementsPipe
  Completes
