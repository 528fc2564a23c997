\* One ship, another station, two messages that share a sequence id, on a
\* parallel that goes round the globe.
CONSTANTS
  v1 = v1  b1 = b1  voy = voy  bin = bin
  Messages = {voy, bin}
  FragsOf <- Frags
  SeqIds = {1}
  NoSeqId = NoSeqId
  SeqIdOf <- SameSeqId
  MaxPending = 3
  NoSet = NoSet
  Ships = {v1}
  Unchecked = {b1}
  Lons = 4
  Closed = TRUE
  Glitches = {0}
  Types = {80}
  Sogs <- Speeds
  JumpLimit = 1
  GapLimit = 2
  SeenLimit = 1
  NoVessel = NoVessel
  Static = {voy}
  Sender <- FromV1
  TypeIn <- Tanker
SPECIFICATION Spec
INVARIANTS TypeOK WholeMessagesAssemble SetsStartWithFirst TruthAccepted
PROPERTIES CargoSpeedLimit GlitchOvercome
