\* A driver whose write may accept fewer bytes than offered and more on the next call.
CONSTANTS
  N <- MC_N
  PacketSize <- MC_PacketSize
  LinkCap <- MC_LinkCap
  MaxChunk <- MC_MaxChunk
  MaxBytes <- MC_MaxBytes
  Link = "ShortWrites"
  Dirs = {"req", "rsp"}
SPECIFICATION Spec
INVARIANT StreamIntegrity
