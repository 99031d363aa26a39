\* The loop-back SharedBuffer transport of main() and the tests.
CONSTANTS
  N <- MC_N
  PacketSize <- MC_PacketSize
  LinkCap <- MC_LinkCap
  MaxChunk <- MC_MaxChunk
  MaxBytes <- MC_MaxBytes
  Link = "SharedBuffer"
  Dirs = {"req", "rsp"}
SPECIFICATION Spec
INVARIANT TypeOK
INVARIANT StreamIntegrity
PROPERTY Delivered
