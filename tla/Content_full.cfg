CONSTANTS
  Inode = {1, 2}
  Byte <- WriteBytes
  NBlock = 5
  BSIZE = 2
  NDIRECT = 1
  LOGSIZE = 6
  Sizes <- WriteSizes
SPECIFICATION Spec
INVARIANTS
  FilesOffLog
