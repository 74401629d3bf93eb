SPECIFICATION FairSpec
CONSTANTS
  t1 = t1
  s1 = s1
  s2 = s2
  a1 = a1
  a2 = a2
  x = x
  y = y
  z = z
  readX = readX
  writeX = writeX
  atomicX = atomicX
  writeXreadY = writeXreadY
  readXwriteY = readXwriteY
  atomicXY = atomicXY
  writeZ = writeZ
  readWriteX = readWriteX
  MaxJobs = 3
  Entries = {x, y, z}
  Queries = {atomicX, writeXreadY, readXwriteY}
  Params <- MCParams
  Threads = {t1}
  Storages = {s1, s2}
  Archetypes = {a1, a2}
  Main <- OneMain
  ArchetypeOf <- MCArchetypeOf
  StorageOf <- MCStorageOf
  QueryStorage <- MCQueryStorage
  NoQuery = NoQuery
  NoStorage = NoStorage
INVARIANTS
  TypeOK
  MainThreadSafe
PROPERTIES
  Ordered
  JobsEnd
  SyncsReturn
