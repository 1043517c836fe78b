SPECIFICATION MCSpec
CONSTANTS
  Connections = {c1, c2}
  None = None
  Clients = {b1, b2}
  Tickets = {t1, t2}
  Fallbacks = {f1}
  Messages = {m1}
  Foreign = {x1}
  Consumers = {w1, w2}
  Routes = {r1, r2}
  Bodies <- MCBodies
CHECK_DEADLOCK FALSE
INVARIANTS
  NoticeMissesNobody
  RecordMirrorsSockets
  DeadlineCutsItsOwn
  SettledAgreement
  SocketContract
  ChunkingIrrelevant
  NothingIsLost
PROPERTIES
  DrainEnds
  StopEndsUnlessLate
  TicketReleases
  ChangesAndReplaysEnd
  SocketSettles
  EntriesSettle
