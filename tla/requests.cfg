SPECIFICATION Spec
CONSTANTS
  Tasks = {k1, k2}
  Threads = {t1, t2}
  Clients = {c1}
  NumPages = 1
  Requests = {"connect", "disconnect", "reconnect", "offline_open", "offline_close", "edit", "lock_release"}
  Enabled = {TRUE, FALSE}
  PagesUsable = {TRUE, FALSE}
  Supervisor = NoTask
  NoTask = NoTask
  NoThread = NoThread
  Nobody = Nobody
SYMMETRY Interchangeable
INVARIANTS NoOrphanThread ConnectedHasThread OfflineMeansNoSerial
PROPERTIES OfflineEditsKept
