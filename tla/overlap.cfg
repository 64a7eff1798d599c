SPECIFICATION AutoSpec
CONSTANTS
  Tasks = {k1, k2}
  Threads = {t1, t2}
  Clients = {c1}
  NumPages = 1
  Requests = {"connect", "disconnect", "reconnect", "edit", "lock_release"}
  Enabled = {FALSE}
  PagesUsable = {TRUE, FALSE}
  Supervisor = k1
  NoTask = NoTask
  NoThread = NoThread
  Nobody = Nobody
PROPERTIES UpAgain RequestsFinish
