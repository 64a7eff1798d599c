SPECIFICATION LockSpec
CONSTANTS
  Handlers = {h1, h2}
  Kinds = {"connect", "disconnect", "reconnect", "burn", "summary", "set_constant", "offline_open", "offline_close", "msq_upload", "msq_apply", "msq_diff"}
INVARIANTS NoCircularWait
