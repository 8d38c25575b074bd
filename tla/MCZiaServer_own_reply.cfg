CONSTANTS
  Main = Main
  None = None
  Conns = {c1, c2}
  TlsConns = {c1, c2}
  Impatient = {}
  Fds = {1, 2}
  Modules = {"SSL", "HTTP"}
SPECIFICATION MCSpec
INVARIANTS
  OwnReplyOnly
