CONSTANTS
  Main = Main
  None = None
  Conns = {c1, c2, c3}
  TlsConns = {c1, c2}
  Impatient = {c1, c3}
  Fds = {1, 2}
  Modules = {"SSL", "HTTP"}
SPECIFICATION MCFairSpec
INVARIANTS
  DescriptorsAgree
  OneUserPerSocket
  DownOnlyFor
  NothingInClear
  ReplyNeverGoesBack
  ServedUnlessOvertaken
PROPERTIES
  ImplementsService
  EveryoneServed
