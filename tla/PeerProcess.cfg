SPECIFICATION FairSpec
CONSTANTS
  Servers = {s1, s2}
  Addresses = {a1, a2}
  None = none
  NoAddress = none
  Verdicts <- Replies
  Methods <- SomeMethods
  Cookies <- SomeCookies
  Ports = {8500}
  Ips <- SomeIps
  Ip6s <- SomeIp6s
  Before <- Preambles
  After <- Trailers
  Me = me
  Other = other
  Port = 1
  Elsewhere = 2
  MaxChanges = 2
  MaxErrors = 1
  MaxLaunches = 2
INVARIANTS NobodyForgotten FatalNeedsCause UndefinedNeedsRace ReadsWhatWasMapped UseAfterFreeWasQueued UpdatesStayFinished
PROPERTIES BothOrNeither ConstructorEnds ShutdownEnds
CHECK_DEADLOCK FALSE
