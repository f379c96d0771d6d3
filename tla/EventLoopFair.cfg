CONSTANTS
  NThreads = 2
  Acceptor = {acc}
  Conn = {c1, c2, c3}
  Poll = Poll
  Null = Null
SPECIFICATION FairSpec
INVARIANTS TypeOK NeverWaits PollKept EvenLoad
PROPERTIES ImplementsFairMailbox PollsForever
