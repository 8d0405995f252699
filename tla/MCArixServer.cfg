CONSTANTS
  c1 = c1
  c2 = c2
  p1 = p1
  p2 = p2
  NoPort = NoPort
  NoClient = NoClient
  Clients = {c1, c2}
  Ports = {p1, p2}
  Owner <- OneEach
  Names = {a}
  Sockets = {3, 4}
  QueueLimit = 1
SPECIFICATION FairSpec
INVARIANTS
  TypeOK
  NamesUnique
  AdvertisedIsListed
  ListedIsOpen
PROPERTIES
  ImplementsRegistry
  CallsReturn
CHECK_DEADLOCK FALSE
