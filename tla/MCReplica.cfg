\* A replica with the default, positive drain delay; one other replica, which
\* comes, goes and fails, and two reports under way.
SPECIFICATION MCSpec
CONSTANTS
  DrainDelay = 1
  Peers = {p1}
  Self = self
  Relays = {r1, r2}
PROPERTIES
  WarmupEnds
  ShutdownEnds
  RelayStateSettles
