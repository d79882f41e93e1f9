SPECIFICATION FairSpec
CONSTANTS
  m1 = m1
  m2 = m2
  g1 = g1
  g2 = g2
  s1 = s1
  s2 = s2
  Nobody = Nobody
  Unset = Unset
  NoSecret = NoSecret
  Migrations <- Both
  Name <- TwoNames
  Home <- OneHome
  GatewayNames <- Pair
  Space <- Spaces
  DefaultGateway <- Defaults
  Classes = {"envoy", "other"}
  Specs <- KeptSpecs
  Secrets = {s1, s2}
  TLSLists <- TLS
  Lags = TRUE
  MaxRequests = 2
  MaxChanges = 4
INVARIANTS
  TypeOK
  AtRestServed
PROPERTIES
  KeepsOwner
  GatewaysFollow
\* The controller may come to rest.
CHECK_DEADLOCK FALSE
