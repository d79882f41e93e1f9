SPECIFICATION Spec
CONSTANTS
  Ingresses <- AllIngresses
  Hosts <- AllHosts
  Requests <- AllRequests
  Policies <- SomePolicies
  RegexSegments <- AllRegex
  DottedSegments <- AllDotted
  Takes <- NginxTakes
  MaxEntries = 2
INVARIANTS
  TypeOK
  WholeIngress
  SameBackends
  
  NothingSilent
  LongestTimeout
  AcceptedExactly
\* A conversion ends.
CHECK_DEADLOCK FALSE
