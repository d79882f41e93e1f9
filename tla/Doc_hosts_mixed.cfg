SPECIFICATION Spec
CONSTANTS
  Ingresses <- TwoHosts
  Hosts <- AllHosts
  Requests <- AllRequests
  Policies <- NoPolicy
  RegexSegments <- AllRegex
  DottedSegments <- AllDotted
  Takes <- NginxTakes
  MaxEntries = 2
INVARIANTS
  SameBackends
\* A conversion ends.
CHECK_DEADLOCK FALSE
