CONSTANTS
  Scheme <- MCScheme
  Host <- MCHost
  Port <- MCPort
  Environments <- MCEnvironments
SPECIFICATION Spec
INVARIANT TypeOK AllowsExactlyConfigured
PROPERTY NothingRevoked
CHECK_DEADLOCK FALSE
