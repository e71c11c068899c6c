CONSTANTS
  Size = 2
  Sequences <- MCSequences
  PacketsPerKey = 2
  CacheSize = 2
  MaxSent = 3
  MaxSessionId = 255
  MaxTimeout = 5
  NaN = NaN
  Generators = {g1, g2}
  MaxIdentities = 2
  Documents <- MCDocuments
SPECIFICATION TunnelSpec
INVARIANTS TunnelTypeOK WindowIsExact ConfiguredStarts FilesMatch
PROPERTIES WindowSpec FilterSpec CipherSpec IdentityIsKept
