SPECIFICATION ServerSpec
CONSTANTS
  p1 = p1
  cli = cli
  Process = {p1}
  Client = {a}
  NoClient = NoClient
  MaxConns = 2
  MaxCalls = 2
  MaxTime = 1
  MaxLines = 8
  MaxLive = 1
  Opener <- MCOpener
  Command = {cli}
  LastMigration = 2
  Embedded <- MCEmbedded
  Repeatable = {1}
INVARIANTS
  NeverDoubleCounts
  CheckpointKept
  SchemaCurrent
PROPERTY Recorded
