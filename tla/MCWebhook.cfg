SPECIFICATION Spec
CONSTANTS
  Names <- Strings
  Empty = ""
  Clip <- Clipped
  Dev = "dev"
  Root = "root"
  Compile = {"compile all"}
  Pushes <- SomePushes
  MaxParts = 3
  BufParts = 3
  None = None
INVARIANTS TypeOK OkMeansWhole JudgedAsSent RefusedMeansSplit DiesOnlyWithoutCommits WebhookInv
PROPERTY OneVerdict
CHECK_DEADLOCK FALSE
