SPECIFICATION Spec
CONSTANTS
  None = None
  Malformed = Malformed
  ruff = ruff
  other = other
  weak = weak
  unlisted = unlisted
  caller = caller
  github = github
  elsewhere = elsewhere
  hosted = hosted
  selfHosted = selfHosted
  repo = repo
  fork = fork
  commit = commit
  otherCommit = otherCommit
  gha = gha
  otherBuild = otherBuild
  BuilderAllowlist <- MCAllowlist
  AcceptableIssuers <- MCIssuers
  RequiredLevel = 3
  GhaWorkflowBuildType = gha
  GithubHosted = hosted
  Items <- MCItems
  Feed <- MCFeed
\* The feed runs out.
CHECK_DEADLOCK FALSE
INVARIANT PredicateStandsAloneOnlyWhenSignerUnknown
