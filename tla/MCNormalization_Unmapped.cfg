SPECIFICATION Spec
CONSTANTS
  inToto = inToto
  otherPayload = otherPayload
  gha = gha
  otherBuild = otherBuild
  github = github
  hosted = hosted
  selfHosted = selfHosted
  repo = repo
  fork = fork
  ssh = ssh
  ref = ref
  commit = commit
  otherCommit = otherCommit
  ruff = ruff
  run = run
  leaf = leaf
  None = None
  Malformed = Malformed
  InTotoPayload = inToto
  SupportedBuildTypes = {gha}
  BuilderAllowlist <- MCAllowlist
  AcceptableIssuers = {github}
  RequiredLevel = 3
  GhaWorkflowBuildType = gha
  GithubHosted = hosted
  Envelopes <- MCEnvelopes
  Uris <- MCUris
  Urls = {repo, fork}
INVARIANT UnmappedIsKept
\* Each envelope is normalised once.
CHECK_DEADLOCK FALSE
