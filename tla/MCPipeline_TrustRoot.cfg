SPECIFICATION Spec
CONSTANTS
  good = good
  rotated = rotated
  selfRun = selfRun
  reusable = reusable
  orphan = orphan
  garbled = garbled
  poison = poison
  alien = alien
  dGood = dGood
  dRotated = dRotated
  dSelfRun = dSelfRun
  dReusable = dReusable
  dOrphan = dOrphan
  dGarbled = dGarbled
  dPoison = dPoison
  dAlien = dAlien
  fileGood = fileGood
  fileCopy = fileCopy
  fileRotated = fileRotated
  fileSelfRun = fileSelfRun
  fileReusable = fileReusable
  fileOrphan = fileOrphan
  fileGarbled = fileGarbled
  filePoison = filePoison
  fileAlien = fileAlien
  fileGone = fileGone
  artifact = artifact
  weakDigest = weakDigest
  unknown = unknown
  acme = acme
  globex = globex
  ruff = ruff
  generator = generator
  caller = caller
  github = github
  hosted = hosted
  selfHosted = selfHosted
  repo = repo
  commit = commit
  gha = gha
  ref = ref
  generic = generic
  inToto = inToto
  None = None
  Malformed = Malformed
  Absent = Absent
  BuilderAllowlist <- MCAllowlist
  AcceptableIssuers = {github}
  RequiredLevel = 3
  GhaWorkflowBuildType = gha
  GithubHosted = hosted
  Bytes = {good, rotated, selfRun, reusable, orphan, garbled, poison, alien}
  Digests = {dGood, dRotated, dSelfRun, dReusable, dOrphan, dGarbled, dPoison, dAlien}
  digest_of <- MCDigestOf
  Paths = {fileGood, fileCopy, fileRotated, fileSelfRun, fileReusable, fileOrphan, fileGarbled, filePoison, fileAlien, fileGone}
  PathLists <- MCPathLists
  File <- MCFile
  Parsed <- MCParsed
  InTotoPayload = inToto
  SupportedBuildTypes = {gha}
  Envelope <- MCEnvelope
  Subjects <- MCSubjects
  MaxSubjects = 2
  SubjectDigests = {artifact, weakDigest, unknown}
  Tenants = {acme, globex}
  StubArtifacts <- MCStub
  MaxRoot = 2
INVARIANT TrustRootIsIdentified
