SPECIFICATION Spec
CONSTANTS
  upstream = upstream
  fork = fork
  linux = linux
  darwin = darwin
  slsa = slsa
  attestation = attestation
  v1 = v1
  v02 = v02
  linuxV1 = linuxV1
  linuxV02 = linuxV02
  linuxBare = linuxBare
  darwinV1 = darwinV1
  garbled = garbled
  None = None
  Malformed = Malformed
  Absent = Absent
  Torn = Torn
  Repos = {upstream, fork}
  Hashes = {linux, darwin}
  Selectors = {slsa, attestation}
  Attestations = {linuxV1, linuxV02, linuxBare, darwinV1, garbled}
  PredicateType <- MCPredicateType
  Selects <- MCSelects
  Responses <- MCResponses
INVARIANTS
  TypeOK
  SavedAsAsked
  RefusalIsHarmless
  SidecarDescribesBundle
