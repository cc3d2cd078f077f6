SPECIFICATION ServicesSpec
CONSTANTS
  ann = ann
  ben = ben
  s1 = s1
  s2 = s2
  a1 = a1
  a2 = a2
  a3 = a3
  ask = ask
  keep = keep
  sign = sign
  done = done
  run1 = run1
  c1 = c1
  c2 = c2
  v1 = v1
  v2 = v2
  rules1 = rules1
  p1 = p1
  d1 = d1
  k1 = k1
  x1 = x1
  Signers = {ann, ben}
  Sessions = {s1, s2}
  Agreements = {a1, a2, a3}
  Pages = {ask, keep, sign, done}
  NoPage = NoPage
  Forms <- BothForms
  FirstForm <- KeepEarly
  NoSession = NoSession
  NoAgreement = NoAgreement
  NoSigner = NoSigner
  MaxFormVersion = 2
  MaxInterrupts = 1
  Runs = {run1}
  Candidates = {c1, c2}
  Reviews = {v1, v2}
  Rules = {rules1}
  FirstRules = rules1
  ByReviewer = ByReviewer
  NoData = NoData
  NoRun = NoRun
  NoAsset = NoAsset
  MaxMdmInterrupts = 1
  Products = {p1}
  Contracts = {k1}
  DataAssets = {x1}
  Untabled = {d1}
  Links <- Diamond
  FirstLinks <- Diamond
  NoEntity = NoEntity
  MaxLevel = 2
  MaxLinkChanges = 1
  MaxCertInterrupts = 1
INVARIANTS
  ServicesTypeOK
  WalksWhatWasShown
  OneAgreementPerSession
  CompletedIsSigned
  LinksAreSound
PROPERTIES
  ReviewerDataKept
  LevelsArrive
SYMMETRY Ids
CHECK_DEADLOCK FALSE
