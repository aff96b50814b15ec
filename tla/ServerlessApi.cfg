\* Two requests of one address and one e-mail, two instances, one kill, sync or command-line import.
CONSTANTS
  ip = ip
  mail = mail
  r1 = r1
  r2 = r2
  a1 = a1
  a2 = a2
  part = part
  Requests = {r1, r2}
  Key = {ip, mail}
  Limit <- OneEach
  KeysOfRequest <- SameAddress
  MaxWindow = 1
  BaseAccounts <- BaseAccountFile
  MoreAccounts <- MoreAccountFile
  BaseEntities <- BaseEntityFile
  Searched <- SearchedFile
  Contacts <- ContactFile
  Observed <- PartFile
  Expanded = TRUE
  Instances = {i1, i2}
  Importers = {i1, i2, cli}
  Threshold = 1
  MaxEvents = 1
SPECIFICATION Spec
INVARIANTS DatasetKept OneApplication
PROPERTIES QuotaKept FailureNotCached RequestsAnswered
CHECK_DEADLOCK FALSE
