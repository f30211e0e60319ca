SPECIFICATION FairSpec
CONSTANTS
  Threads = {t1, t2}
  MaxVersion = 2
  NoThread = NoThread
INVARIANTS
  DeletedIsClosing
  IndexIsOfVersion
PROPERTIES
  DeletionIsFinal
  CommitsUnderItsVersion
  RequestsAnswered
