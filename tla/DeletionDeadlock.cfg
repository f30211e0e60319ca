SPECIFICATION FairSpec
CONSTANTS
  Threads = {t1, t2}
  MaxVersion = 1
  NoThread = NoThread
PROPERTY DeletionIsAnswered
