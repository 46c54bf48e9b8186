\* Three threads (CC_MAX_THREAD_NUM) and three jobs.
CONSTANTS
  Workers = {w1, w2, w3}
  Jobs = {j1, j2, j3}
  NoJob = NoJob
  Free = Free
SPECIFICATION FairSpec
INVARIANTS TypeOK OneOwner AtMostOnce NoJobLost NoEmptyPop NoLostWakeup
PROPERTIES ImplementsWorkPool JobsServed
\* The owner may have nothing more to add and the threads may all have exited.
CHECK_DEADLOCK FALSE
