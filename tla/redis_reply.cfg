SPECIFICATION FairSpec
CONSTANTS
    Commands <- MCCommands
    Threads = {t1, t2}
    t1 = t1
    t2 = t2
INVARIANTS SentOnce NoneLeftReady OvertakesOnlyDequeued RepliesReleased
PROPERTY AllReplied
CHECK_DEADLOCK FALSE
