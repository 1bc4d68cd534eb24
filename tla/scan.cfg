\* Three scans: two that must implement a cursor, and one in which rows expire
\* and iterators fail.
SPECIFICATION FairSpec
CONSTANTS Scans <- MCScans
INVARIANTS SafeToDelete
PROPERTIES ImplementsCursor AllAnswered
CHECK_DEADLOCK FALSE
