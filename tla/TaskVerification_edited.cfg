\* Two untracked files and two edits, of new or earlier content, at any time.
SPECIFICATION FairSpec
CONSTANTS
    NumFiles = 2
    MaxEdits = 2
    Absent = Absent
    Unread = Unread
INVARIANTS
    TypeOK
    VerdictIsOfOneState
PROPERTY
    RunEnds
