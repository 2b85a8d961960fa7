CONSTANTS
    la = la
    lb = lb
    lc = lc
    SubjectLists = {la, lb, lc}
    InitialSubjects = la
    MaxChanges = 4
    MaxFailures = 3
SPECIFICATION Spec
\* A subscriber blocked in stream.Recv with nothing left to happen is the
\* client's idle state, not a deadlock.
CHECK_DEADLOCK FALSE
INVARIANT TypeOK
PROPERTY SubjectsEventuallyCurrent
PROPERTY CloseEndsSubscriber
