\* Two children at a time on SunOS 4. The requests are bounded.
SPECIFICATION Spec
CONSTANTS
    Child = {c1, c2}
    System = {"sunos"}
    Table <- Tables
    MaxDisks = 2
    Failing = {}
    Absent = Absent
    Junk = Junk
    MaxRequests = 1
INVARIANTS FieldsTrue
CHECK_DEADLOCK FALSE
