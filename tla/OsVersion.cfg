CONSTANTS
    Majors = {5, 6, 10}
    Minors = {0, 1, 2, 3}
SPECIFICATION VersionSpec
INVARIANTS
    NamedUpTo8_1
