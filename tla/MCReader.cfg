SPECIFICATION Spec
CONSTANTS
    s1 = s1
    Empty = Empty
    None = None
    NameSvids <- MCNames
    Tasks = {"info", "newest", "header"}
    Lengths = {0, 1, 2}
    SerialTexts = {s1, Empty}
INVARIANTS TypeOK KeptIsThePumps PartsAreTied MissingIsTold
