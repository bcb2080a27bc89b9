CONSTANTS
    Char = {",", "$", "#"}
    MaxLen = 4
    BUFSIZE = 512

SPECIFICATION Spec

INVARIANT RejectsExactlyGlobal
