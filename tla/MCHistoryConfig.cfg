CONSTANTS
    Secret = {k1, k2}
    Salt = {s1, s2}
    Version = {4998, 5000, 5001}
    WeakSecret = {k2}
    Dir = {d1}
    Relative = {d1}
    DefaultDir = d1
    Null = Null
    Unset = Unset

SPECIFICATION Spec

PROPERTY BootEstablishesMaster
