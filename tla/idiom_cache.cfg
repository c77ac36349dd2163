SPECIFICATION Spec
CONSTANTS
    Idioms = {i1, i2}
    Phrases = {p1}
    Langs = {hi}
    Texts = {t1}
    Scanners = {s1, s2}
    Admins = {a1, a2}
    NoIdiom = NoIdiom
    NoLibrary = NoLibrary
    NoEntry = NoEntry
    MaxWrites = 2
    MaxFaults = 1
SYMMETRY Symmetry
INVARIANTS TypeOK FreshUnlessOverlapped DuplicateNeverShadows
PROPERTY CommitsOwnColumns
