SPECIFICATION Spec
SYMMETRY Symmetry
CONSTANTS
    Calls = {c1, c2}
    Sessions = {s1, s2}
    Previews = {p1}
    Contents = {o1, o2}
    Details = {d1, d2}
    Recent = 2
    MaxDocs = 3
INVARIANTS
    TypeOK
    LookTells
PROPERTIES
    ImplementsErrands
