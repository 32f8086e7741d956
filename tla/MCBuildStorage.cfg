\* A saver and one caller that overwrites and deletes; a second saver, or a name that
\* is left empty or cannot be linked; one crash.
CONSTANTS
    i1 = i1
    i2 = i2
    i3 = i3
    i4 = i4
    x = x
    y = y
    a = a
    b = b
    Names = {"n"}
    Builds = {x, y}
    Inodes = {i1, i2, i3, i4}
    Savers = {a, b}
    Overwriters = {"c"}
    Deleters = {"c"}
    MayBeOdd = {"n"}
    MaxDeaths = 1
    NoBuild = "no build"
    Gone = "gone"
SPECIFICATION Spec
SYMMETRY Symmetry
INVARIANTS
    TypeOK
    WholeFiles
PROPERTY
    Implements
