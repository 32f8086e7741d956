\* Two callers overwrite one build.
CONSTANTS
    i1 = i1
    i2 = i2
    i3 = i3
    i4 = i4
    x = x
    y = y
    a = a
    b = b
    Names = {"n"}
    Builds = {x, y}
    Inodes = {i1, i2, i3, i4}
    Savers = {a}
    Overwriters = {b, "c"}
    Deleters = {}
    MayBeOdd = {}
    MaxDeaths = 0
    NoBuild = "no build"
    Gone = "gone"
SPECIFICATION Spec
SYMMETRY Symmetry
INVARIANT
    WholeFiles
