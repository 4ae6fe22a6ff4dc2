CONSTANTS
    Screens = {s1, s2}
    Panels = {launcher, history, calendar}
    None = None
    MaxSteps = 5
    Sizes = {1, 2, 3}
    MaxOnWay = 3
SPECIFICATION EachSpec
SYMMETRY Symmetry
INVARIANTS EachInPlace NothingLeftUp SamplingIsSound
PROPERTIES TogglesAsAsked
