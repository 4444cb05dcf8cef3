SPECIFICATION Spec
CONSTANTS
    Cells = 6
    MaxBatch = 4
    QueueMax = 3
    StartMin = 2
    Modulus = 16
    Gop = 3
    First = 10
    Last = 19
    Clips = {c1, c2}
    Sinks = {s1, s2}
    MaxPackets = 3
    MaxReopens = 1
    MaxAmpFaults = 1
    Writers = {w1, w2}
    Readers = {r1}
    PageSets = 1
    AliveSets = 2
    MaxRestarts = 1
    MaxKills = 1
    Pages = {p1, p2}
    MaxVersion = 3
    MaxOoms = 1
    MaxStarters = 2
INVARIANTS StreamSound SpeakerExclusive PairsWhole
PROPERTIES Freed SettingsTakeEffect StreamsReturn
CHECK_DEADLOCK FALSE
