SPECIFICATION SquelchSpec
CONSTANTS
    MaxRamp = 4
    Ramps = {0, 1, 2, 4}
    DetectorLen = 3
    MaxHeld = 12
    MaxBeyond = 12
INVARIANTS QuietWithoutTone OpenWithTone
PROPERTY FadesFromZero
