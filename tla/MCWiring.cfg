SPECIFICATION Spec
CONSTANTS
    Names <- MCNames
    Presets <- MCPresets
    Handlers = {h1, h2}
    Late = {h3}
    Settings = {s1, s2}
SYMMETRY Symmetry
INVARIANTS
    SettingsAreHonoured
    PresetsAsWritten
    BootDecides
\* A failed boot is the end of the application.
CHECK_DEADLOCK FALSE
