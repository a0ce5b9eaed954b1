\* Two sidebars, so that one may come while the other goes.
CONSTANTS
    Sidebars = {s1, s2}
    None = None
    MaxAttempts = 1
    MaxChanges = 2

VIEW Remembered
SPECIFICATION Spec

PROPERTIES
    SettingsIsClear
    BlockedStaysAway
    NeverBlinks
    OneCallIsEnough
