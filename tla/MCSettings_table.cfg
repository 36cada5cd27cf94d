SPECIFICATION Spec
CONSTANTS
    Width = 4
    Numbers <- Around
    Blank = Blank
    True = True
    Word = Word
    NoRow = NoRow
    None = None
INVARIANTS
    TypeOK
    ClientConnectsToDevice
PROPERTIES
    SettingsSurvive
