SPECIFICATION Spec
CHECK_DEADLOCK FALSE
CONSTANTS
    Width = 2
    Height = 1
    Texts <- ShortTexts
    Sharings = {"interrupt", "threads"}
    MaxPrinted = 6
INVARIANTS
    TypeOK
    CursorOnScreen
    ScreenShowsText
