SPECIFICATION Spec17
CONSTANTS
    FileSizes = {0, 38}
    Heights = {9, 10, 12}
    kBytesPerLine = 4
    kHeaderHeight = 5
    kFooterHeight = 2
    kMinTerminalRows = 10
INVARIANTS
    CursorOnScreen
    TranscriptCoversFile
PROPERTIES
    NoRowSkipped
