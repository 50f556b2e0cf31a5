--------------------------- MODULE Lab17HexViewer ---------------------------
(***************************************************************************)
(* The hex viewer of Lab_17 (Lab17_File_Hex_Dump.cpp): it reads a file in  *)
(* chunks, then either prints every row or shows a window of rows that     *)
(* keys scroll on a terminal of changing size.                             *)
(*                                                                         *)
(* The contents of the file do not matter, so a byte is its index.  A step *)
(* ends where the program waits: in read, or in getch, the only place      *)
(* where ncurses takes notice of a new terminal size.                      *)
(***************************************************************************)
EXTENDS Integers, Sequences

CONSTANTS
    FileSizes,          \* sizes the file may have
    Heights,            \* heights the terminal may have
    kBytesPerLine,
    kHeaderHeight,
    kFooterHeight,
    kMinTerminalRows

ASSUME HexViewerAssumption ==
    /\ FileSizes \subseteq Nat
    /\ Heights \subseteq Nat
    /\ kBytesPerLine \in Nat \ {0}
    /\ kHeaderHeight \in Nat
    /\ kFooterHeight \in Nat
    /\ kMinTerminalRows \in Nat
    /\ kMinTerminalRows > kHeaderHeight + kFooterHeight

VARIABLES
    fileSize,   \* the file's size
    bytes,      \* bytes.size()
    at,         \* where the program is
    maxY,       \* height of the terminal
    wide,       \* whether it has kMinTerminalCols columns
    cursorRow,  \* cursorRow
    topRow,     \* topRow
    key,        \* the key the last getch of the viewer returned
    screen,     \* the rows of the file on the screen
    printed     \* the rows of the transcript, each a set of bytes

view == <<cursorRow, topRow>>
terminal == <<maxY, wide>>
vars17 == <<fileSize, bytes, at, maxY, wide, cursorRow, topRow, key, screen, printed>>

Lesser(a, b) == IF a < b THEN a ELSE b
Greater(a, b) == IF a > b THEN a ELSE b

\* (Bug) forgets the row of a last, short chunk.
Bug_RowsRoundedDown(size) == size \div kBytesPerLine

calculateRowCount(size) == (size + kBytesPerLine - 1) \div kBytesPerLine
totalRows == calculateRowCount(bytes)

\* The bytes in the line formatHexLine builds for a row.
LineBytes(row) == {i \in row * kBytesPerLine .. (row + 1) * kBytesPerLine - 1 : i < bytes}

visibleRows == Greater(1, maxY - kHeaderHeight - kFooterHeight)

Keys == {"none", "KEY_UP", "KEY_DOWN", "KEY_PPAGE", "KEY_NPAGE", "KEY_HOME", "KEY_END",
         "KEY_RESIZE", "other"}

PCs == {"open", "load", "choose", "render", "key", "small", "quit", "printed", "failed"}

\* Rows and counts are size_t: never below zero.
TypeOK ==
    /\ fileSize \in FileSizes
    /\ bytes \in 0 .. fileSize
    /\ at \in PCs
    /\ maxY \in Heights
    /\ wide \in BOOLEAN
    /\ cursorRow \in Nat
    /\ topRow \in Nat
    /\ key \in Keys
    /\ screen \subseteq Nat
    /\ printed \in Seq(SUBSET Nat)

Init17 ==
    /\ fileSize \in FileSizes
    /\ bytes = 0
    /\ at = "open"
    /\ maxY \in Heights
    /\ wide \in BOOLEAN
    /\ cursorRow = 0
    /\ topRow = 0
    /\ key = "none"
    /\ screen = {}
    /\ printed = <<>>

-----------------------------------------------------------------------------
(* loadFile and renderTranscript *)

Open17 ==
    /\ at = "open"
    /\ at' \in {"load", "failed"}
    /\ UNCHANGED <<fileSize, bytes, terminal, view, key, screen, printed>>

\* One input.read.  n is gcount(): less than a chunk at the end of the file, or
\* anywhere when reading fails, which loadFile takes for the end.
LoadChunk ==
    /\ at = "load"
    /\ \E n \in 0 .. Lesser(kBytesPerLine, fileSize - bytes) :
         /\ bytes' = bytes + n
         /\ at' = IF n = kBytesPerLine THEN "load" ELSE "choose"
    /\ UNCHANGED <<fileSize, terminal, view, key, screen, printed>>

\* main: the options, the TTYs and initscr decide between viewer and transcript.
StartViewer ==
    /\ at = "choose"
    /\ at' = "render"
    /\ UNCHANGED <<fileSize, bytes, terminal, view, key, screen, printed>>

renderTranscript ==
    /\ at = "choose"
    /\ at' = "printed"
    /\ printed' = [line \in 1 .. totalRows |-> LineBytes(line - 1)]
    /\ UNCHANGED <<fileSize, bytes, terminal, view, key, screen>>

-----------------------------------------------------------------------------
(* renderNcursesViewer *)

\* (Bug) lets the cursor stand one row below the page.
Bug_ClampOneLow(cursor, top, rows, page) ==
    LET c == Lesser(cursor, rows - 1)
        t == Lesser(Lesser(top, rows - 1), c) IN
    IF rows = 0 THEN [cursor |-> 0, top |-> 0]
    ELSE [cursor |-> c, top |-> IF c > t + page THEN c - page + 1 ELSE t]

\* The new cursorRow and topRow.
clampViewport(cursor, top, rows, page) ==
    LET c == Lesser(cursor, rows - 1)
        t == Lesser(Lesser(top, rows - 1), c) IN
    IF rows = 0 THEN [cursor |-> 0, top |-> 0]
    ELSE [cursor |-> c, top |-> IF c >= t + page THEN c - page + 1 ELSE t]

TooSmall == maxY < kMinTerminalRows \/ ~wide

RenderSmall ==
    /\ at = "render"
    /\ TooSmall
    /\ at' = "small"
    /\ screen' = {}
    /\ UNCHANGED <<fileSize, bytes, terminal, view, key, printed>>

Render ==
    /\ at = "render"
    /\ ~TooSmall
    /\ at' = "key"
    /\ cursorRow' = clampViewport(cursorRow, topRow, totalRows, visibleRows).cursor
    /\ topRow' = clampViewport(cursorRow, topRow, totalRows, visibleRows).top
    /\ screen' = {row \in topRow' .. topRow' + visibleRows - 1 : row < totalRows}
    /\ UNCHANGED <<fileSize, bytes, terminal, key, printed>>

\* getch returns KEY_RESIZE, on a screen of either kind.
Resize ==
    /\ at \in {"key", "small"}
    /\ maxY' \in Heights
    /\ wide' \in BOOLEAN
    /\ key' = "KEY_RESIZE"
    /\ at' = "render"
    /\ UNCHANGED <<fileSize, bytes, view, screen, printed>>

Quit ==
    /\ at \in {"key", "small"}
    /\ at' = "quit"
    /\ UNCHANGED <<fileSize, bytes, terminal, view, key, screen, printed>>

\* Any key but those of Quit on the small screen: continue.
SmallKey ==
    /\ at = "small"
    /\ at' = "render"
    /\ UNCHANGED <<fileSize, bytes, terminal, view, key, screen, printed>>

\* The viewer's loop goes round with a new cursor row.
Pressed(k, row) ==
    /\ at = "key"
    /\ key' = k
    /\ cursorRow' = row
    /\ at' = "render"
    /\ UNCHANGED <<fileSize, bytes, terminal, topRow, screen, printed>>

Up == Pressed("KEY_UP", IF cursorRow > 0 THEN cursorRow - 1 ELSE cursorRow)

Down == Pressed("KEY_DOWN", IF cursorRow + 1 < totalRows THEN cursorRow + 1 ELSE cursorRow)

PageUp == Pressed("KEY_PPAGE", IF cursorRow > visibleRows THEN cursorRow - visibleRows ELSE 0)

\* (Bug) pages by one row more than is on the screen.
Bug_PageTooLong ==
    Pressed("KEY_NPAGE", IF totalRows = 0 THEN cursorRow
                         ELSE Lesser(cursorRow + visibleRows + 1, totalRows - 1))

PageDown ==
    Pressed("KEY_NPAGE", IF totalRows = 0 THEN cursorRow
                         ELSE Lesser(cursorRow + visibleRows, totalRows - 1))

Home == Pressed("KEY_HOME", 0)

End == Pressed("KEY_END", IF totalRows = 0 THEN cursorRow ELSE totalRows - 1)

Other == Pressed("other", cursorRow)

Terminated ==
    /\ at \in {"quit", "printed", "failed"}
    /\ UNCHANGED vars17

Next17 ==
    \/ Open17 \/ LoadChunk \/ StartViewer \/ renderTranscript
    \/ RenderSmall \/ Render \/ Resize \/ Quit \/ SmallKey
    \/ Up \/ Down \/ PageUp \/ PageDown \/ Home \/ End \/ Other
    \/ Terminated

Spec17 == Init17 /\ [][Next17]_vars17

-----------------------------------------------------------------------------
(* Properties *)

(* Whenever the viewer waits for a key, the highlighted row is a row of the file and
   on the screen, and the line it is drawn on lies below the header and above the footer; only an empty file has none.  Cursor, top row, page size and row count
   are changed by different keys and by resizing. *)
CursorOnScreen ==
    at = "key" =>
        IF bytes = 0 THEN screen = {} /\ cursorRow = 0
        ELSE /\ cursorRow \in screen \cap (0 .. totalRows - 1)
             /\ kHeaderHeight + (cursorRow - topRow) < maxY - kFooterHeight

\* Some row of s is, or is next to, a row of t.
Touch(s, t) == \E a \in s, b \in t : a - b \in {-1, 0, 1}

(* Scrolling through a file by any keys but Home and End, and resizing the terminal
   meanwhile, leaves no row out: what the next screen shows touches or overlaps what
   the last one showed. *)
NoRowSkipped ==
    [][at = "render" /\ at' = "key" /\ screen # {} /\ key \notin {"KEY_HOME", "KEY_END"}
         => Touch(screen, screen')]_vars17

(* The transcript holds every byte that was read once, in the order of the file, and
   has no empty line: what loadFile's chunks, the row count and formatHexLine's
   bounds give together. *)
TranscriptCoversFile ==
    at = "printed" =>
        /\ UNION {printed[i] : i \in DOMAIN printed} = 0 .. bytes - 1
        /\ {} \notin {printed[i] : i \in DOMAIN printed}
        /\ \A i, j \in DOMAIN printed : i < j =>
             \A a \in printed[i], b \in printed[j] : a < b
=============================================================================
