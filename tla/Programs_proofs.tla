--------------------------- MODULE Programs_proofs --------------------------
(***************************************************************************)
(* The dashboard and the programs that log to it, for every number of      *)
(* threads and tasks and every terminal, and the devices of Lab_20, for    *)
(* every payload and block size.                                           *)
(***************************************************************************)
EXTENDS DashboardPrograms, Lab20Devices, DataLemmas

-----------------------------------------------------------------------------
(* The dashboard *)

\* A multiple of k and the next one.
LEMMA Multiples ==
    ASSUME NEW a \in Nat, NEW b \in Nat, NEW k \in Nat, a < b
    PROVE  a * k \in Nat /\ a * k + k <= b * k
  <1>1. PICK d \in Nat : b = a + 1 + d
    BY b - a - 1 \in Nat
  <1>2. b * k = a * k + k + d * k
    BY <1>1
  <1>3. d * k \in Nat /\ a * k \in Nat /\ b * k \in Nat
    OBVIOUS
  <1> QED
    BY <1>2, <1>3

\* Quotient and remainder.
LEMMA DivIs ==
    ASSUME NEW a \in Nat, NEW k \in Nat \ {0}
    PROVE  /\ a \div k \in Nat /\ a % k \in 0 .. k - 1
           /\ a = (a \div k) * k + (a % k)
           /\ (a \div k) * k <= a
           /\ a < (a \div k) * k + k
  OBVIOUS

\* A length cut into k bands of equal height, the last of which takes what is left:
\* they are high enough, apart, and cover it.
LEMMA Bands ==
    ASSUME NEW len \in Nat, NEW k \in Nat \ {0}, NEW m \in Nat \ {0}, k * m <= len
    PROVE  LET s == len \div k IN
           /\ s \in Nat /\ m <= s
           /\ \A r \in 0 .. k - 1 : r * s \in Nat /\ r * s + s <= len
           /\ \A r, q \in 0 .. k - 1 : r < q => r * s + s <= q * s
           /\ \A y \in 0 .. len - 1 : \E r \in 0 .. k - 1 :
                r * s <= y /\ (r # k - 1 => y < r * s + s)
  <1> DEFINE s == len \div k
  <1>1. s \in Nat /\ s * k <= len /\ len < s * k + k
    BY DivIs
  <1> HIDE DEF s
  <1>2. m <= s
    <2>1. SUFFICES ASSUME s < m PROVE FALSE
      BY <1>1
    <2>2. s * k + k <= m * k
      BY <1>1, <2>1, Multiples
    <2>3. m * k = k * m
      OBVIOUS
    <2> QED
      BY <1>1, <2>2, <2>3
  <1>3. ASSUME NEW r \in 0 .. k - 1 PROVE r * s \in Nat /\ r * s + s <= len
    <2>1. r \in Nat /\ r < k
      OBVIOUS
    <2>2. r * s \in Nat /\ r * s + s <= k * s
      BY <1>1, <2>1, Multiples
    <2>3. k * s = s * k
      BY <1>1
    <2> QED
      BY <1>1, <2>2, <2>3
  <1>4. ASSUME NEW r \in 0 .. k - 1, NEW q \in 0 .. k - 1, r < q PROVE r * s + s <= q * s
    BY <1>1, <1>4, Multiples
  <1>5. ASSUME NEW y \in 0 .. len - 1
        PROVE  \E r \in 0 .. k - 1 : r * s <= y /\ (r # k - 1 => y < r * s + s)
    <2>1. s \in Nat \ {0} /\ y \in Nat
      BY <1>1, <1>2
    <2>2. /\ y \div s \in Nat /\ (y \div s) * s <= y /\ y < (y \div s) * s + s
      BY <2>1, DivIs
    <2>3. CASE y \div s < k
      BY <2>2, <2>3
    <2>4. CASE ~ (y \div s < k)
      <3>1. k - 1 \in Nat /\ k - 1 < y \div s
        BY <2>2, <2>4
      <3>2. (k - 1) * s + s <= (y \div s) * s
        BY <2>1, <2>2, <3>1, Multiples
      <3>3. (k - 1) * s \in Nat
        BY <1>3, <3>1
      <3>4. (k - 1) * s <= y
        BY <1>1, <2>1, <2>2, <3>2, <3>3
      <3> QED
        BY <3>1, <3>4
    <2> QED
      BY <2>3, <2>4
  <1> QED
    BY <1>1, <1>2, <1>3, <1>4, <1>5 DEF s

\* std::min and std::max.
LEMMA LeastGreatest ==
    ASSUME NEW a \in Int, NEW b \in Int
    PROVE  /\ Least(a, b) \in {a, b} /\ Least(a, b) <= a /\ Least(a, b) <= b
           /\ Greatest(a, b) \in {a, b} /\ a <= Greatest(a, b) /\ b <= Greatest(a, b)
           /\ Least(a, b) \in Int /\ Greatest(a, b) \in Int
  BY DEF Least, Greatest

\* There are at most as many columns as tasks, each at least kMinPaneWidth wide.
LEMMA Columns ==
    ASSUME taskCount \in Nat \ {0}, terminal \in Terms
    PROVE  /\ taskCols \in {1, 2, 3} /\ taskCols <= taskCount
           /\ kMinPaneWidth <= terminal.cols => taskCols * kMinPaneWidth <= terminal.cols
  <1> DEFINE fit == terminal.cols \div kMinPaneWidth
  <1>1. terminal.cols \in Nat /\ kMinPaneWidth \in Nat \ {0}
    BY DashboardAssumption DEF Terms
  <1>2. fit \in Nat /\ fit * kMinPaneWidth <= terminal.cols
    BY <1>1, DivIs
  <1>3. kMinPaneWidth <= terminal.cols => fit >= 1
    <2>1. terminal.cols < fit * kMinPaneWidth + kMinPaneWidth
      BY <1>1, DivIs
    <2>2. fit = 0 => fit * kMinPaneWidth = 0
      BY <1>1
    <2> QED
      BY <1>1, <1>2, <2>1, <2>2
  <1> HIDE DEF fit
  <1>4. preferredCols \in {1, 2, 3} /\ preferredCols <= taskCount
    BY DEF preferredCols
  <1>5. taskCols = Greatest(1, Least(preferredCols, Greatest(1, fit)))
    BY DEF taskCols, fit
  <1>6. /\ taskCols \in {1, 2, 3} /\ taskCols <= preferredCols
        /\ fit >= 1 => taskCols <= fit
    BY <1>2, <1>4, <1>5 DEF Greatest, Least
  <1>7. fit >= 1 => taskCols * kMinPaneWidth <= fit * kMinPaneWidth
    <2>1. CASE taskCols = fit
      BY <2>1, <1>1, <1>2
    <2>2. CASE taskCols < fit
      <3>1. taskCols * kMinPaneWidth + kMinPaneWidth <= fit * kMinPaneWidth
        BY <2>2, <1>1, <1>2, <1>6, Multiples
      <3>2. taskCols * kMinPaneWidth \in Nat /\ fit * kMinPaneWidth \in Nat
        BY <1>1, <1>2, <1>6
      <3> QED
        BY <3>1, <3>2, <1>1
    <2> QED
      BY <2>1, <2>2, <1>2, <1>6
  <1> QED
    <2>1. taskCols * kMinPaneWidth \in Nat
      BY <1>1, <1>6
    <2>2. taskCols <= taskCount
      BY <1>4, <1>6
    <2> QED
      BY <2>1, <2>2, <1>1, <1>2, <1>3, <1>6, <1>7

\* Every task has its own place, in reading order; only the last row may have places left.
LEMMA Places ==
    ASSUME taskCount \in Nat \ {0}, terminal \in Terms
    PROVE  /\ taskRows \in Nat \ {0}
           /\ \A i \in 0 .. taskCount - 1 :
                /\ i \div taskCols \in 0 .. taskRows - 1 /\ i % taskCols \in 0 .. taskCols - 1
                /\ i = (i \div taskCols) * taskCols + (i % taskCols)
           /\ (taskCount - 1) \div taskCols = taskRows - 1
           /\ \A row \in 0 .. taskRows - 1, col \in 0 .. taskCols - 1 :
                LET i == row * taskCols + col IN
                /\ i \in Nat /\ i \div taskCols = row /\ i % taskCols = col
                /\ i >= taskCount => row = taskRows - 1 /\ (taskCount - 1) % taskCols < col
  <1>1. taskCols \in {1, 2, 3} /\ taskCols <= taskCount
    BY Columns
  <1>2. taskRows = (taskCount + taskCols - 1) \div taskCols
    BY DEF taskRows, RoundedUp
  <1> DEFINE tc == taskCols
             tr == taskRows
             n == taskCount
  <1>3. tc \in Nat \ {0} /\ n \in Nat \ {0} /\ tc <= n
    BY <1>1
  <1> HIDE DEF tc, tr, n
  <1>4. tr \in Nat /\ tr * tc <= n + tc - 1 /\ n + tc - 1 < tr * tc + tc /\ tr * tc \in Nat
    <2>1. tr = (n + tc - 1) \div tc
      BY <1>2 DEF tc, tr, n
    <2>2. PICK a \in Nat : a = n + tc - 1
      BY <1>3
    <2>3. tr = a \div tc
      BY <2>1, <2>2
    <2>4. tr \in Nat /\ tr * tc <= a /\ a < tr * tc + tc
      BY <2>3, <1>3, DivIs
    <2>5. tr * tc \in Nat
      BY <2>4, <1>3
    <2> QED
      BY <2>2, <2>4, <2>5
  <1>5. tr # 0
    <2>1. tr = 0 => tr * tc = 0
      BY <1>3
    <2> QED
      BY <1>3, <1>4, <2>1
  <1>6. n <= tr * tc /\ (tr - 1) * tc < n /\ (tr - 1) * tc \in Nat
    <2>1. (tr - 1) * tc = tr * tc - tc
      BY <1>3, <1>4
    <2>2. tr - 1 \in Nat
      BY <1>4, <1>5
    <2> QED
      BY <2>1, <2>2, <1>3, <1>4
  <1>7. ASSUME NEW i \in 0 .. n - 1
        PROVE  /\ i \div tc \in 0 .. tr - 1 /\ i % tc \in 0 .. tc - 1
               /\ i = (i \div tc) * tc + (i % tc)
    <2>1. i \in Nat /\ i < n
      BY <1>3
    <2>2. /\ i \div tc \in Nat /\ i % tc \in 0 .. tc - 1
          /\ i = (i \div tc) * tc + (i % tc) /\ (i \div tc) * tc <= i
      BY <1>3, <2>1, DivIs
    <2>3. ~ (tr <= i \div tc)
      <3>1. tr < i \div tc => tr * tc + tc <= (i \div tc) * tc
        BY <1>3, <1>4, <2>2, Multiples
      <3>2. tr = i \div tc => tr * tc = (i \div tc) * tc
        OBVIOUS
      <3>3. (i \div tc) * tc \in Nat
        BY <2>2, <1>3
      <3> QED
        BY <3>1, <3>2, <3>3, <2>1, <2>2, <1>3, <1>4, <1>6
    <2> QED
      BY <2>2, <2>3, <1>4
  <1>8. ASSUME NEW row \in Nat, NEW col \in 0 .. tc - 1
        PROVE  LET i == row * tc + col IN i \in Nat /\ i \div tc = row /\ i % tc = col
    <2> DEFINE i == row * tc + col
               d == i \div tc
    <2>1. i \in Nat
      BY <1>3
    <2>2. d \in Nat /\ i % tc \in 0 .. tc - 1 /\ i = d * tc + (i % tc)
      BY <1>3, <2>1, DivIs
    <2>3. row * tc \in Nat /\ i = row * tc + col
      BY <1>3
    <2> HIDE DEF i, d
    <2>4. ~ (d < row)
      <3>1. d < row => d * tc + tc <= row * tc
        BY <2>2, <1>3, Multiples
      <3>2. d * tc \in Nat
        BY <2>2, <1>3
      <3> QED
        BY <3>1, <3>2, <2>2, <2>3, <1>3
    <2>5. ~ (row < d)
      <3>1. row < d => row * tc + tc <= d * tc
        BY <2>2, <1>3, Multiples
      <3>2. d * tc \in Nat
        BY <2>2, <1>3
      <3> QED
        BY <3>1, <3>2, <2>2, <2>3, <1>3
    <2>6. d = row
      BY <2>2, <2>4, <2>5
    <2>7. i % tc = col
      BY <2>2, <2>3, <2>6
    <2> QED
      BY <2>1, <2>6, <2>7 DEF i, d
  <1>9. ASSUME NEW row \in 0 .. tr - 1, NEW col \in 0 .. tc - 1, row * tc + col >= n
        PROVE  row = tr - 1 /\ (n - 1) % tc < col
    <2>1. row = tr - 1
      <3>1. row < tr - 1 => row * tc + tc <= (tr - 1) * tc
        BY <1>3, <1>4, Multiples
      <3>2. row * tc \in Nat
        BY <1>3, <1>4
      <3> QED
        BY <3>1, <3>2, <1>3, <1>4, <1>6, <1>9
    <2>2. PICK c \in Int : c = (n - 1) - (tr - 1) * tc
      BY <1>3, <1>6
    <2>3. c \in 0 .. tc - 1 /\ n - 1 = (tr - 1) * tc + c /\ tr - 1 \in Nat
      <3>1. (tr - 1) * tc = tr * tc - tc
        BY <1>3, <1>4
      <3> QED
        BY <3>1, <2>2, <1>3, <1>4, <1>5, <1>6
    <2>4. (n - 1) % tc = c
      BY <2>3, <1>8
    <2> QED
      BY <2>1, <2>2, <2>3, <2>4, <1>3, <1>6, <1>9
  <1>10. (n - 1) \div tc = tr - 1
    <2>1. PICK c \in Int : c = (n - 1) - (tr - 1) * tc
      BY <1>3, <1>6
    <2>2. c \in 0 .. tc - 1 /\ n - 1 = (tr - 1) * tc + c /\ tr - 1 \in Nat
      <3>1. (tr - 1) * tc = tr * tc - tc
        BY <1>3, <1>4
      <3> QED
        BY <3>1, <2>1, <1>3, <1>4, <1>5, <1>6
    <2> QED
      BY <2>2, <1>8
  <1>11. 0 .. tr - 1 \subseteq Nat
    BY <1>4
  <1> QED
    BY <1>4, <1>5, <1>7, <1>8, <1>9, <1>10, <1>11 DEF tc, tr, n

-----------------------------------------------------------------------------

\* The height of a row of task panes and the width of a column.
Height == bodyHeight \div taskRows
Width == terminal.cols \div taskCols

\* The rows and the columns of the task panes.
LEMMA Grid ==
    ASSUME taskCount \in Nat \ {0}, terminal \in Terms, Fits
    PROVE  /\ taskRows \in Nat \ {0} /\ taskCols \in Nat \ {0}
           /\ bodyTop \in Nat /\ bodyHeight \in Nat /\ terminal.cols \in Nat
           /\ terminal.lines = bodyTop + bodyHeight
           /\ Height \in Nat /\ kMinPaneHeight <= Height
           /\ \A r \in 0 .. taskRows - 1 : r * Height \in Nat /\ r * Height + Height <= bodyHeight
           /\ \A r, q \in 0 .. taskRows - 1 : r < q => r * Height + Height <= q * Height
           /\ \A y \in 0 .. bodyHeight - 1 : \E r \in 0 .. taskRows - 1 :
                r * Height <= y /\ (r # taskRows - 1 => y < r * Height + Height)
           /\ Width \in Nat /\ kMinPaneWidth <= Width
           /\ \A r \in 0 .. taskCols - 1 : r * Width \in Nat /\ r * Width + Width <= terminal.cols
           /\ \A r, q \in 0 .. taskCols - 1 : r < q => r * Width + Width <= q * Width
           /\ \A x \in 0 .. terminal.cols - 1 : \E r \in 0 .. taskCols - 1 :
                r * Width <= x /\ (r # taskCols - 1 => x < r * Width + Width)
  <1>1. /\ taskRows \in Nat \ {0} /\ taskCols \in Nat \ {0}
        /\ kMinPaneWidth <= terminal.cols => taskCols * kMinPaneWidth <= terminal.cols
    <2>1. taskRows \in Nat \ {0}
      BY Places, Zenon
    <2>2. /\ taskCols \in {1, 2, 3}
          /\ kMinPaneWidth <= terminal.cols => taskCols * kMinPaneWidth <= terminal.cols
      BY Columns, Zenon
    <2> QED
      BY <2>1, <2>2
  <1>2. /\ bodyTop \in Nat /\ terminal.lines \in Nat /\ terminal.cols \in Nat
        /\ kMinPaneHeight \in Nat \ {0} /\ kMinPaneWidth \in Nat \ {0}
        /\ kMinConsoleWidth \in Nat \ {0}
    BY DashboardAssumption DEF bodyTop, Terms
  <1>3. bodyHeight = terminal.lines - bodyTop /\ taskRows * kMinPaneHeight <= bodyHeight
    BY DEF bodyHeight, Fits
  <1>4. bodyHeight \in Nat
    <2>1. taskRows * kMinPaneHeight \in Nat
      BY <1>1, <1>2
    <2> QED
      BY <2>1, <1>2, <1>3
  <1>5. taskCols * kMinPaneWidth <= terminal.cols
    <2>1. terminal.cols \div 4 \in Int
      BY <1>2
    <2>2. consoleWidth \in Int /\ kMinConsoleWidth <= consoleWidth
      BY <1>2, <2>1 DEF consoleWidth, Greatest, Least
    <2>3. kMinPaneWidth <= (terminal.cols - consoleWidth) \div 2
      BY DEF Fits, systemWidth
    <2> QED
      BY <2>2, <2>3, <1>1, <1>2
  <1> HIDE DEF bodyTop, bodyHeight, taskRows, taskCols
  <1>6. /\ Height \in Nat /\ kMinPaneHeight <= Height
        /\ \A r \in 0 .. taskRows - 1 : r * Height \in Nat /\ r * Height + Height <= bodyHeight
        /\ \A r, q \in 0 .. taskRows - 1 : r < q => r * Height + Height <= q * Height
        /\ \A y \in 0 .. bodyHeight - 1 : \E r \in 0 .. taskRows - 1 :
             r * Height <= y /\ (r # taskRows - 1 => y < r * Height + Height)
    BY <1>1, <1>2, <1>3, <1>4, Bands DEF Height
  <1>7. /\ Width \in Nat /\ kMinPaneWidth <= Width
        /\ \A r \in 0 .. taskCols - 1 : r * Width \in Nat /\ r * Width + Width <= terminal.cols
        /\ \A r, q \in 0 .. taskCols - 1 : r < q => r * Width + Width <= q * Width
        /\ \A x \in 0 .. terminal.cols - 1 : \E r \in 0 .. taskCols - 1 :
             r * Width <= x /\ (r # taskCols - 1 => x < r * Width + Width)
    BY <1>1, <1>2, <1>5, Bands DEF Width
  <1>8. terminal.lines = bodyTop + bodyHeight
    BY <1>2, <1>3
  <1> QED
    BY <1>1, <1>2, <1>4, <1>6, <1>7, <1>8

\* The upper panes share the width of the terminal.
LEMMA UpperRow ==
    ASSUME terminal \in Terms, Fits
    PROVE  /\ systemWidth \in Nat /\ sharedWidth \in Nat /\ consoleWidth \in Nat
           /\ kMinPaneWidth <= systemWidth /\ kMinPaneWidth <= sharedWidth
           /\ kMinPaneWidth <= consoleWidth
           /\ systemWidth + sharedWidth + consoleWidth = terminal.cols
  <1>1. /\ terminal.cols \in Nat /\ kMinPaneWidth \in Nat /\ kMinConsoleWidth \in Nat
        /\ kMinPaneWidth <= kMinConsoleWidth
    BY DashboardAssumption DEF Terms
  <1>2. consoleWidth \in Nat /\ kMinConsoleWidth <= consoleWidth
    <2>1. terminal.cols \div 4 \in Nat
      BY <1>1
    <2> QED
      BY <1>1, <2>1 DEF consoleWidth, Greatest, Least
  <1>3. systemWidth \in Int /\ sharedWidth = terminal.cols - consoleWidth - systemWidth
    BY <1>1, <1>2 DEF systemWidth, sharedWidth
  <1>4. kMinPaneWidth <= systemWidth /\ kMinPaneWidth <= sharedWidth
    BY DEF Fits
  <1> HIDE DEF systemWidth, sharedWidth, consoleWidth
  <1> QED
    BY <1>1, <1>2, <1>3, <1>4

\* The pane of task i, by its row and column.
LEMMA TaskPanes ==
    ASSUME taskCount \in Nat \ {0}, terminal \in Terms, Fits, NEW i \in 0 .. taskCount - 1
    PROVE  LET p == layout[task(i)]
               row == i \div taskCols
               col == i % taskCols
           IN /\ p.y = bodyTop + row * Height /\ p.x = col * Width
              /\ p.height = IF row = taskRows - 1 THEN terminal.lines - p.y ELSE Height
              /\ p.width = IF col = taskCols - 1 THEN terminal.cols - p.x ELSE Width
  <1>1. task(i) \in Panes
    BY DEF Panes
  <1>2. /\ task(i) # header /\ task(i) # system /\ task(i) # queue /\ task(i) # console
        /\ task(i)[2] = i
    BY DEF task, header, system, queue, console
  <1>3. layout[task(i)] = taskPane(i)
    BY <1>1, <1>2, Zenon DEF layout
  <1> QED
    BY <1>3 DEF taskPane, newwin, Height, Width

\* The four panes above the tasks.
LEMMA UpperPanes ==
    /\ layout[header] = newwin(kHeaderHeight, terminal.cols, 0, 0)
    /\ layout[system] = newwin(kUpperPaneHeight, systemWidth, kHeaderHeight, 0)
    /\ layout[queue] = newwin(kUpperPaneHeight, sharedWidth, kHeaderHeight, systemWidth)
    /\ layout[console] = newwin(kUpperPaneHeight, consoleWidth, kHeaderHeight, systemWidth + sharedWidth)
  <1>1. header \in Panes /\ system \in Panes /\ queue \in Panes /\ console \in Panes
    BY DEF Panes
  <1>2. /\ header # system /\ header # queue /\ header # console
        /\ system # queue /\ system # console /\ queue # console
    BY DEF header, system, queue, console
  <1>3. layout[header] = newwin(kHeaderHeight, terminal.cols, 0, 0)
    BY <1>1, <1>2 DEF layout
  <1>4. layout[system] = newwin(kUpperPaneHeight, systemWidth, kHeaderHeight, 0)
    BY <1>1, <1>2 DEF layout
  <1>5. layout[queue] = newwin(kUpperPaneHeight, sharedWidth, kHeaderHeight, systemWidth)
    BY <1>1, <1>2 DEF layout
  <1>6. layout[console] = newwin(kUpperPaneHeight, consoleWidth, kHeaderHeight, systemWidth + sharedWidth)
    BY <1>1, <1>2 DEF layout
  <1> QED
    BY <1>3, <1>4, <1>5, <1>6

\* A task pane lies in its row and in its column.
LEMMA TaskRect ==
    ASSUME taskCount \in Nat \ {0}, terminal \in Terms, Fits, NEW i \in 0 .. taskCount - 1
    PROVE  LET p == layout[task(i)]
               row == i \div taskCols
               col == i % taskCols
           IN /\ row \in 0 .. taskRows - 1 /\ col \in 0 .. taskCols - 1
              /\ i = row * taskCols + col
              /\ p.y \in Nat /\ p.x \in Nat /\ p.height \in Nat /\ p.width \in Nat
              /\ p.y = bodyTop + row * Height /\ p.x = col * Width
              /\ kMinPaneHeight <= p.height /\ kMinPaneWidth <= p.width
              /\ p.y + p.height <= terminal.lines /\ p.x + p.width <= terminal.cols
              /\ row = taskRows - 1 => p.y + p.height = terminal.lines
              /\ row # taskRows - 1 => p.y + p.height = bodyTop + (row * Height + Height)
              /\ col = taskCols - 1 => p.x + p.width = terminal.cols
              /\ col # taskCols - 1 => p.x + p.width = col * Width + Width
  <1> DEFINE p == layout[task(i)]
             row == i \div taskCols
             col == i % taskCols
  <1>1. row \in 0 .. taskRows - 1 /\ col \in 0 .. taskCols - 1 /\ i = row * taskCols + col
    BY Places
  <1>2. /\ p.y = bodyTop + row * Height /\ p.x = col * Width
        /\ p.height = IF row = taskRows - 1 THEN terminal.lines - p.y ELSE Height
        /\ p.width = IF col = taskCols - 1 THEN terminal.cols - p.x ELSE Width
    BY TaskPanes
  <1>3. /\ bodyTop \in Nat /\ bodyHeight \in Nat /\ terminal.cols \in Nat
        /\ terminal.lines = bodyTop + bodyHeight
        /\ Height \in Nat /\ kMinPaneHeight <= Height
        /\ row * Height \in Nat /\ row * Height + Height <= bodyHeight
        /\ Width \in Nat /\ kMinPaneWidth <= Width
        /\ col * Width \in Nat /\ col * Width + Width <= terminal.cols
    <2> HIDE DEF row, col
    <2> QED
      BY <1>1, Grid
  <1>4. kMinPaneHeight \in Nat /\ kMinPaneWidth \in Nat
    BY DashboardAssumption
  <1> HIDE DEF p, row, col
  <1>5. /\ p.y \in Nat /\ p.height \in Nat /\ kMinPaneHeight <= p.height
        /\ p.y + p.height <= terminal.lines
        /\ row = taskRows - 1 => p.y + p.height = terminal.lines
        /\ row # taskRows - 1 => p.y + p.height = bodyTop + (row * Height + Height)
    BY <1>2, <1>3, <1>4
  <1>6. /\ p.x \in Nat /\ p.width \in Nat /\ kMinPaneWidth <= p.width
        /\ p.x + p.width <= terminal.cols
        /\ col = taskCols - 1 => p.x + p.width = terminal.cols
        /\ col # taskCols - 1 => p.x + p.width = col * Width + Width
    BY <1>2, <1>3, <1>4
  <1> QED
    BY <1>1, <1>2, <1>5, <1>6 DEF p, row, col

\* A pane is one of these.
LEMMA PaneKinds ==
    ASSUME NEW p \in Panes
    PROVE  \/ p \in {header, system, queue, console}
           \/ \E i \in 0 .. taskCount - 1 : p = task(i)
  BY DEF Panes

\* Task panes are apart.
LEMMA TasksApart ==
    ASSUME taskCount \in Nat \ {0}, terminal \in Terms, Fits,
           NEW i \in 0 .. taskCount - 1, NEW j \in 0 .. taskCount - 1, i # j
    PROVE  ~ Overlap(layout[task(i)], layout[task(j)])
  <1> DEFINE p == layout[task(i)]
             q == layout[task(j)]
             p_r == i \div taskCols
             p_c == i % taskCols
             q_r == j \div taskCols
             q_c == j % taskCols
  <1>1. /\ p_r \in 0 .. taskRows - 1 /\ p_c \in 0 .. taskCols - 1 /\ i = p_r * taskCols + p_c
        /\ p.y \in Nat /\ p.x \in Nat /\ p.height \in Nat /\ p.width \in Nat
        /\ p.y = bodyTop + p_r * Height /\ p.x = p_c * Width
        /\ p_r # taskRows - 1 => p.y + p.height = bodyTop + (p_r * Height + Height)
        /\ p_c # taskCols - 1 => p.x + p.width = p_c * Width + Width
    BY TaskRect
  <1>2. /\ q_r \in 0 .. taskRows - 1 /\ q_c \in 0 .. taskCols - 1 /\ j = q_r * taskCols + q_c
        /\ q.y \in Nat /\ q.x \in Nat /\ q.height \in Nat /\ q.width \in Nat
        /\ q.y = bodyTop + q_r * Height /\ q.x = q_c * Width
        /\ q_r # taskRows - 1 => q.y + q.height = bodyTop + (q_r * Height + Height)
        /\ q_c # taskCols - 1 => q.x + q.width = q_c * Width + Width
    BY TaskRect
  <1> HIDE DEF p, q, p_r, p_c, q_r, q_c
  <1>3. /\ taskRows \in Nat \ {0} /\ taskCols \in Nat \ {0} /\ bodyTop \in Nat
        /\ Height \in Nat /\ Width \in Nat
        /\ p_r * Height \in Nat /\ q_r * Height \in Nat
        /\ p_c * Width \in Nat /\ q_c * Width \in Nat
        /\ p_r < q_r => p_r * Height + Height <= q_r * Height
        /\ q_r < p_r => q_r * Height + Height <= p_r * Height
        /\ p_c < q_c => p_c * Width + Width <= q_c * Width
        /\ q_c < p_c => q_c * Width + Width <= p_c * Width
    BY <1>1, <1>2, Grid
  <1>4. ASSUME p_r # q_r PROVE ~ Overlap(p, q)
    BY <1>1, <1>2, <1>3, <1>4 DEF Overlap
  <1>5. ASSUME p_r = q_r PROVE ~ Overlap(p, q)
    <2>1. p_c # q_c
      BY <1>1, <1>2, <1>5
    <2> QED
      BY <1>1, <1>2, <1>3, <2>1 DEF Overlap
  <1> QED
    BY <1>4, <1>5 DEF p, q

\* The upper panes are apart, above the task panes, and cover what is above these.
LEMMA UpperRects ==
    ASSUME taskCount \in Nat \ {0}, terminal \in Terms, Fits
    PROVE  /\ \A p \in {header, system, queue, console} :
                /\ layout[p].y \in Nat /\ layout[p].x \in Nat
                /\ layout[p].height \in Nat /\ layout[p].width \in Nat
                /\ layout[p].y + layout[p].height <= bodyTop
                /\ layout[p].x + layout[p].width <= terminal.cols
                /\ kMinPaneHeight <= layout[p].height /\ kMinPaneWidth <= layout[p].width
                /\ \A q \in {header, system, queue, console} \ {p} : ~ Overlap(layout[p], layout[q])
           /\ \A y \in 0 .. bodyTop - 1, x \in 0 .. terminal.cols - 1 :
                \E p \in {header, system, queue, console} : Covers(layout[p], y, x)
  <1>1. /\ systemWidth \in Nat /\ sharedWidth \in Nat /\ consoleWidth \in Nat
        /\ kMinPaneWidth <= systemWidth /\ kMinPaneWidth <= sharedWidth
        /\ kMinPaneWidth <= consoleWidth
        /\ systemWidth + sharedWidth + consoleWidth = terminal.cols
    BY UpperRow
  <1>2. /\ kHeaderHeight \in Nat /\ kUpperPaneHeight \in Nat /\ kMinPaneWidth \in Nat
        /\ kMinPaneHeight \in Nat
        /\ kMinPaneHeight <= kHeaderHeight /\ kMinPaneHeight <= kUpperPaneHeight
        /\ bodyTop = kHeaderHeight + kUpperPaneHeight
    BY DashboardAssumption DEF bodyTop
  <1> HIDE DEF systemWidth, sharedWidth, consoleWidth, bodyTop
  <1>3. \A p \in {header, system, queue, console} :
             /\ layout[p].y \in Nat /\ layout[p].x \in Nat
             /\ layout[p].height \in Nat /\ layout[p].width \in Nat
             /\ layout[p].y + layout[p].height <= bodyTop
             /\ layout[p].x + layout[p].width <= terminal.cols
             /\ kMinPaneHeight <= layout[p].height /\ kMinPaneWidth <= layout[p].width
    BY <1>1, <1>2, UpperPanes DEF newwin
  <1>4. ASSUME NEW p \in {header, system, queue, console},
               NEW q \in {header, system, queue, console} \ {p}
        PROVE  ~ Overlap(layout[p], layout[q])
    BY <1>1, <1>2, UpperPanes DEF newwin, Overlap
  <1>5. ASSUME NEW y \in 0 .. bodyTop - 1, NEW x \in 0 .. terminal.cols - 1
        PROVE  \E p \in {header, system, queue, console} : Covers(layout[p], y, x)
    <2>1. /\ y < kHeaderHeight => Covers(layout[header], y, x)
          /\ kHeaderHeight <= y /\ x < systemWidth => Covers(layout[system], y, x)
          /\ kHeaderHeight <= y /\ systemWidth <= x /\ x < systemWidth + sharedWidth =>
               Covers(layout[queue], y, x)
          /\ kHeaderHeight <= y /\ systemWidth + sharedWidth <= x => Covers(layout[console], y, x)
      BY <1>1, <1>2, UpperPanes DEF newwin, Covers
    <2> QED
      BY <1>1, <1>2, <2>1
  <1> QED
    BY <1>3, <1>4, <1>5

\* Below the upper panes every cell is in a task's pane, or to the right of the last one,
\* in the row of panes that is not full.
LEMMA BodyCovered ==
    ASSUME taskCount \in Nat \ {0}, terminal \in Terms, Fits,
           NEW y \in bodyTop .. terminal.lines - 1, NEW x \in 0 .. terminal.cols - 1
    PROVE  LET bottom == layout[task(taskCount - 1)] IN
           \/ \E i \in 0 .. taskCount - 1 : Covers(layout[task(i)], y, x)
           \/ y >= bottom.y /\ x >= bottom.x + bottom.width
  <1>1. /\ taskRows \in Nat \ {0} /\ taskCols \in Nat \ {0} /\ bodyTop \in Nat
        /\ terminal.lines = bodyTop + bodyHeight /\ bodyHeight \in Nat
        /\ terminal.cols \in Nat
    BY Grid, Zenon
  <1>2. PICK row \in 0 .. taskRows - 1 :
          row * Height <= y - bodyTop /\ (row # taskRows - 1 => y - bodyTop < row * Height + Height)
    <2>1. y - bodyTop \in 0 .. bodyHeight - 1
      BY <1>1
    <2> QED
      BY <2>1, Grid, Zenon
  <1>3. PICK col \in 0 .. taskCols - 1 :
          col * Width <= x /\ (col # taskCols - 1 => x < col * Width + Width)
    BY Grid, Zenon
  <1>4. row * Height \in Nat /\ col * Width \in Nat /\ Width \in Nat /\ Height \in Nat
    BY Grid, Zenon
  <1>5. PICK i : i = row * taskCols + col
    OBVIOUS
  <1>6. /\ i \in Nat /\ i \div taskCols = row /\ i % taskCols = col
        /\ i >= taskCount => row = taskRows - 1 /\ (taskCount - 1) % taskCols < col
    BY <1>5, Places
  <1>7. ASSUME i < taskCount PROVE Covers(layout[task(i)], y, x)
    <2>1. i \in 0 .. taskCount - 1
      BY <1>6, <1>7
    <2> DEFINE p == layout[task(i)]
    <2>2. /\ p.y \in Nat /\ p.x \in Nat /\ p.height \in Nat /\ p.width \in Nat
          /\ p.y = bodyTop + row * Height /\ p.x = col * Width
          /\ row = taskRows - 1 => p.y + p.height = terminal.lines
          /\ row # taskRows - 1 => p.y + p.height = bodyTop + (row * Height + Height)
          /\ col = taskCols - 1 => p.x + p.width = terminal.cols
          /\ col # taskCols - 1 => p.x + p.width = col * Width + Width
      BY <2>1, <1>6, TaskRect
    <2> HIDE DEF p
    <2> HIDE DEF bodyTop, bodyHeight
    <2>3. y \in p.y .. p.y + p.height - 1
      BY <2>2, <1>1, <1>2, <1>4
    <2>4. x \in p.x .. p.x + p.width - 1
      BY <2>2, <1>1, <1>3, <1>4
    <2> QED
      BY <2>3, <2>4 DEF Covers, p
  <1>8. ASSUME ~ (i < taskCount)
        PROVE  LET bottom == layout[task(taskCount - 1)] IN
               y >= bottom.y /\ x >= bottom.x + bottom.width
    <2> DEFINE p == layout[task(taskCount - 1)]
               last == (taskCount - 1) % taskCols
    <2>1. taskCount - 1 \in 0 .. taskCount - 1
      OBVIOUS
    <2>2. row = taskRows - 1 /\ (taskCount - 1) \div taskCols = row /\ last < col
      BY <1>6, <1>8, Places
    <2>3. /\ p.y = bodyTop + row * Height /\ last \in 0 .. taskCols - 1
          /\ p.x \in Nat /\ p.width \in Nat
          /\ last # taskCols - 1 => p.x + p.width = last * Width + Width
      BY <2>1, <2>2, TaskRect
    <2> HIDE DEF p, last
    <2>4. last * Width + Width <= col * Width
      BY <2>2, <2>3, Grid, Zenon
    <2>5. last # taskCols - 1
      BY <2>2, <2>3, <1>1
    <2> HIDE DEF bodyTop, bodyHeight
    <2>6. y >= p.y
      BY <2>3, <1>1, <1>2, <1>4
    <2>7. x >= p.x + p.width
      BY <2>3, <2>4, <2>5, <1>1, <1>3, <1>4
    <2> QED
      BY <2>6, <2>7 DEF p
  <1> QED
    BY <1>6, <1>7, <1>8

\* A layout that fits is one of panes big enough, within the terminal and apart, that leave
\* nothing but the rest of the last row uncovered.
LEMMA LayoutTiles ==
    ASSUME taskCount \in Nat \ {0}, terminal \in Terms, Fits
    PROVE  LET bottom == layout[task(taskCount - 1)]
           IN /\ \A p \in Panes :
                   /\ layout[p].y >= 0 /\ layout[p].y + layout[p].height <= terminal.lines
                   /\ layout[p].x >= 0 /\ layout[p].x + layout[p].width <= terminal.cols
                   /\ layout[p].height >= kMinPaneHeight /\ layout[p].width >= kMinPaneWidth
                   /\ \A q \in Panes \ {p} : ~Overlap(layout[p], layout[q])
              /\ \A y \in 0 .. terminal.lines - 1, x \in 0 .. terminal.cols - 1 :
                   \/ \E p \in Panes : Covers(layout[p], y, x)
                   \/ y >= bottom.y /\ x >= bottom.x + bottom.width
  <1> DEFINE Upper == {header, system, queue, console}
  <1>1. /\ bodyTop \in Nat /\ bodyHeight \in Nat /\ terminal.lines = bodyTop + bodyHeight
        /\ terminal.cols \in Nat /\ kMinPaneHeight \in Nat /\ kMinPaneWidth \in Nat
    <2>1. kMinPaneHeight \in Nat /\ kMinPaneWidth \in Nat
      BY DashboardAssumption
    <2> QED
      BY <2>1, Grid, Zenon
  <1>2. \A p \in Upper :
             /\ layout[p].y \in Nat /\ layout[p].x \in Nat
             /\ layout[p].height \in Nat /\ layout[p].width \in Nat
             /\ layout[p].y + layout[p].height <= bodyTop
             /\ layout[p].x + layout[p].width <= terminal.cols
             /\ kMinPaneHeight <= layout[p].height /\ kMinPaneWidth <= layout[p].width
             /\ \A q \in Upper \ {p} : ~ Overlap(layout[p], layout[q])
    BY UpperRects, Zenon
  <1>3. ASSUME NEW i \in 0 .. taskCount - 1
        PROVE  LET p == layout[task(i)] IN
               /\ p.y \in Nat /\ p.x \in Nat /\ p.height \in Nat /\ p.width \in Nat
               /\ bodyTop <= p.y
               /\ kMinPaneHeight <= p.height /\ kMinPaneWidth <= p.width
               /\ p.y + p.height <= terminal.lines /\ p.x + p.width <= terminal.cols
    <2> DEFINE p == layout[task(i)]
               row == i \div taskCols
    <2>1. /\ row \in 0 .. taskRows - 1 /\ p.y = bodyTop + row * Height
          /\ p.y \in Nat /\ p.x \in Nat /\ p.height \in Nat /\ p.width \in Nat
          /\ kMinPaneHeight <= p.height /\ kMinPaneWidth <= p.width
          /\ p.y + p.height <= terminal.lines /\ p.x + p.width <= terminal.cols
      BY TaskRect
    <2>2. row * Height \in Nat
      <3> HIDE DEF row
      <3> QED
        BY <2>1, Grid, Zenon
    <2> HIDE DEF p, row, bodyTop
    <2> QED
      BY <2>1, <2>2, <1>1 DEF p
  <1>4. ASSUME NEW p \in Upper, NEW i \in 0 .. taskCount - 1
        PROVE  ~ Overlap(layout[p], layout[task(i)]) /\ ~ Overlap(layout[task(i)], layout[p])
    <2> DEFINE a == layout[p]
               b == layout[task(i)]
    <2>1. a.y \in Nat /\ a.height \in Nat /\ a.y + a.height <= bodyTop
      BY <1>2
    <2>2. b.y \in Nat /\ bodyTop <= b.y /\ b.height \in Nat
      BY <1>3
    <2> HIDE DEF a, b, bodyTop
    <2>3. ~ Overlap(a, b) /\ ~ Overlap(b, a)
      BY <2>1, <2>2, <1>1 DEF Overlap
    <2> QED
      BY <2>3 DEF a, b
  <1>5. ASSUME NEW p \in Panes
        PROVE  /\ layout[p].y >= 0 /\ layout[p].y + layout[p].height <= terminal.lines
               /\ layout[p].x >= 0 /\ layout[p].x + layout[p].width <= terminal.cols
               /\ layout[p].height >= kMinPaneHeight /\ layout[p].width >= kMinPaneWidth
    <2> HIDE DEF Upper, layout, bodyTop, bodyHeight
    <2>1. CASE p \in Upper
      BY <1>1, <1>2, <2>1
    <2>2. ASSUME NEW i \in 0 .. taskCount - 1, p = task(i)
          PROVE  /\ layout[p].y >= 0 /\ layout[p].y + layout[p].height <= terminal.lines
                 /\ layout[p].x >= 0 /\ layout[p].x + layout[p].width <= terminal.cols
                 /\ layout[p].height >= kMinPaneHeight /\ layout[p].width >= kMinPaneWidth
      BY <1>1, <1>3, <2>2
    <2> QED
      BY <2>1, <2>2, PaneKinds DEF Upper
  <1>6. ASSUME NEW p \in Panes, NEW q \in Panes \ {p}
        PROVE  ~ Overlap(layout[p], layout[q])
    <2> HIDE DEF Upper, layout
    <2>1. CASE p \in Upper /\ q \in Upper
      BY <1>2, <2>1
    <2>2. ASSUME p \in Upper, NEW j \in 0 .. taskCount - 1, q = task(j)
          PROVE  ~ Overlap(layout[p], layout[q])
      BY <1>4, <2>2
    <2>3. ASSUME q \in Upper, NEW i \in 0 .. taskCount - 1, p = task(i)
          PROVE  ~ Overlap(layout[p], layout[q])
      BY <1>4, <2>3
    <2>4. ASSUME NEW i \in 0 .. taskCount - 1, NEW j \in 0 .. taskCount - 1,
                 p = task(i), q = task(j)
          PROVE  ~ Overlap(layout[p], layout[q])
      <3>1. i # j
        BY <2>4
      <3> QED
        BY <2>4, <3>1, TasksApart, Zenon
    <2>5. p \in Upper \/ \E i \in 0 .. taskCount - 1 : p = task(i)
      BY PaneKinds DEF Upper
    <2>6. q \in Upper \/ \E i \in 0 .. taskCount - 1 : q = task(i)
      BY PaneKinds DEF Upper
    <2> QED
      BY <2>1, <2>2, <2>3, <2>4, <2>5, <2>6, Zenon
  <1>7. ASSUME NEW y \in 0 .. terminal.lines - 1, NEW x \in 0 .. terminal.cols - 1
        PROVE  LET bottom == layout[task(taskCount - 1)] IN
               \/ \E p \in Panes : Covers(layout[p], y, x)
               \/ y >= bottom.y /\ x >= bottom.x + bottom.width
    <2> HIDE DEF layout
    <2>1. CASE y < bodyTop
      <3>1. y \in 0 .. bodyTop - 1
        BY <1>1, <2>1
      <3>2. \E p \in Upper : Covers(layout[p], y, x)
        BY <3>1, UpperRects, Zenon
      <3>3. Upper \subseteq Panes
        BY DEF Panes
      <3> QED
        BY <3>2, <3>3, Zenon
    <2>2. CASE ~ (y < bodyTop)
      <3>1. y \in bodyTop .. terminal.lines - 1
        BY <1>1, <2>2
      <3>2. \A i \in 0 .. taskCount - 1 : task(i) \in Panes
        BY DEF Panes
      <3> QED
        BY <3>1, <3>2, BodyCovered, Zenon
    <2> QED
      BY <2>1, <2>2
  <1> QED
    BY <1>5, <1>6, <1>7

-----------------------------------------------------------------------------

\* Where a worker may be.
Spots == {"unborn", "start", "down", "test", "sleep", "asleep", "woken", "recheck", "enter",
          "up", "raise", "broadcast", "done"}

\* The places in which a worker holds the semaphore's lock.
Inside == {"test", "sleep", "recheck", "enter", "raise", "broadcast"}

\* A thread between erasing its pane and putting its line there has the mutex, and the line.
Drawing ==
    /\ taskCount \in Nat \ {0} /\ terminal \in Terms
    /\ interactive \in BOOLEAN /\ cursesReady \in BOOLEAN
    /\ toLog \in [Threads -> Seq(Panes)]
    /\ drawing \subseteq Threads
    /\ \A t \in drawing : renderMutex = t /\ toLog[t] # <<>> /\ interactive

\* What may be on a screen, and what is: one thing on each pane, but for those being drawn.
Drawings == {titles, defaultLines, prompt} \cup {line(t) : t \in Threads}

Shown ==
    /\ screen \in [DOMAIN panes -> Seq(Drawings)]
    /\ \A p \in DOMAIN panes :
          IF \E t \in drawing : Head(toLog[t]) = p THEN screen[p] = <<>> ELSE Len(screen[p]) = 1

\* A worker that waits for the semaphore is in its queue, which is not empty then.
Waiting ==
    /\ at \in [Workers -> Spots]
    /\ waitQueue \in Seq(Workers)
    /\ \A t \in Workers : at[t] \in {"sleep", "asleep", "woken", "recheck"} =>
         \E i \in 1 .. Len(waitQueue) : waitQueue[i] = t

\* The semaphore's lock is a worker's exactly in the places inside Down and Up where it
\* has taken it; a worker that has not been created has none.
Locked ==
    /\ lock \in Workers \cup {Nobody}
    /\ \A t \in Workers : lock = t <=> at[t] \in Inside
    /\ \A t \in Workers : t >= created => at[t] = "unborn"

\* The windows are there from the layout to the destructor.
LaidOut ==
    /\ main \in {"construct", "layout"} => ~interactive
    /\ main = "construct" => ~cursesReady
    /\ ~interactive /\ main \notin {"construct", "layout"} => ~cursesReady
    /\ interactive => Fits
    /\ interactive /\ main \notin {"exit", "ended"} => cursesReady /\ panes = layout
    /\ main \in {"exit", "ended"} => ~cursesReady

\* Workers have something to do only while main creates and joins them, and main itself
\* waits for input with the mutex held and nothing to write.
MainAlone ==
    /\ ~gaveUp /\ main \notin {"create", "join"} =>
         \A t \in Workers : at[t] \in {"unborn", "done"} /\ toLog[t] = <<>>
    /\ main \in {"exit", "ended"} => toLog[Main] = <<>>
    /\ main \in {"key", "typed"} => renderMutex = Main /\ toLog[Main] = <<>>

\* What main waits for is on the console from before it takes the mutex to wait.
Asking ==
    /\ gaveUp => main \in {"destroy", "exit", "ended"}
    /\ main \in {"hold", "key", "typed"} => interactive
    /\ main = "hold" => toLog[Main] \in {<<system, console>>, <<console>>, <<>>}
    /\ main \in {"hold", "key"} /\ toLog[Main] = <<>> => screen[console] = <<line(Main)>>
    /\ main = "typed" => screen[console] = <<prompt>>

\* Inductive: the seven above, and that only measurements have commands.
IInvDash ==
    /\ Drawing
    /\ Shown
    /\ Waiting
    /\ Locked
    /\ LaidOut
    /\ MainAlone
    /\ Asking
    /\ created \in Nat
    /\ program \in {"threads", "commands", "plain"}
    /\ main = "command" \/ main = "typed" => program = "commands"
    /\ program = "commands" => taskCount >= 3

\* The layout is a function of the terminal and of the number of tasks.
LEMMA SamePlaces ==
    ASSUME UNCHANGED <<terminal, taskCount>>
    PROVE  layout' = layout /\ Panes' = Panes /\ (Fits' <=> Fits)
  <1>1. Panes' = Panes
    BY DEF Panes, task, header, system, queue, console
  <1>2. taskCols' = taskCols /\ taskRows' = taskRows /\ bodyTop' = bodyTop /\ bodyHeight' = bodyHeight
    BY DEF taskCols, taskRows, bodyTop, bodyHeight, preferredCols, RoundedUp
  <1>3. consoleWidth' = consoleWidth /\ systemWidth' = systemWidth /\ sharedWidth' = sharedWidth
    BY DEF consoleWidth, systemWidth, sharedWidth
  <1>4. Fits' <=> Fits
    BY <1>2, <1>3, Zenon DEF Fits
  <1>5. layout' = layout
    <2>1. terminal' = terminal
      OBVIOUS
    <2> QED
      BY <1>1, <1>2, <1>3, <2>1 DEF layout, taskPane, newwin, header, system, queue, console
  <1> QED
    BY <1>1, <1>4, <1>5

\* Main is none of the workers.
LEMMA Actors ==
    /\ Main \in Threads /\ Workers \subseteq Threads /\ Main \notin Workers
    /\ Threads = {Main} \cup Workers /\ Nobody \notin Threads
    /\ \A t \in Workers : t \in Int
  BY ProgramsAssumption, DashboardAssumption DEF Main, Workers

\* The lines of a task or of a message go to panes that there are.
LEMMA PaneNames ==
    ASSUME taskCount \in Nat \ {0}
    PROVE  /\ header \in Panes /\ system \in Panes /\ queue \in Panes /\ console \in Panes
           /\ \A i \in Int : logTask(i) \in Seq(Panes) /\ Len(logTask(i)) = 1
           /\ \A i, j \in Int : sendTaskMessage(i, j) \in Seq(Panes) /\ Len(sendTaskMessage(i, j)) = 3
           /\ \A i \in 0 .. taskCount - 1 : task(i) \in Panes
  <1>1. /\ header \in Panes /\ system \in Panes /\ queue \in Panes /\ console \in Panes
        /\ \A i \in 0 .. taskCount - 1 : task(i) \in Panes
    BY DEF Panes
  <1>2. \A i \in Int : clampTaskId(i) \in 0 .. taskCount - 1
    BY DEF clampTaskId, Greatest, Least
  <1>3. ASSUME NEW i \in Int PROVE logTask(i) \in Seq(Panes) /\ Len(logTask(i)) = 1
    <2>1. task(clampTaskId(i)) \in Panes
      BY <1>1, <1>2
    <2> QED
      BY <2>1 DEF logTask
  <1>4. ASSUME NEW i \in Int, NEW j \in Int
        PROVE  sendTaskMessage(i, j) \in Seq(Panes) /\ Len(sendTaskMessage(i, j)) = 3
    <2>1. logTask(i) \in Seq(Panes) /\ logTask(j) \in Seq(Panes)
          /\ Len(logTask(i)) = 1 /\ Len(logTask(j)) = 1
      BY <1>3
    <2>2. <<system>> \in Seq(Panes) /\ Len(<<system>>) = 1
      BY <1>1
    <2>3. logTask(i) \o logTask(j) \in Seq(Panes) /\ Len(logTask(i) \o logTask(j)) = 2
      <3>1. PICK a, b : a = logTask(i) /\ b = logTask(j)
        OBVIOUS
      <3>2. a \in Seq(Panes) /\ b \in Seq(Panes) /\ Len(a) = 1 /\ Len(b) = 1
        BY <2>1, <3>1
      <3>3. a \o b \in Seq(Panes) /\ Len(a \o b) = Len(a) + Len(b)
        BY <3>2, ConcatProperties, Zenon
      <3>4. 1 + 1 = 2
        OBVIOUS
      <3> QED
        BY <3>1, <3>2, <3>3, <3>4, Zenon
    <2>4. sendTaskMessage(i, j) = (logTask(i) \o logTask(j)) \o <<system>>
      BY DEF sendTaskMessage
    <2> QED
      BY <2>2, <2>3, <2>4
  <1> QED
    BY <1>1, <1>3, <1>4

\* The lines of measurement.
LEMMA TimesType ==
    ASSUME NEW S, NEW n \in Nat, NEW pane \in S
    PROVE  Times(n, pane) \in Seq(S)
  BY DEF Times

LEMMA MeasurementLines ==
    ASSUME taskCount \in Nat \ {0}, taskCount >= 3, NEW wallOk \in BOOLEAN
    PROVE  measurement(wallOk) \in Seq(Panes)
  <1>1. /\ system \in Panes /\ queue \in Panes /\ console \in Panes
        /\ task(0) \in Panes /\ task(1) \in Panes /\ task(2) \in Panes
    BY PaneNames
  <1>2. Times(IF wallOk THEN 9 ELSE 2, task(0)) \in Seq(Panes)
    BY <1>1, TimesType
  <1>3. /\ Times(5, task(1)) \in Seq(Panes) /\ Times(7, task(2)) \in Seq(Panes)
        /\ Times(2, queue) \in Seq(Panes)
    BY <1>1, TimesType
  <1>4. Times(5, task(1)) \o Times(7, task(2)) \o Times(2, queue) \in Seq(Panes)
    BY <1>3
  <1>5. <<system, queue>> \in Seq(Panes) /\ <<system, console>> \in Seq(Panes) /\ <<>> \in Seq(Panes)
    BY <1>1
  <1> QED
    BY <1>2, <1>4, <1>5 DEF measurement

-----------------------------------------------------------------------------
(* What the operations of the dashboard do to Drawing and Shown. *)

\* With no thread drawing every pane shows one thing, and so it does after a prompt.
LEMMA Redrawn ==
    ASSUME Shown, drawing = {}, NEW d \in Drawings,
           NEW shown \in {screen, Showing(console, <<d>>)}
    PROVE  /\ shown \in [DOMAIN panes -> Seq(Drawings)]
           /\ \A p \in DOMAIN panes : Len(shown[p]) = 1
           /\ console \in DOMAIN panes /\ shown # screen => shown[console] = <<d>>
  <1>1. screen \in [DOMAIN panes -> Seq(Drawings)] /\ \A p \in DOMAIN panes : Len(screen[p]) = 1
    BY DEF Shown
  <1>2. <<d>> \in Seq(Drawings) /\ Len(<<d>>) = 1
    OBVIOUS
  <1>3. shown = screen \/ (console \in DOMAIN panes /\ shown = [screen EXCEPT ![console] = <<d>>])
    BY DEF Showing
  <1> QED
    BY <1>1, <1>2, <1>3

LEMMA LogDraws ==
    ASSUME Drawing, Shown, NEW t \in Threads, Quiet(t), NEW lines \in Seq(Panes), Log(t, lines)
    PROVE  /\ Drawing' /\ Shown'
           /\ UNCHANGED <<terminal, taskCount, cursesReady, interactive, panes, renderMutex, screen>>
           /\ \A u \in Threads \ {t} : toLog'[u] = toLog[u]
           /\ toLog'[t] = lines
  <1>1. /\ UNCHANGED <<terminal, taskCount, cursesReady, interactive, panes, renderMutex, drawing, screen>>
        /\ toLog' = [toLog EXCEPT ![t] = lines]
    BY DEF Log
  <1>2. /\ toLog' \in [Threads -> Seq(Panes)] /\ toLog'[t] = lines
        /\ \A u \in Threads \ {t} : toLog'[u] = toLog[u]
    BY <1>1 DEF Drawing
  <1>3. t \notin drawing /\ drawing \subseteq Threads
    BY DEF Drawing, Quiet
  <1>4. Drawing'
    BY <1>1, <1>2, <1>3, SamePlaces DEF Drawing
  <1>5. \A u \in drawing : toLog'[u] = toLog[u]
    BY <1>2, <1>3
  <1>6. Shown'
    BY <1>1, <1>5 DEF Shown
  <1> QED
    BY <1>1, <1>2, <1>4, <1>6

LEMMA AnswerDraws ==
    ASSUME Drawing, Shown, renderMutex = Main, Quiet(Main), NEW lines \in Seq(Panes),
           NEW shown \in {screen, refreshConsole}, Answered(Main, shown, lines)
    PROVE  /\ Drawing' /\ Shown'
           /\ UNCHANGED <<terminal, taskCount, cursesReady, interactive, panes>>
           /\ \A u \in Threads \ {Main} : toLog'[u] = toLog[u]
           /\ toLog'[Main] = lines
  <1>1. /\ UNCHANGED <<terminal, taskCount, cursesReady, interactive, panes, drawing>>
        /\ toLog' = [toLog EXCEPT ![Main] = lines] /\ screen' = shown
    BY DEF Answered
  <1>2. /\ toLog' \in [Threads -> Seq(Panes)] /\ toLog'[Main] = lines
        /\ \A u \in Threads \ {Main} : toLog'[u] = toLog[u]
    BY <1>1, Actors DEF Drawing
  <1>3. drawing = {}
    BY Actors DEF Drawing, Quiet
  <1>4. Drawing'
    BY <1>1, <1>2, <1>3, SamePlaces DEF Drawing
  <1>5. defaultLines \in Drawings /\ shown \in {screen, Showing(console, <<defaultLines>>)}
    BY DEF Drawings, refreshConsole
  <1>6. Shown'
    <2>1. /\ shown \in [DOMAIN panes -> Seq(Drawings)]
          /\ \A p \in DOMAIN panes : Len(shown[p]) = 1
      BY <1>3, <1>5, Redrawn
    <2> QED
      BY <1>1, <1>3, <2>1 DEF Shown
  <1> QED
    BY <1>1, <1>2, <1>4, <1>6

LEMMA AwaitDraws ==
    ASSUME Drawing, Shown, NEW shown \in {screen, promptLine}, Await(Main, shown)
    PROVE  /\ Drawing' /\ Shown' /\ renderMutex' = Main
           /\ UNCHANGED <<terminal, taskCount, cursesReady, interactive, panes, toLog>>
           /\ screen' = shown
           /\ console \in DOMAIN panes => promptLine[console] = <<prompt>>
  <1>1. /\ UNCHANGED <<terminal, taskCount, cursesReady, interactive, panes, toLog, drawing>>
        /\ renderMutex = Nobody /\ renderMutex' = Main /\ screen' = shown
    BY DEF Await
  <1>2. drawing = {}
    BY <1>1, Actors DEF Drawing
  <1>3. Drawing'
    BY <1>1, <1>2, SamePlaces DEF Drawing
  <1>4. prompt \in Drawings /\ shown \in {screen, Showing(console, <<prompt>>)}
    BY DEF Drawings, promptLine
  <1>5. Shown'
    <2>1. /\ shown \in [DOMAIN panes -> Seq(Drawings)]
          /\ \A p \in DOMAIN panes : Len(shown[p]) = 1
      BY <1>2, <1>4, Redrawn
    <2> QED
      BY <1>1, <1>2, <2>1 DEF Shown
  <1>6. console \in DOMAIN panes => promptLine[console] = <<prompt>>
    BY DEF promptLine, Showing, Shown
  <1> QED
    BY <1>1, <1>3, <1>5, <1>6

\* A thread that has a line to write erases its pane, or puts the line there, alone.
LEMMA WriteDraws ==
    ASSUME Drawing, Shown, NEW t \in Threads, WriteLine(t)
    PROVE  /\ Drawing' /\ Shown'
           /\ UNCHANGED <<terminal, taskCount, cursesReady, interactive, panes>>
           /\ ~ Quiet(t) /\ toLog[t] \in Seq(Panes)
           /\ \A u \in Threads \ {t} : toLog'[u] = toLog[u]
           /\ renderMutex \in Threads /\ Quiet(renderMutex) => renderMutex' = renderMutex
           /\ \/ toLog'[t] = toLog[t]
              \/ /\ toLog'[t] = Tail(toLog[t])
                 /\ interactive /\ Head(toLog[t]) \in DOMAIN panes =>
                      screen'[Head(toLog[t])] = <<line(t)>>
  <1>1. CASE renderTitle(t)
    <2>1. /\ UNCHANGED <<terminal, taskCount, cursesReady, interactive, panes, toLog>>
          /\ interactive /\ ~Quiet(t) /\ renderMutex = Nobody /\ renderMutex' = t
          /\ drawing' = drawing \cup {t} /\ screen' = Showing(Head(toLog[t]), <<>>)
      BY <1>1 DEF renderTitle
    <2>2. drawing = {}
      BY <2>1, Actors DEF Drawing
    <2>3. toLog[t] # <<>> /\ drawing' = {t}
      BY <2>1, <2>2 DEF Quiet
    <2>4. Drawing'
      BY <2>1, <2>3, SamePlaces DEF Drawing
    <2>5. Shown'
      <3>1. PICK p : p = Head(toLog[t])
        OBVIOUS
      <3>2. /\ screen \in [DOMAIN panes -> Seq(Drawings)]
            /\ \A q \in DOMAIN panes : Len(screen[q]) = 1
        BY <2>2 DEF Shown
      <3>3. <<>> \in Seq(Drawings)
        OBVIOUS
      <3>4. screen' = IF p \in DOMAIN panes THEN [screen EXCEPT ![p] = <<>>] ELSE screen
        BY <2>1, <3>1 DEF Showing
      <3>5. /\ screen' \in [DOMAIN panes -> Seq(Drawings)]
            /\ \A q \in DOMAIN panes : IF p = q THEN screen'[q] = <<>> ELSE Len(screen'[q]) = 1
        BY <3>2, <3>3, <3>4
      <3> QED
        BY <2>1, <2>3, <3>1, <3>5 DEF Shown
    <2> QED
      BY <2>1, <2>4, <2>5, Actors DEF Drawing
  <1>2. CASE appendLine(t)
    <2> DEFINE p == Head(toLog[t])
    <2>1. /\ UNCHANGED <<terminal, taskCount, cursesReady, interactive, panes>>
          /\ t \in drawing /\ renderMutex' = Nobody
          /\ screen' = IF p \in DOMAIN panes THEN [screen EXCEPT ![p] = Append(screen[p], line(t))]
                                              ELSE screen
          /\ toLog' = [toLog EXCEPT ![t] = Tail(@)]
          /\ drawing' = drawing \ {t}
      BY <1>2 DEF appendLine, Showing
    <2>2. renderMutex = t /\ toLog[t] # <<>> /\ interactive
      BY <2>1 DEF Drawing
    <2>3. drawing = {t} /\ drawing' = {}
      BY <2>1, <2>2 DEF Drawing
    <2>4. toLog[t] \in Seq(Panes) /\ Tail(toLog[t]) \in Seq(Panes)
      BY <2>2 DEF Drawing
    <2>5. /\ toLog' \in [Threads -> Seq(Panes)] /\ toLog'[t] = Tail(toLog[t])
          /\ \A u \in Threads \ {t} : toLog'[u] = toLog[u]
      BY <2>1, <2>4 DEF Drawing
    <2>6. Drawing'
      BY <2>1, <2>3, <2>5, SamePlaces DEF Drawing
    <2>7. /\ screen \in [DOMAIN panes -> Seq(Drawings)]
          /\ \A q \in DOMAIN panes : IF p = q THEN screen[q] = <<>> ELSE Len(screen[q]) = 1
      BY <2>3 DEF Shown
    <2>8. line(t) \in Drawings
      BY DEF Drawings
    <2> HIDE DEF p
    <2>9. p \in DOMAIN panes => /\ Append(screen[p], line(t)) = <<line(t)>>
                               /\ <<line(t)>> \in Seq(Drawings) /\ Len(<<line(t)>>) = 1
      <3>1. ASSUME NEW d \in Drawings
            PROVE  Append(<<>>, d) = <<d>> /\ <<d>> \in Seq(Drawings) /\ Len(<<d>>) = 1
        OBVIOUS
      <3> QED
        BY <2>7, <2>8, <3>1, Zenon
    <2>10. /\ screen' \in [DOMAIN panes -> Seq(Drawings)]
           /\ \A q \in DOMAIN panes : Len(screen'[q]) = 1
           /\ p \in DOMAIN panes => screen'[p] = <<line(t)>>
      BY <2>1, <2>7, <2>9
    <2>11. Shown'
      BY <2>1, <2>3, <2>10 DEF Shown
    <2> QED
      BY <2>1, <2>2, <2>4, <2>5, <2>6, <2>10, <2>11 DEF Quiet, p
  <1>3. CASE PrintLine(t)
    <2>1. /\ UNCHANGED <<terminal, taskCount, cursesReady, interactive, panes, renderMutex, drawing, screen>>
          /\ ~interactive /\ ~Quiet(t)
          /\ toLog' = [toLog EXCEPT ![t] = Tail(@)]
      BY <1>3 DEF PrintLine
    <2>2. toLog[t] \in Seq(Panes) /\ toLog[t] # <<>>
      BY <2>1 DEF Drawing, Quiet
    <2>3. Tail(toLog[t]) \in Seq(Panes)
      BY <2>2
    <2>4. /\ toLog' \in [Threads -> Seq(Panes)] /\ toLog'[t] = Tail(toLog[t])
          /\ \A u \in Threads \ {t} : toLog'[u] = toLog[u]
      BY <2>1, <2>3 DEF Drawing
    <2>5. drawing = {}
      BY <2>1 DEF Drawing
    <2>6. Drawing'
      BY <2>1, <2>4, <2>5, SamePlaces DEF Drawing
    <2>7. Shown'
      BY <2>1, <2>5 DEF Shown
    <2> QED
      BY <2>1, <2>2, <2>4, <2>6, <2>7
  <1> QED
    BY <1>1, <1>2, <1>3 DEF WriteLine

LEMMA LayoutDraws ==
    ASSUME Drawing, Shown, buildLayout(Main), ~interactive
    PROVE  /\ Drawing' /\ Shown'
           /\ UNCHANGED <<terminal, taskCount, renderMutex>>
           /\ \A u \in Threads \ {Main} : toLog'[u] = toLog[u]
           /\ ~interactive' => ~cursesReady'
           /\ interactive' => cursesReady' /\ Fits /\ panes' = layout
  <1>1. UNCHANGED <<terminal, taskCount, renderMutex, drawing>>
    BY DEF buildLayout
  <1>2. drawing = {}
    BY DEF Drawing
  <1>3. CASE cursesReady /\ Fits
    <2>1. /\ panes' = layout /\ interactive' = TRUE /\ UNCHANGED cursesReady
          /\ screen' = [p \in Panes |-> IF p = console THEN <<defaultLines>> ELSE <<titles>>]
          /\ toLog' = [toLog EXCEPT ![Main] = <<system>>]
      BY <1>3 DEF buildLayout
    <2>2. <<system>> \in Seq(Panes)
      <3>1. system \in Panes
        BY PaneNames DEF Drawing
      <3> QED
        BY <3>1
    <2>3. toLog' \in [Threads -> Seq(Panes)] /\ \A u \in Threads \ {Main} : toLog'[u] = toLog[u]
      BY <2>1, <2>2, Actors DEF Drawing
    <2>4. Drawing'
      BY <1>1, <1>2, <2>1, <2>3, SamePlaces DEF Drawing
    <2>5. Shown'
      <3>1. DOMAIN panes' = Panes
        BY <2>1 DEF layout
      <3>2. <<defaultLines>> \in Seq(Drawings) /\ <<titles>> \in Seq(Drawings)
        BY DEF Drawings
      <3>3. Len(<<defaultLines>>) = 1 /\ Len(<<titles>>) = 1
        OBVIOUS
      <3>4. /\ screen' \in [Panes -> Seq(Drawings)]
            /\ \A p \in Panes : Len(screen'[p]) = 1
        BY <2>1, <3>2, <3>3
      <3>5. drawing' = {}
        BY <1>1, <1>2
      <3> QED
        BY <3>1, <3>4, <3>5 DEF Shown
    <2> QED
      BY <1>1, <1>3, <2>1, <2>3, <2>4, <2>5
  <1>4. CASE ~ (cursesReady /\ Fits)
    <2>1. cursesReady' = FALSE /\ UNCHANGED <<interactive, panes, toLog, screen>>
      BY <1>4 DEF buildLayout
    <2>2. Drawing'
      BY <1>1, <1>2, <2>1, SamePlaces DEF Drawing
    <2>3. Shown'
      BY <1>1, <1>2, <2>1 DEF Shown
    <2> QED
      BY <1>1, <2>1, <2>2, <2>3
  <1> QED
    BY <1>3, <1>4

-----------------------------------------------------------------------------

\* The dashboard does not exist yet.
LEMMA DashInitially == ProgInit => IInvDash
  <1> SUFFICES ASSUME ProgInit PROVE IInvDash
    OBVIOUS
  <1>1. terminal \in Terms /\ taskCount \in Nat \ {0} /\ program \in {"threads", "commands", "plain"}
    BY ProgramsAssumption DEF ProgInit
  <1>2. program = "commands" => taskCount >= 3
    BY ProgramsAssumption DEF ProgInit
  <1>3. <<>> \in Seq(Panes) /\ <<>> \in Seq(Workers)
    OBVIOUS
  <1>4. Drawing
    BY <1>1, <1>3 DEF ProgInit, DashInit, Drawing
  <1>5. Waiting
    BY <1>3 DEF ProgInit, Waiting, Spots
  <1>6. LaidOut
    BY DEF ProgInit, DashInit, LaidOut
  <1>7. MainAlone /\ Asking
    BY Actors DEF ProgInit, DashInit, MainAlone, Asking
  <1>8. Shown
    BY DEF ProgInit, DashInit, Shown
  <1>9. Locked
    BY Actors DEF ProgInit, Locked, Inside
  <1> QED
    BY <1>1, <1>2, <1>4, <1>5, <1>6, <1>7, <1>8, <1>9 DEF ProgInit, DashInit, IInvDash

\* A worker that has written its lines goes on.
LEMMA WorkerGoesOn ==
    ASSUME IInvDash, NEW t \in Workers, at[t] \notin {"unborn", "done"}, Quiet(t),
           NEW lines \in Seq(Panes), Log(t, lines), Waiting', Locked', StaysWorker
    PROVE  IInvDash'
  <1>1. /\ Drawing' /\ Shown'
        /\ UNCHANGED <<terminal, taskCount, cursesReady, interactive, panes, renderMutex, screen>>
        /\ \A u \in Threads \ {t} : toLog'[u] = toLog[u]
    BY Actors, LogDraws DEF IInvDash
  <1>2. UNCHANGED <<program, main, created, gaveUp>>
    BY DEF StaysWorker
  <1>3. layout' = layout /\ (Fits' <=> Fits)
    BY <1>1, SamePlaces
  <1>4. LaidOut'
    BY <1>1, <1>2, <1>3 DEF LaidOut, IInvDash
  <1>5. toLog'[Main] = toLog[Main]
    BY <1>1, Actors
  <1>6. gaveUp \/ main \in {"create", "join"}
    BY DEF IInvDash, MainAlone
  <1>7. MainAlone'
    BY <1>1, <1>2, <1>5, <1>6 DEF MainAlone, IInvDash
  <1>8. Asking'
    BY <1>1, <1>2, <1>5 DEF Asking, IInvDash
  <1> QED
    BY <1>1, <1>2, <1>4, <1>7, <1>8 DEF IInvDash

\* A worker takes the lock, keeps it, gives it back or goes on without it.
LEMMA LockGoesOn ==
    ASSUME Locked, Waiting, NEW t \in Workers, at[t] # "unborn",
           NEW there \in Spots \ {"unborn"}, Go(t, there), created' = created,
           \/ lock' = lock /\ (at[t] \in Inside <=> there \in Inside)
           \/ lock = Nobody /\ lock' = t /\ there \in Inside
           \/ at[t] \in Inside /\ lock' = Nobody /\ there \notin Inside
    PROVE  Locked'
  <1>1. /\ at' \in [Workers -> Spots] /\ at'[t] = there
        /\ \A u \in Workers \ {t} : at'[u] = at[u]
    BY DEF Waiting, Go
  <1>2. \A u \in Workers : u >= created' => at'[u] = "unborn"
    BY <1>1 DEF Locked
  <1>3. lock' \in Workers \cup {Nobody}
    BY DEF Locked
  <1>4. \A u \in Workers : lock' = u <=> at'[u] \in Inside
    <2>1. Nobody \notin Workers /\ \A u \in Workers : lock = u <=> at[u] \in Inside
      BY Actors DEF Locked
    <2>2. CASE lock' = lock /\ (at[t] \in Inside <=> there \in Inside)
      BY <1>1, <2>1, <2>2
    <2>3. CASE lock = Nobody /\ lock' = t /\ there \in Inside
      BY <1>1, <2>1, <2>3
    <2>4. CASE at[t] \in Inside /\ lock' = Nobody /\ there \notin Inside
      BY <1>1, <2>1, <2>4
    <2> QED
      BY <2>2, <2>3, <2>4
  <1> QED
    BY <1>2, <1>3, <1>4 DEF Locked

\* A worker that stays where it is keeps the queue's promise.
LEMMA SameWaiting ==
    ASSUME Waiting, UNCHANGED <<at, waitQueue>>
    PROVE  Waiting'
  BY DEF Waiting

\* A worker goes where it does not wait.
LEMMA GoesOn ==
    ASSUME Waiting, NEW t \in Workers,
           NEW there \in Spots \ {"sleep", "asleep", "woken", "recheck"}, Go(t, there),
           waitQueue' = waitQueue
    PROVE  Waiting'
  BY DEF Waiting, Go

\* A worker goes on waiting.
LEMMA WaitsOn ==
    ASSUME Waiting, NEW t \in Workers, at[t] \in {"sleep", "asleep", "woken", "recheck"},
           NEW there \in {"sleep", "asleep", "woken", "recheck"}, Go(t, there),
           waitQueue' = waitQueue
    PROVE  Waiting'
  BY DEF Waiting, Go, Spots

\* A line written keeps the invariant.
LEMMA LineDrawn ==
    ASSUME IInvDash, NEW t \in Threads, WriteLine(t), UNCHANGED progVars
    PROVE  IInvDash'
  <1>1. UNCHANGED <<program, main, created, gaveUp, at, lock, waitQueue>>
    BY DEF progVars
  <1>2. /\ Drawing' /\ Shown'
        /\ UNCHANGED <<terminal, taskCount, cursesReady, interactive, panes>>
        /\ ~ Quiet(t)
        /\ \A u \in Threads \ {t} : toLog'[u] = toLog[u]
        /\ renderMutex \in Threads /\ Quiet(renderMutex) => renderMutex' = renderMutex
        /\ \/ toLog'[t] = toLog[t]
           \/ /\ toLog'[t] = Tail(toLog[t])
              /\ interactive /\ Head(toLog[t]) \in DOMAIN panes =>
                   screen'[Head(toLog[t])] = <<line(t)>>
    BY WriteDraws DEF IInvDash
  <1>3. layout' = layout /\ (Fits' <=> Fits)
    BY <1>2, SamePlaces
  <1>4. LaidOut'
    BY <1>1, <1>2, <1>3 DEF LaidOut, IInvDash
  <1>5. Waiting' /\ Locked'
    BY <1>1, SameWaiting DEF IInvDash, Locked
  <1>6. ASSUME t \in Workers PROVE MainAlone' /\ Asking'
    <2>1. gaveUp \/ main \in {"create", "join"}
      BY <1>2, <1>6 DEF IInvDash, MainAlone, Quiet
    <2>2. toLog'[Main] = toLog[Main]
      BY <1>2, <1>6, Actors
    <2>3. main \notin {"hold", "key", "typed"}
      BY <2>1 DEF IInvDash, Asking
    <2> QED
      BY <1>1, <1>2, <2>1, <2>2, <2>3 DEF IInvDash, MainAlone, Asking
  <1>7. ASSUME t = Main PROVE MainAlone' /\ Asking'
    <2>1. main \notin {"exit", "ended", "key", "typed"}
      BY <1>2, <1>7 DEF IInvDash, MainAlone, Quiet
    <2>2. \A u \in Workers : toLog'[u] = toLog[u]
      BY <1>2, <1>7, Actors
    <2>3. MainAlone'
      BY <1>1, <2>1, <2>2 DEF IInvDash, MainAlone
    <2>4. ASSUME main = "hold"
          PROVE  /\ toLog'[Main] \in {<<system, console>>, <<console>>, <<>>}
                 /\ toLog'[Main] = <<>> => screen'[console] = <<line(Main)>>
      <3>1. toLog[Main] = <<system, console>> \/ toLog[Main] = <<console>>
        BY <1>2, <1>7, <2>4 DEF IInvDash, Asking, Quiet
      <3>2. interactive /\ panes = layout
        BY <2>4 DEF IInvDash, Asking, LaidOut
      <3>3. console \in DOMAIN panes
        BY <3>2 DEF layout, Panes
      <3>4. CASE toLog'[t] = toLog[t]
        <4>1. <<system, console>> # <<>> /\ <<console>> # <<>>
          OBVIOUS
        <4> QED
          BY <1>7, <3>1, <3>4, <4>1, Zenon
      <3>5. CASE /\ toLog'[t] = Tail(toLog[t])
                 /\ interactive /\ Head(toLog[t]) \in DOMAIN panes =>
                      screen'[Head(toLog[t])] = <<line(t)>>
        <4>1. CASE toLog[Main] = <<console>>
          <5>1. Head(toLog[Main]) = console /\ Tail(toLog[Main]) = <<>>
            BY <4>1
          <5> QED
            BY <1>7, <3>2, <3>3, <3>5, <5>1
        <4>2. CASE toLog[Main] = <<system, console>>
          <5>1. Tail(toLog[Main]) = <<console>>
            BY <4>2
          <5> QED
            BY <1>7, <3>5, <5>1
        <4> QED
          BY <3>1, <4>1, <4>2
      <3> QED
        BY <1>2, <3>4, <3>5
    <2>5. Asking'
      BY <1>1, <1>2, <2>1, <2>4 DEF IInvDash, Asking
    <2> QED
      BY <2>3, <2>5
  <1>8. MainAlone' /\ Asking'
    BY <1>6, <1>7, Actors
  <1> QED
    BY <1>1, <1>2, <1>4, <1>5, <1>8 DEF IInvDash

-----------------------------------------------------------------------------
(* The workers. *)

LEMMA ReportKeeps ==
    ASSUME IInvDash, NEW t \in Workers, Report(t)
    PROVE  IInvDash'
  <1>1. at[t] = "start" /\ Quiet(t)
    BY DEF Report, At
  <1>2. t \in Int /\ next(t) \in Int
    BY ProgramsAssumption, Actors DEF next
  <1>3. /\ logTask(t) \in Seq(Panes) /\ sendTaskMessage(t, next(t)) \in Seq(Panes)
    BY <1>2, PaneNames DEF IInvDash, Drawing
  <1>4. logTask(t) \o sendTaskMessage(t, next(t)) \o logTask(t) \in Seq(Panes)
    BY <1>3
  <1>5. Waiting'
    BY GoesOn DEF IInvDash, Report, semaphoreVars, Spots
  <1>6. Log(t, logTask(t) \o sendTaskMessage(t, next(t)) \o logTask(t)) /\ StaysWorker
    BY DEF Report
  <1>7. Locked'
    BY <1>1, LockGoesOn DEF IInvDash, Report, semaphoreVars, StaysWorker, Spots, Inside
  <1> QED
    BY <1>1, <1>4, <1>5, <1>6, <1>7, WorkerGoesOn

LEMMA LockKeeps ==
    ASSUME IInvDash, NEW t \in Workers, Lock(t)
    PROVE  IInvDash'
  <1>1. at[t] \in {"down", "woken", "up"} /\ Quiet(t)
    BY DEF Lock, At
  <1>2. PICK lines : lines = IF at[t] = "down" THEN <<queue>> ELSE <<>>
    OBVIOUS
  <1>3. lines \in Seq(Panes)
    <2>1. queue \in Panes
      BY PaneNames DEF IInvDash, Drawing
    <2> QED
      BY <1>2, <2>1
  <1>4. /\ Log(t, lines) /\ StaysWorker /\ waitQueue' = waitQueue
        /\ lock = Nobody /\ lock' = t /\ created' = created
    BY <1>2 DEF Lock, StaysWorker
  <1>5. Waiting' /\ Locked'
    <2>1. CASE at[t] = "down"
      <3>1. Go(t, "test")
        BY <2>1 DEF Lock
      <3> QED
        BY <1>1, <1>4, <3>1, GoesOn, LockGoesOn DEF IInvDash, Spots, Inside
    <2>2. CASE at[t] = "woken"
      <3>1. Go(t, "recheck")
        BY <2>2 DEF Lock
      <3> QED
        BY <1>1, <1>4, <2>2, <3>1, WaitsOn, LockGoesOn DEF IInvDash, Spots, Inside
    <2>3. CASE at[t] = "up"
      <3>1. Go(t, "raise")
        BY <2>3 DEF Lock
      <3> QED
        BY <1>1, <1>4, <3>1, GoesOn, LockGoesOn DEF IInvDash, Spots, Inside
    <2> QED
      BY <1>1, <2>1, <2>2, <2>3
  <1> QED
    BY <1>1, <1>3, <1>4, <1>5, WorkerGoesOn

LEMMA TestKeeps ==
    ASSUME IInvDash, NEW t \in Workers, Test(t)
    PROVE  IInvDash'
  <1>1. at[t] = "test" /\ Quiet(t) /\ StaysWorker
    BY DEF Test, At
  <1>2. queue \in Panes /\ logTask(t) \in Seq(Panes)
    BY PaneNames, Actors DEF IInvDash, Drawing
  <1>3. Locked'
    <2>1. lock' = lock /\ created' = created /\ (Go(t, "enter") \/ Go(t, "sleep"))
      BY DEF Test, StaysWorker
    <2> QED
      BY <1>1, <2>1, LockGoesOn DEF IInvDash, Spots, Inside
  <1>4. CASE value > 0
    <2>1. Log(t, <<queue>>) /\ Go(t, "enter") /\ waitQueue' = waitQueue
      BY <1>4 DEF Test
    <2>2. <<queue>> \in Seq(Panes)
      BY <1>2
    <2>3. Waiting'
      BY <2>1, GoesOn DEF IInvDash, Spots
    <2> QED
      BY <1>1, <2>1, <2>2, <2>3, <1>3, WorkerGoesOn
  <1>5. CASE ~ (value > 0)
    <2>1. /\ Log(t, logTask(t) \o <<queue>> \o logTask(t)) /\ Go(t, "sleep")
          /\ waitQueue' = Append(waitQueue, t)
      BY <1>5 DEF Test
    <2>2. <<queue>> \in Seq(Panes)
      BY <1>2
    <2>3. logTask(t) \o <<queue>> \o logTask(t) \in Seq(Panes)
      BY <1>2, <2>2
    <2>4. Waiting'
      <3>1. waitQueue \in Seq(Workers) /\ at \in [Workers -> Spots]
        BY DEF IInvDash, Waiting
      <3>2. /\ waitQueue' \in Seq(Workers) /\ Len(waitQueue') = Len(waitQueue) + 1
            /\ Len(waitQueue) \in Nat
            /\ waitQueue'[Len(waitQueue) + 1] = t
            /\ \A i \in 1 .. Len(waitQueue) : waitQueue'[i] = waitQueue[i]
        BY <2>1, <3>1
      <3>3. at' \in [Workers -> Spots] /\ \A u \in Workers \ {t} : at'[u] = at[u]
        BY <2>1, <3>1 DEF Go, Spots
      <3>4. ASSUME NEW u \in Workers, at'[u] \in {"sleep", "asleep", "woken", "recheck"}
            PROVE  \E i \in 1 .. Len(waitQueue') : waitQueue'[i] = u
        <4>1. CASE u = t
          BY <3>2, <4>1
        <4>2. CASE u # t
          <5>1. PICK i \in 1 .. Len(waitQueue) : waitQueue[i] = u
            BY <3>3, <3>4, <4>2 DEF IInvDash, Waiting
          <5>2. i \in 1 .. Len(waitQueue') /\ waitQueue'[i] = u
            BY <3>2, <5>1
          <5> QED
            BY <5>2
        <4> QED
          BY <4>1, <4>2
      <3> QED
        BY <3>2, <3>3, <3>4 DEF Waiting
    <2> QED
      BY <1>1, <2>1, <2>3, <2>4, <1>3, WorkerGoesOn
  <1> QED
    BY <1>4, <1>5

LEMMA RecheckKeeps ==
    ASSUME IInvDash, NEW t \in Workers, Recheck(t)
    PROVE  IInvDash'
  <1>1. at[t] = "recheck" /\ Quiet(t) /\ StaysWorker
    BY DEF Recheck, At
  <1>2. queue \in Panes /\ logTask(t) \in Seq(Panes)
    BY PaneNames, Actors DEF IInvDash, Drawing
  <1>3. Locked'
    <2>1. lock' = lock /\ created' = created /\ (Go(t, "enter") \/ Go(t, "sleep"))
      BY DEF Recheck, StaysWorker
    <2> QED
      BY <1>1, <2>1, LockGoesOn DEF IInvDash, Spots, Inside
  <1>4. CASE value > 0 /\ Head(waitQueue) = t
    <2>1. /\ Log(t, logTask(t) \o <<queue, queue>>) /\ Go(t, "enter")
          /\ waitQueue' = Tail(waitQueue)
      BY <1>4 DEF Recheck
    <2>2. <<queue, queue>> \in Seq(Panes)
      BY <1>2
    <2>3. logTask(t) \o <<queue, queue>> \in Seq(Panes)
      BY <1>2, <2>2
    <2>4. Waiting'
      <3>1. waitQueue \in Seq(Workers) /\ at \in [Workers -> Spots]
        BY DEF IInvDash, Waiting
      <3>2. waitQueue # <<>>
        <4>1. PICK i \in 1 .. Len(waitQueue) : waitQueue[i] = t
          BY <1>1 DEF IInvDash, Waiting
        <4> QED
          BY <3>1, <4>1
      <3>3. /\ waitQueue' \in Seq(Workers) /\ Len(waitQueue') = Len(waitQueue) - 1
            /\ waitQueue[1] = t
            /\ Len(waitQueue) \in Nat
            /\ \A i \in 1 .. Len(waitQueue) - 1 : waitQueue'[i] = waitQueue[i + 1]
        BY <1>4, <2>1, <3>1, <3>2
      <3>4. /\ at' \in [Workers -> Spots] /\ at'[t] = "enter"
            /\ \A u \in Workers \ {t} : at'[u] = at[u]
        BY <2>1, <3>1 DEF Go, Spots
      <3>5. ASSUME NEW u \in Workers, at'[u] \in {"sleep", "asleep", "woken", "recheck"}
            PROVE  \E i \in 1 .. Len(waitQueue') : waitQueue'[i] = u
        <4>1. u # t
          BY <3>4, <3>5
        <4>2. PICK i \in 1 .. Len(waitQueue) : waitQueue[i] = u
          BY <3>4, <3>5, <4>1 DEF IInvDash, Waiting
        <4>3. i - 1 \in 1 .. Len(waitQueue) - 1 /\ (i - 1) + 1 = i
          BY <3>3, <4>1, <4>2
        <4>4. i - 1 \in 1 .. Len(waitQueue') /\ waitQueue'[i - 1] = u
          BY <3>3, <4>2, <4>3
        <4> QED
          BY <4>4
      <3> QED
        BY <3>3, <3>4, <3>5 DEF Waiting
    <2> QED
      BY <1>1, <2>1, <2>3, <2>4, <1>3, WorkerGoesOn
  <1>5. CASE ~ (value > 0 /\ Head(waitQueue) = t)
    <2>1. Log(t, logTask(t)) /\ Go(t, "sleep") /\ waitQueue' = waitQueue
      BY <1>5 DEF Recheck
    <2>2. Waiting'
      BY <1>1, <2>1, WaitsOn DEF IInvDash
    <2> QED
      BY <1>1, <1>2, <2>1, <2>2, <1>3, WorkerGoesOn
  <1> QED
    BY <1>4, <1>5

LEMMA SleepKeeps ==
    ASSUME IInvDash, NEW t \in Workers, Sleep(t)
    PROVE  IInvDash'
  <1>1. /\ at[t] = "sleep" /\ Quiet(t) /\ StaysWorker
        /\ Log(t, <<>>) /\ Go(t, "asleep") /\ waitQueue' = waitQueue
        /\ lock' = Nobody /\ created' = created
    BY DEF Sleep, At, StaysWorker
  <1>2. <<>> \in Seq(Panes)
    OBVIOUS
  <1>3. Waiting'
    BY <1>1, WaitsOn DEF IInvDash
  <1>4. Locked'
    BY <1>1, LockGoesOn DEF IInvDash, Spots, Inside
  <1> QED
    BY <1>1, <1>2, <1>3, <1>4, WorkerGoesOn

LEMMA EnterKeeps ==
    ASSUME IInvDash, NEW t \in Workers, Enter(t)
    PROVE  IInvDash'
  <1>1. /\ at[t] = "enter" /\ Quiet(t) /\ StaysWorker /\ Go(t, "up") /\ waitQueue' = waitQueue
        /\ lock' = Nobody /\ created' = created
    BY DEF Enter, At, StaysWorker
  <1> DEFINE Sent(peers) == [i \in 1 .. 3 * (THREAD_COUNT - 1) |->
                               sendTaskMessage(t, peers[((i - 1) \div 3) + 1])[((i - 1) % 3) + 1]]
  <1>2. PICK peers \in [1 .. THREAD_COUNT - 1 -> Workers \ {t}] :
          Log(t, logTask(t) \o Sent(peers) \o Times(CRITICAL_SECTION_ROUNDS, task(clampTaskId(t))) \o logTask(t))
    BY DEF Enter
  <1>3. Sent(peers) \in Seq(Panes)
    <2>1. THREAD_COUNT \in Nat \ {0} /\ 3 * (THREAD_COUNT - 1) \in Nat
      BY ProgramsAssumption
    <2>2. ASSUME NEW i \in 1 .. 3 * (THREAD_COUNT - 1)
          PROVE  sendTaskMessage(t, peers[((i - 1) \div 3) + 1])[((i - 1) % 3) + 1] \in Panes
      <3>1. PICK j, k : j = ((i - 1) \div 3) + 1 /\ k = ((i - 1) % 3) + 1
        OBVIOUS
      <3>2. j \in 1 .. THREAD_COUNT - 1 /\ k \in 1 .. 3
        BY <2>1, <3>1
      <3>3. t \in Int /\ peers[j] \in Int
        BY <3>2, Actors
      <3>4. sendTaskMessage(t, peers[j]) \in Seq(Panes) /\ Len(sendTaskMessage(t, peers[j])) = 3
        BY <3>3, PaneNames DEF IInvDash, Drawing
      <3>5. sendTaskMessage(t, peers[j])[k] \in Panes
        <4>1. PICK m : m = sendTaskMessage(t, peers[j])
          OBVIOUS
        <4>2. m \in Seq(Panes) /\ Len(m) = 3
          BY <3>4, <4>1
        <4>3. k \in 1 .. Len(m)
          BY <3>2, <4>2
        <4>4. m[k] \in Panes
          BY <4>2, <4>3, ElementOfSeq, Zenon
        <4> QED
          BY <4>1, <4>4
      <3> QED
        BY <3>1, <3>5
    <2>3. Sent(peers) \in [1 .. 3 * (THREAD_COUNT - 1) -> Panes]
      BY <2>2
    <2> QED
      BY <2>1, <2>3
  <1>4. Times(CRITICAL_SECTION_ROUNDS, task(clampTaskId(t))) \in Seq(Panes)
    <2>1. clampTaskId(t) \in 0 .. taskCount - 1
      BY Actors DEF clampTaskId, Greatest, Least, IInvDash, Drawing
    <2>2. task(clampTaskId(t)) \in Panes
      BY <2>1, PaneNames DEF IInvDash, Drawing
    <2> QED
      BY <2>2, ProgramsAssumption, TimesType
  <1>5. logTask(t) \in Seq(Panes)
    BY PaneNames, Actors DEF IInvDash, Drawing
  <1> HIDE DEF Sent
  <1>6. logTask(t) \o Sent(peers) \o Times(CRITICAL_SECTION_ROUNDS, task(clampTaskId(t))) \o logTask(t)
          \in Seq(Panes)
    BY <1>3, <1>4, <1>5
  <1>7. Waiting'
    BY <1>1, GoesOn DEF IInvDash, Spots
  <1>8. Locked'
    BY <1>1, LockGoesOn DEF IInvDash, Spots, Inside
  <1> QED
    BY <1>1, <1>2, <1>6, <1>7, <1>8, WorkerGoesOn

\* Waiting and waking leave the dashboard alone.
LEMMA RaiseKeeps ==
    ASSUME IInvDash, NEW t \in Workers, Raise(t)
    PROVE  IInvDash'
  <1> DEFINE lines == <<queue>> \o (IF waitQueue = <<>> THEN <<queue>>
                                    ELSE sendTaskMessage(t, Head(waitQueue)) \o <<queue>>)
  <1>1. /\ at[t] = "raise" /\ Quiet(t) /\ StaysWorker /\ Go(t, "broadcast")
        /\ waitQueue' = waitQueue /\ Log(t, lines)
        /\ lock' = lock /\ created' = created
    BY DEF Raise, At, StaysWorker
  <1>2. queue \in Panes
    BY PaneNames DEF IInvDash, Drawing
  <1>3. <<queue>> \in Seq(Panes)
    BY <1>2
  <1>4. waitQueue # <<>> => sendTaskMessage(t, Head(waitQueue)) \in Seq(Panes)
    <2>1. waitQueue # <<>> => Head(waitQueue) \in Workers
      BY DEF IInvDash, Waiting
    <2> QED
      BY <2>1, PaneNames, Actors DEF IInvDash, Drawing
  <1>5. lines \in Seq(Panes)
    <2>1. CASE waitQueue = <<>>
      BY <1>3, <2>1
    <2>2. CASE waitQueue # <<>>
      BY <1>3, <1>4, <2>2
    <2> QED
      BY <2>1, <2>2
  <1>6. Waiting'
    BY <1>1, GoesOn DEF IInvDash, Spots
  <1>7. Locked'
    BY <1>1, LockGoesOn DEF IInvDash, Spots, Inside
  <1> HIDE DEF lines
  <1> QED
    BY <1>1, <1>5, <1>6, <1>7, WorkerGoesOn

LEMMA BroadcastKeeps ==
    ASSUME IInvDash, NEW t \in Workers, Broadcast(t)
    PROVE  IInvDash'
  <1> DEFINE lines == sendTaskMessage(t, next(t)) \o logTask(t)
  <1>1. /\ at[t] = "broadcast" /\ Quiet(t) /\ StaysWorker /\ waitQueue' = waitQueue /\ Log(t, lines)
        /\ at' = [u \in Workers |-> IF u = t THEN "done"
                     ELSE IF waitQueue # <<>> /\ at[u] = "asleep" THEN "woken" ELSE at[u]]
        /\ lock' = Nobody /\ created' = created
    BY DEF Broadcast, At, StaysWorker
  <1>2. t \in Int /\ next(t) \in Int
    BY ProgramsAssumption, Actors DEF next
  <1>3. logTask(t) \in Seq(Panes) /\ sendTaskMessage(t, next(t)) \in Seq(Panes)
    BY <1>2, PaneNames DEF IInvDash, Drawing
  <1>4. lines \in Seq(Panes)
    BY <1>3
  <1>5. Waiting'
    BY <1>1 DEF IInvDash, Waiting, Spots
  <1>6. Locked'
    BY <1>1, Actors DEF IInvDash, Waiting, Locked, Spots, Inside
  <1> HIDE DEF lines
  <1> QED
    BY <1>1, <1>4, <1>5, <1>6, WorkerGoesOn

LEMMA SpuriousKeeps ==
    ASSUME IInvDash, NEW t \in Workers, SpuriousWakeup(t)
    PROVE  IInvDash'
  <1>1. /\ UNCHANGED dashVars /\ UNCHANGED <<program, main, created, gaveUp, lock, waitQueue>>
        /\ at[t] = "asleep" /\ Go(t, "woken")
    BY DEF SpuriousWakeup, StaysWorker, semaphoreVars
  <1>2. Waiting'
    BY <1>1, WaitsOn DEF IInvDash
  <1>3. /\ UNCHANGED <<terminal, taskCount, cursesReady, interactive, panes>>
        /\ UNCHANGED <<renderMutex, toLog, drawing, screen>>
    BY <1>1 DEF dashVars
  <1>4. Drawing' /\ Shown' /\ LaidOut'
    BY <1>1, <1>3, SamePlaces DEF IInvDash, Drawing, Shown, LaidOut
  <1>5. MainAlone' /\ Asking'
    BY <1>1, <1>3 DEF IInvDash, MainAlone, Asking, Go, Waiting
  <1>6. Locked'
    BY <1>1, LockGoesOn DEF IInvDash, Spots, Inside
  <1> QED
    BY <1>1, <1>2, <1>3, <1>4, <1>5, <1>6 DEF IInvDash

LEMMA WorkersKeep ==
    ASSUME IInvDash, NEW t \in Workers, WorkerStep(t) \/ SpuriousWakeup(t)
    PROVE  IInvDash'
  <1>1. t \in Threads
    BY Actors
  <1> QED
    BY <1>1, LineDrawn, ReportKeeps, LockKeeps, TestKeeps, RecheckKeeps, SleepKeeps, EnterKeeps,
       RaiseKeeps, BroadcastKeeps, SpuriousKeeps DEF WorkerStep

-----------------------------------------------------------------------------
(* main and the user. *)

LEMMA ConstructKeeps == ASSUME IInvDash, Construct PROVE IInvDash'
  <1>1. /\ UNCHANGED <<terminal, taskCount, interactive, panes, renderMutex, toLog, drawing, screen>>
        /\ UNCHANGED <<program, at, lock, waitQueue, created, gaveUp>>
        /\ main = "construct" /\ main' = "layout"
        /\ cursesReady' = (terminal.wanted /\ terminal.tty)
    BY DEF Construct, InitializeCurses, StaysMain, semaphoreVars
  <1>2. cursesReady' \in BOOLEAN
    BY <1>1 DEF IInvDash, Drawing, Terms
  <1>3. Drawing' /\ Shown' /\ LaidOut'
    BY <1>1, <1>2, SamePlaces DEF IInvDash, Drawing, Shown, LaidOut
  <1>4. Waiting' /\ Locked' /\ MainAlone' /\ Asking'
    BY <1>1 DEF IInvDash, Waiting, Locked, MainAlone, Asking
  <1> QED
    BY <1>1, <1>3, <1>4 DEF IInvDash

LEMMA LayoutKeeps == ASSUME IInvDash, Layout PROVE IInvDash'
  <1>1. /\ UNCHANGED <<program, at, lock, waitQueue, created, gaveUp>>
        /\ main = "layout" /\ main' = "begin" /\ buildLayout(Main)
    BY DEF Layout, StaysMain, semaphoreVars
  <1>2. /\ Drawing' /\ Shown'
        /\ UNCHANGED <<terminal, taskCount, renderMutex>>
        /\ \A u \in Threads \ {Main} : toLog'[u] = toLog[u]
        /\ ~interactive' => ~cursesReady'
        /\ interactive' => cursesReady' /\ Fits /\ panes' = layout
    BY <1>1, LayoutDraws DEF IInvDash, LaidOut
  <1>3. LaidOut'
    BY <1>1, <1>2, SamePlaces DEF LaidOut
  <1>4. Waiting' /\ Locked' /\ Asking'
    BY <1>1, SameWaiting DEF IInvDash, Locked, Asking
  <1>5. MainAlone'
    <2>1. \A u \in Workers : toLog'[u] = toLog[u]
      BY <1>2, Actors
    <2> QED
      BY <1>1, <2>1 DEF IInvDash, MainAlone
  <1> QED
    BY <1>1, <1>2, <1>3, <1>4, <1>5 DEF IInvDash

\* Where main stays between its first and its last steps.
Middle == {"begin", "command", "create", "join", "finish", "hold", "destroy", "key", "typed"}

\* main goes on, with these lines to write.
LEMMA MainGoesOn ==
    ASSUME IInvDash, main \in Middle, NEW there \in Middle \ {"key", "typed"}, main' = there,
           Drawing', Shown',
           UNCHANGED <<terminal, taskCount, cursesReady, interactive, panes>>,
           \A u \in Threads \ {Main} : toLog'[u] = toLog[u],
           UNCHANGED <<created, program, at, lock, waitQueue, gaveUp>>,
           there = "command" => program = "commands",
           there = "hold" => interactive /\ toLog'[Main] = <<system, console>>,
           there = "destroy" \/ main # "destroy",
           there \notin {"create", "join"} =>
              main \notin {"create", "join"} \/ \A t \in Workers : at[t] = "done" /\ Quiet(t)
    PROVE  IInvDash'
  <1>1. layout' = layout /\ (Fits' <=> Fits)
    BY SamePlaces
  <1>2. LaidOut'
    BY <1>1 DEF IInvDash, LaidOut, Middle
  <1>3. Waiting' /\ Locked'
    BY SameWaiting DEF IInvDash, Locked
  <1>4. MainAlone'
    <2>1. \A u \in Workers : toLog'[u] = toLog[u]
      BY Actors
    <2> QED
      BY <2>1 DEF IInvDash, MainAlone, Middle, Quiet
  <1>5. Asking'
    <2>1. <<system, console>> # <<>>
      OBVIOUS
    <2> QED
      BY <2>1 DEF IInvDash, Asking, Middle
  <1> QED
    BY <1>2, <1>3, <1>4, <1>5 DEF IInvDash, Middle

\* main goes on by Goto.
LEMMA MainLogs ==
    ASSUME IInvDash, main \in Middle \ {"destroy"}, NEW there \in Middle \ {"key", "typed"},
           NEW lines \in Seq(Panes), Goto(there, lines), Quiet(Main),
           StaysMain, UNCHANGED <<created, gaveUp>>,
           there = "command" => program = "commands",
           there = "hold" => interactive /\ lines = <<system, console>>,
           there \notin {"create", "join"} =>
              main \notin {"create", "join"} \/ \A t \in Workers : at[t] = "done" /\ Quiet(t)
    PROVE  IInvDash'
  <1>1. main' = there /\ Log(Main, lines)
    BY DEF Goto
  <1>2. /\ Drawing' /\ Shown'
        /\ UNCHANGED <<terminal, taskCount, cursesReady, interactive, panes>>
        /\ \A u \in Threads \ {Main} : toLog'[u] = toLog[u]
        /\ toLog'[Main] = lines
    BY <1>1, LogDraws, Actors DEF IInvDash
  <1>3. UNCHANGED <<created, program, at, lock, waitQueue, gaveUp>>
    BY DEF StaysMain, semaphoreVars
  <1> QED
    BY <1>1, <1>2, <1>3, MainGoesOn

\* main goes on with the user's answer.
LEMMA MainAnswered ==
    ASSUME IInvDash, main \in {"key", "typed"}, NEW there \in {"command", "finish", "destroy"},
           NEW lines \in Seq(Panes), NEW shown \in {screen, refreshConsole},
           Answered(Main, shown, lines), main' = there,
           StaysMain, UNCHANGED <<created, gaveUp>>,
           there = "command" => program = "commands"
    PROVE  IInvDash'
  <1>1. renderMutex = Main /\ Quiet(Main)
    BY DEF IInvDash, MainAlone, Quiet
  <1>2. /\ Drawing' /\ Shown'
        /\ UNCHANGED <<terminal, taskCount, cursesReady, interactive, panes>>
        /\ \A u \in Threads \ {Main} : toLog'[u] = toLog[u]
    BY <1>1, AnswerDraws DEF IInvDash
  <1>3. UNCHANGED <<created, program, at, lock, waitQueue, gaveUp>>
    BY DEF StaysMain, semaphoreVars
  <1>4. main \in Middle /\ there \in Middle \ {"key", "typed"} /\ main \notin {"create", "join", "destroy"}
        /\ there # "hold"
    BY DEF Middle
  <1> QED
    BY <1>2, <1>3, <1>4, MainGoesOn

\* main waits for input with the mutex held, and with the question on the console.
LEMMA MainAwaits ==
    ASSUME IInvDash, main \in {"hold", "command"}, Quiet(Main), interactive,
           NEW there \in {"key", "typed"}, main' = there,
           NEW shown, shown = IF there = "key" THEN screen ELSE promptLine, Await(Main, shown),
           there = IF main = "hold" THEN "key" ELSE "typed", there = "typed" => program = "commands",
           StaysMain, UNCHANGED <<created, gaveUp>>
    PROVE  IInvDash'
  <1>1. /\ Drawing' /\ Shown' /\ renderMutex' = Main
        /\ UNCHANGED <<terminal, taskCount, cursesReady, interactive, panes, toLog>>
        /\ screen' = shown
        /\ console \in DOMAIN panes => promptLine[console] = <<prompt>>
    BY AwaitDraws DEF IInvDash
  <1>2. UNCHANGED <<created, program, at, lock, waitQueue, gaveUp>>
    BY DEF StaysMain, semaphoreVars
  <1>3. LaidOut'
    BY <1>1, SamePlaces DEF IInvDash, LaidOut
  <1>4. Waiting' /\ Locked'
    BY <1>2, SameWaiting DEF IInvDash, Locked
  <1>5. MainAlone'
    BY <1>1, <1>2 DEF IInvDash, MainAlone, Quiet
  <1>6. console \in DOMAIN panes
    <2>1. panes = layout
      BY DEF IInvDash, LaidOut
    <2> QED
      BY <2>1 DEF layout, Panes
  <1>7. Asking'
    BY <1>1, <1>2, <1>6 DEF IInvDash, Asking, Quiet
  <1> QED
    BY <1>1, <1>2, <1>3, <1>4, <1>5, <1>7 DEF IInvDash

\* What main logs names panes of the dashboard.
LEMMA LinesOfMain ==
    ASSUME IInvDash
    PROVE  /\ <<>> \in Seq(Panes) /\ <<system>> \in Seq(Panes) /\ <<console>> \in Seq(Panes)
           /\ <<system, system>> \in Seq(Panes) /\ <<system, console>> \in Seq(Panes)
           /\ program = "commands" => \A wallOk \in BOOLEAN : measurement(wallOk) \in Seq(Panes)
  <1>1. system \in Panes /\ console \in Panes
    BY PaneNames DEF IInvDash, Drawing
  <1>2. program = "commands" => \A wallOk \in BOOLEAN : measurement(wallOk) \in Seq(Panes)
    BY MeasurementLines DEF IInvDash, Drawing
  <1> QED
    BY <1>1, <1>2

LEMMA MainKeeps ==
    ASSUME IInvDash, MainStep
    PROVE  IInvDash'
  <1>1. CASE WriteLine(Main) /\ UNCHANGED progVars
    BY <1>1, LineDrawn, Actors
  <1>2. CASE Begin
    <2>1. /\ main = "begin" /\ Quiet(Main) /\ StaysMain /\ UNCHANGED <<created, gaveUp>>
          /\ main \in Middle \ {"destroy"} /\ main \notin {"create", "join"}
      BY <1>2 DEF Begin, Middle
    <2>2. CASE program = "threads" /\ Goto("create", <<system, system>>)
      BY <2>1, <2>2, MainLogs, LinesOfMain DEF Middle
    <2>3. ASSUME NEW wallOk \in BOOLEAN, program = "commands", Goto("command", measurement(wallOk))
          PROVE  IInvDash'
      BY <2>1, <2>3, MainLogs, LinesOfMain DEF Middle
    <2>4. CASE program = "plain" /\ Goto("finish", <<>>)
      BY <2>1, <2>4, MainLogs, LinesOfMain DEF Middle
    <2> QED
      BY <1>2, <2>2, <2>3, <2>4 DEF Begin
  <1>3. CASE CreateWorker
    <2>1. /\ UNCHANGED dashVars /\ UNCHANGED <<program, main, gaveUp, lock, waitQueue>>
          /\ main = "create" /\ created' = created + 1
          /\ at' = [at EXCEPT ![created] = "start"]
      BY <1>3 DEF CreateWorker, semaphoreVars
    <2>2. /\ UNCHANGED <<terminal, taskCount, cursesReady, interactive, panes>>
          /\ UNCHANGED <<renderMutex, toLog, drawing, screen>>
      BY <2>1 DEF dashVars
    <2>3. Drawing' /\ Shown' /\ LaidOut'
      BY <2>1, <2>2, SamePlaces DEF IInvDash, Drawing, Shown, LaidOut
    <2>4. Waiting'
      BY <2>1 DEF IInvDash, Waiting, Spots
    <2>5. MainAlone' /\ Asking' /\ Locked'
      <3>1. created \in Workers /\ at[created] = "unborn"
        BY <1>3, ProgramsAssumption DEF CreateWorker, IInvDash, Locked, Workers
      <3>2. MainAlone' /\ Asking'
        BY <2>1, <2>2 DEF IInvDash, MainAlone, Asking
      <3>3. Locked'
        BY <2>1, <3>1, Actors DEF IInvDash, Waiting, Locked, Inside, Spots
      <3> QED
        BY <3>2, <3>3
    <2> QED
      BY <2>1, <2>2, <2>3, <2>4, <2>5 DEF IInvDash
  <1>4. CASE GiveUp
    <2>1. /\ UNCHANGED dashVars /\ UNCHANGED <<program, at, created, lock, waitQueue>>
          /\ main = "create" /\ main' = "destroy" /\ gaveUp' = TRUE
      BY <1>4 DEF GiveUp, StaysMain, semaphoreVars
    <2>2. /\ UNCHANGED <<terminal, taskCount, cursesReady, interactive, panes>>
          /\ UNCHANGED <<renderMutex, toLog, drawing, screen>>
      BY <2>1 DEF dashVars
    <2>3. Drawing' /\ Shown' /\ LaidOut'
      BY <2>1, <2>2, SamePlaces DEF IInvDash, Drawing, Shown, LaidOut
    <2>4. Waiting' /\ Locked' /\ MainAlone' /\ Asking'
      BY <2>1, SameWaiting DEF IInvDash, Locked, MainAlone, Asking
    <2> QED
      BY <2>1, <2>2, <2>3, <2>4 DEF IInvDash
  <1>5. CASE Wait
    <2>1. /\ main = "create" /\ Quiet(Main) /\ StaysMain /\ UNCHANGED <<created, gaveUp>>
          /\ Goto("join", <<system>>)
      BY <1>5 DEF Wait
    <2> QED
      BY <2>1, MainLogs, LinesOfMain DEF Middle
  <1>6. CASE Join
    <2>1. /\ main = "join" /\ Quiet(Main) /\ StaysMain /\ UNCHANGED <<created, gaveUp>>
          /\ \A t \in Workers : at[t] = "done" /\ Quiet(t)
          /\ Goto("finish", <<>>)
      BY <1>6 DEF Join
    <2> QED
      BY <2>1, MainLogs, LinesOfMain DEF Middle
  <1>7. CASE finish
    <2>1. /\ main = "finish" /\ Quiet(Main) /\ StaysMain /\ UNCHANGED <<created, gaveUp>>
          /\ (interactive /\ Goto("hold", <<system, console>>)) \/ Goto("destroy", <<system>>)
      BY <1>7 DEF finish
    <2>2. main \in Middle \ {"destroy"} /\ main \notin {"create", "join"}
      BY <2>1 DEF Middle
    <2>3. CASE interactive /\ Goto("hold", <<system, console>>)
      BY <2>1, <2>2, <2>3, MainLogs, LinesOfMain DEF Middle
    <2>4. CASE Goto("destroy", <<system>>)
      BY <2>1, <2>2, <2>4, MainLogs, LinesOfMain DEF Middle
    <2> QED
      BY <2>1, <2>3, <2>4
  <1>8. CASE Hold
    <2>1. /\ main = "hold" /\ Quiet(Main) /\ StaysMain /\ UNCHANGED <<created, gaveUp>>
          /\ Await(Main, screen) /\ main' = "key" /\ interactive
      BY <1>8 DEF Hold, IInvDash, Asking
    <2> QED
      BY <2>1, MainAwaits
  <1>9. CASE promptInput
    <2>1. /\ main = "command" /\ Quiet(Main) /\ StaysMain /\ UNCHANGED <<created, gaveUp>>
          /\ (interactive /\ Await(Main, promptLine) /\ main' = "typed") \/ Goto("finish", <<>>)
          /\ main \in Middle \ {"destroy"} /\ main \notin {"create", "join"} /\ program = "commands"
      BY <1>9 DEF promptInput, Middle, IInvDash
    <2>2. CASE interactive /\ Await(Main, promptLine) /\ main' = "typed"
      BY <2>1, <2>2, MainAwaits
    <2>3. CASE Goto("finish", <<>>)
      BY <2>1, <2>3, MainLogs, LinesOfMain DEF Middle
    <2> QED
      BY <2>1, <2>2, <2>3
  <1>10. CASE Destroy
    <2>1. /\ main = "destroy" /\ main' = "exit" /\ toLog[Main] = <<>> /\ cursesReady' = FALSE
          /\ panes' = [p \in {} |-> {}] /\ screen' = [p \in {} |-> <<>>]
          /\ UNCHANGED <<terminal, taskCount, interactive, renderMutex, toLog, drawing>>
          /\ UNCHANGED <<program, at, lock, waitQueue, created, gaveUp>>
      BY <1>10 DEF Destroy, DestroyPanes, StaysMain, semaphoreVars, Quiet
    <2>2. Drawing' /\ LaidOut'
      BY <2>1, SamePlaces DEF IInvDash, Drawing, LaidOut
    <2>3. Shown'
      BY <2>1 DEF Shown
    <2>4. Waiting' /\ Locked' /\ MainAlone' /\ Asking'
      BY <2>1, SameWaiting DEF IInvDash, Locked, MainAlone, Asking
    <2> QED
      BY <2>1, <2>2, <2>3, <2>4 DEF IInvDash
  <1>11. CASE Exit
    <2>1. /\ main = "exit" /\ main' = "ended" /\ UNCHANGED dashVars
          /\ UNCHANGED <<program, at, lock, waitQueue, created, gaveUp>>
      BY <1>11 DEF Exit, StaysMain, semaphoreVars
    <2>2. /\ UNCHANGED <<terminal, taskCount, cursesReady, interactive, panes>>
          /\ UNCHANGED <<renderMutex, toLog, drawing, screen>>
      BY <2>1 DEF dashVars
    <2>3. Drawing' /\ Shown' /\ LaidOut'
      BY <2>1, <2>2, SamePlaces DEF IInvDash, Drawing, Shown, LaidOut
    <2>4. Waiting' /\ Locked' /\ MainAlone' /\ Asking'
      BY <2>1, <2>2, SameWaiting DEF IInvDash, Locked, MainAlone, Asking
    <2> QED
      BY <2>1, <2>2, <2>3, <2>4 DEF IInvDash
  <1> QED
    BY <1>1, <1>2, <1>3, <1>4, <1>5, <1>6, <1>7, <1>8, <1>9, <1>10, <1>11, ConstructKeeps, LayoutKeeps
       DEF MainStep

\* A key, a line of input and a new terminal size.
LEMMA UserKeeps ==
    ASSUME IInvDash, User
    PROVE  IInvDash'
  <1>1. CASE LeaveKey
    <2>1. /\ main = "key" /\ Answered(Main, screen, <<>>) /\ main' = "destroy" /\ StaysMain
          /\ UNCHANGED <<created, gaveUp>>
      BY <1>1 DEF LeaveKey
    <2> QED
      BY <2>1, MainAnswered, LinesOfMain
  <1>2. CASE EmptyCommand
    <2>1. /\ main = "typed" /\ Answered(Main, refreshConsole, <<>>) /\ main' = "command" /\ StaysMain
          /\ UNCHANGED <<created, gaveUp>> /\ program = "commands"
      BY <1>2 DEF EmptyCommand, IInvDash
    <2> QED
      BY <2>1, MainAnswered, LinesOfMain
  <1>3. CASE QuitCommand
    <2>1. /\ main = "typed" /\ Answered(Main, refreshConsole, <<>>) /\ main' = "finish" /\ StaysMain
          /\ UNCHANGED <<created, gaveUp>>
      BY <1>3 DEF QuitCommand
    <2> QED
      BY <2>1, MainAnswered, LinesOfMain
  <1>4. CASE RunAgain
    <2>1. /\ main = "typed" /\ main' = "command" /\ StaysMain
          /\ UNCHANGED <<created, gaveUp>> /\ program = "commands"
      BY <1>4 DEF RunAgain, IInvDash
    <2>2. PICK wallOk \in BOOLEAN : Answered(Main, refreshConsole, measurement(wallOk))
      BY <1>4 DEF RunAgain
    <2> QED
      BY <2>1, <2>2, MainAnswered, LinesOfMain
  <1>5. CASE UnknownCommand
    <2>1. /\ main = "typed" /\ Answered(Main, refreshConsole, <<console>>) /\ main' = "command" /\ StaysMain
          /\ UNCHANGED <<created, gaveUp>> /\ program = "commands"
      BY <1>5 DEF UnknownCommand, IInvDash
    <2> QED
      BY <2>1, MainAnswered, LinesOfMain
  <1> QED
    BY <1>1, <1>2, <1>3, <1>4, <1>5 DEF User

\* A step that changes nothing.
LEMMA StillKeeps ==
    ASSUME IInvDash, UNCHANGED allVars
    PROVE  IInvDash'
  <1>1. /\ UNCHANGED <<terminal, taskCount, cursesReady, interactive, panes>>
        /\ UNCHANGED <<renderMutex, toLog, drawing, screen>>
        /\ UNCHANGED <<program, main, created, gaveUp, at, lock, waitQueue>>
    BY DEF allVars, dashVars, progVars
  <1>2. Drawing' /\ Shown' /\ LaidOut'
    BY <1>1, SamePlaces DEF IInvDash, Drawing, Shown, LaidOut
  <1>3. Waiting' /\ Locked' /\ MainAlone' /\ Asking'
    BY <1>1, SameWaiting DEF IInvDash, Locked, MainAlone, Asking
  <1> QED
    BY <1>1, <1>2, <1>3 DEF IInvDash

\* The inductive invariant, for every number of threads and tasks and every terminal.
THEOREM DashInvariance == ProgSpec => []IInvDash
  <1>1. ProgInit => IInvDash
    BY DashInitially
  <1>2. IInvDash /\ [ProgNext]_allVars => IInvDash'
    BY MainKeeps, UserKeeps, WorkersKeep, StillKeeps DEF ProgNext, Terminated
  <1> QED
    BY <1>1, <1>2, PTL DEF ProgSpec

\* While curses is up the panes tile the terminal: they are inside it, apart, and leave
\* no cell uncovered but those of the task panes that the last row lacks.
THEOREM DashTiles == ProgSpec => []PanesTile
  <1>1. IInvDash => PanesTile
    <2> SUFFICES ASSUME IInvDash PROVE PanesTile
      OBVIOUS
    <2>1. ASSUME cursesReady, interactive
          PROVE  taskCount \in Nat \ {0} /\ terminal \in Terms /\ Fits /\ panes = layout
      BY <2>1 DEF IInvDash, Drawing, LaidOut
    <2> QED
      BY <2>1, LayoutTiles, Zenon DEF IInvDash, LaidOut, PanesTile
  <1> QED
    BY <1>1, DashInvariance, PTL

\* Window writes are serialized: a pane that no thread is drawing shows one thing whole,
\* and while main waits for input the console shows what it waits for, for any number of
\* workers and permits, inside the semaphore's lock or outside, before and after main
\* gives up.
THEOREM DashSerializes == ProgSpec => []WritesSerialized
  <1>1. IInvDash => WritesSerialized
    <2> SUFFICES ASSUME IInvDash PROVE WritesSerialized
      OBVIOUS
    <2>1. main = "key" => toLog[Main] = <<>>
      BY DEF IInvDash, MainAlone
    <2> QED
      BY <2>1 DEF IInvDash, Shown, Asking, WritesSerialized
  <1> QED
    BY <1>1, DashInvariance, PTL

-----------------------------------------------------------------------------
(* Lab_20 *)

\* Before ends at the first b: some length does, and only one.
LEMMA Cut ==
    ASSUME NEW B, NEW s \in Seq(B), NEW b
    PROVE  \E n \in 0 .. Len(s) :
             /\ \A i \in 1 .. n : s[i] # b
             /\ n < Len(s) => s[n + 1] = b
  <1> DEFINE T == {n \in 0 .. Len(s) : n < Len(s) => s[n + 1] = b}
  <1>1. Len(s) \in Nat
    OBVIOUS
  <1>2. T \subseteq Nat /\ Len(s) \in T
    BY <1>1
  <1>3. PICK n \in T : \A m \in T : n <= m
    <2> HIDE DEF T
    <2> QED
      BY <1>2, LeastElement
  <1>4. ASSUME NEW i \in 1 .. n PROVE s[i] # b
    <2>1. i - 1 \in 0 .. Len(s) /\ ~ (n <= i - 1) /\ (i - 1) + 1 = i
      BY <1>1, <1>3
    <2>2. i - 1 \notin T
      <3> HIDE DEF T
      <3> QED
        BY <2>1, <1>3
    <2> QED
      BY <2>1, <2>2
  <1> QED
    BY <1>3, <1>4

\* Before(s, b) is the part of s of the length that Cut finds.
LEMMA BeforeIs ==
    ASSUME NEW B, NEW s \in Seq(B), NEW b, NEW n \in 0 .. Len(s),
           \A i \in 1 .. n : s[i] # b,
           n < Len(s) => s[n + 1] = b
    PROVE  Before(s, b) = SubSeq(s, 1, n)
  <1> DEFINE First(m) == /\ b \notin ToSet(SubSeq(s, 1, m))
                         /\ m < Len(s) => s[m + 1] = b
  <1>1. Len(s) \in Nat
    OBVIOUS
  <1>2. ASSUME NEW m \in 0 .. Len(s)
        PROVE  b \notin ToSet(SubSeq(s, 1, m)) <=> \A i \in 1 .. m : s[i] # b
    <2>1. /\ Len(SubSeq(s, 1, m)) = m
          /\ \A i \in 1 .. m : SubSeq(s, 1, m)[i] = s[i]
          /\ DOMAIN SubSeq(s, 1, m) = 1 .. m
      BY <1>1
    <2> QED
      BY <2>1 DEF ToSet
  <1>3. First(n)
    BY <1>2
  <1>4. ASSUME NEW m \in 0 .. Len(s), First(m) PROVE m = n
    <2>1. \A i \in 1 .. m : s[i] # b
      BY <1>2, <1>4
    <2>2. ~ (n < m)
      <3>1. n < m => n + 1 \in 1 .. m /\ n < Len(s)
        BY <1>1
      <3> QED
        BY <2>1, <3>1
    <2>3. ~ (m < n)
      <3>1. m < n => m + 1 \in 1 .. n /\ m < Len(s)
        BY <1>1
      <3> QED
        BY <1>4, <3>1
    <2> QED
      BY <1>1, <2>2, <2>3
  <1>5. (CHOOSE m \in 0 .. Len(s) : First(m)) = n
    <2> HIDE DEF First
    <2> QED
      BY <1>3, <1>4
  <1> QED
    BY <1>5 DEF Before

\* It holds no b.
LEMMA BeforeType ==
    ASSUME NEW B, NEW s \in Seq(B), NEW b
    PROVE  Before(s, b) \in Seq(B \ {b})
  <1>1. PICK n \in 0 .. Len(s) : /\ \A i \in 1 .. n : s[i] # b
                                 /\ n < Len(s) => s[n + 1] = b
    BY Cut
  <1>2. Before(s, b) = SubSeq(s, 1, n)
    BY <1>1, BeforeIs
  <1>3. /\ SubSeq(s, 1, n) \in Seq(B) /\ Len(SubSeq(s, 1, n)) = n
        /\ \A i \in 1 .. n : SubSeq(s, 1, n)[i] = s[i] /\ s[i] \in B
    OBVIOUS
  <1>4. \A i \in 1 .. Len(SubSeq(s, 1, n)) : SubSeq(s, 1, n)[i] \in B \ {b}
    BY <1>1, <1>3
  <1>5. SubSeq(s, 1, n) \in Seq(B \ {b})
    BY <1>3, <1>4
  <1> QED
    BY <1>2, <1>5

\* The zero-filled block ends the payload where its own first zero does.
LEMMA TrimmedBlock ==
    ASSUME NEW payload \in Seq(Bytes), Len(payload) < kBlockSize
    PROVE  /\ Block(payload) \in Seq(Bytes)
           /\ Len(Block(payload)) = kBlockSize
           /\ trimBlock(Block(payload)) = Before(payload, Nul)
  <1>1. Len(payload) \in Nat /\ kBlockSize \in Nat \ {0} /\ Nul \in Bytes
    BY DevicesAssumption
  <1>2. \A i \in 1 .. kBlockSize : (IF i <= Len(payload) THEN payload[i] ELSE Nul) \in Bytes
    BY <1>1
  <1>3. Block(payload) \in Seq(Bytes) /\ Len(Block(payload)) = kBlockSize
    BY <1>1, <1>2 DEF Block
  <1>4. \A i \in 1 .. kBlockSize :
          Block(payload)[i] = IF i <= Len(payload) THEN payload[i] ELSE Nul
    BY DEF Block
  <1>5. PICK n \in 0 .. Len(payload) : /\ \A i \in 1 .. n : payload[i] # Nul
                                       /\ n < Len(payload) => payload[n + 1] = Nul
    BY Cut
  <1>6. /\ n \in 0 .. Len(Block(payload))
        /\ \A i \in 1 .. n : Block(payload)[i] # Nul
        /\ n < Len(Block(payload)) => Block(payload)[n + 1] = Nul
    <2>1. /\ n \in Nat /\ n <= Len(payload) /\ n < kBlockSize /\ n + 1 \in 1 .. kBlockSize
          /\ \A i \in 1 .. n : i \in 1 .. kBlockSize /\ i <= Len(payload)
      BY <1>1
    <2>2. Block(payload)[n + 1] = Nul
      <3>1. CASE n < Len(payload)
        BY <3>1, <2>1, <1>4, <1>5, <1>1
      <3>2. CASE n = Len(payload)
        BY <3>2, <2>1, <1>4, <1>1
      <3> QED
        BY <3>1, <3>2, <2>1, <1>1
    <2> QED
      BY <2>1, <2>2, <1>3, <1>4, <1>5
  <1>7. Before(Block(payload), Nul) = SubSeq(Block(payload), 1, n)
    BY <1>3, <1>6, BeforeIs
  <1>8. Before(payload, Nul) = SubSeq(payload, 1, n)
    BY <1>5, BeforeIs
  <1>9. SubSeq(Block(payload), 1, n) = SubSeq(payload, 1, n)
    <2>1. n \in Nat /\ n <= Len(payload) /\ n <= Len(Block(payload))
      BY <1>1, <1>3
    <2>2. \A i \in 1 .. n : Block(payload)[i] = payload[i]
      BY <2>1, <1>1, <1>4
    <2> HIDE DEF Block
    <2> QED
      BY <2>1, <2>2, <1>1, <1>3
  <1> QED
    BY <1>3, <1>7, <1>8, <1>9 DEF trimBlock

\* Each block of the device is that block.
LEMMA Rest ==
    ASSUME NEW k \in Nat \ {0}, NEW q \in 0 .. 2, NEW r \in 0 .. k - 1
    PROVE  (q * k + r) % k = r
  <1>1. CASE q = 0
    BY <1>1
  <1>2. CASE q = 1
    BY <1>2
  <1>3. CASE q = 2
    BY <1>3
  <1> QED
    BY <1>1, <1>2, <1>3

\* The image on disk is bytes, of the length of its blocks.
LEMMA ImageType ==
    ASSUME NEW payload \in Seq(Bytes), Len(payload) < kBlockSize
    PROVE  /\ BlockImage(payload) \in Seq(Bytes)
           /\ Len(BlockImage(payload)) = kBlockCopies * kBlockSize
  <1>1. kBlockSize \in Nat \ {0} /\ kBlockCopies * kBlockSize \in Nat
    BY DevicesAssumption DEF kBlockCopies
  <1>2. \A i \in 1 .. kBlockCopies * kBlockSize :
          ((i - 1) % kBlockSize) + 1 \in 1 .. kBlockSize
    BY <1>1
  <1>3. \A i \in 1 .. kBlockSize : Block(payload)[i] \in Bytes
    BY TrimmedBlock
  <1>4. \A i \in 1 .. kBlockCopies * kBlockSize :
          Block(payload)[((i - 1) % kBlockSize) + 1] \in Bytes
    BY <1>2, <1>3, Zenon
  <1> QED
    BY <1>1, <1>4 DEF BlockImage

\* Each block of the image is the payload's block.
LEMMA Blocks ==
    ASSUME NEW payload \in Seq(Bytes), Len(payload) < kBlockSize, NEW n \in 1 .. kBlockCopies
    PROVE  NthBlock(BlockImage(payload), n) = Block(payload)
  <1> DEFINE k == kBlockSize
             q == n - 1
  <1>1. k \in Nat \ {0} /\ q \in 0 .. 2
    BY DevicesAssumption DEF kBlockCopies
  <1>2. q * k \in Nat /\ n * k = q * k + k /\ n * k <= kBlockCopies * k /\ kBlockCopies * k \in Nat
    <2>1. CASE n = 1
      BY <2>1, <1>1 DEF kBlockCopies
    <2>2. CASE n = 2
      BY <2>2, <1>1 DEF kBlockCopies
    <2>3. CASE n = 3
      BY <2>3, <1>1 DEF kBlockCopies
    <2> QED
      BY <2>1, <2>2, <2>3 DEF kBlockCopies
  <1>3. ASSUME NEW i \in 1 .. k
        PROVE  BlockImage(payload)[q * k + i] = Block(payload)[i]
    <2>1. i - 1 \in 0 .. k - 1 /\ q * k + i \in 1 .. kBlockCopies * k
      BY <1>1, <1>2
    <2>2. (q * k + (i - 1)) % k = i - 1
      <3> HIDE DEF q, k
      <3> QED
        BY <1>1, <2>1, Rest
    <2>3. ((q * k + i) - 1) % k = i - 1
      <3>1. (q * k + i) - 1 = q * k + (i - 1)
        BY <1>1, <1>2
      <3> QED
        BY <2>2, <3>1
    <2>4. BlockImage(payload)[q * k + i] = Block(payload)[(((q * k + i) - 1) % k) + 1]
      BY <2>1 DEF BlockImage
    <2> QED
      BY <2>3, <2>4, <1>1
  <1> DEFINE image == BlockImage(payload)
             block == Block(payload)
  <1>4. image \in Seq(Bytes) /\ Len(image) = kBlockCopies * k /\ block \in Seq(Bytes) /\ Len(block) = k
    BY ImageType, TrimmedBlock
  <1>5. \A i \in 1 .. k : image[q * k + i] = block[i]
    BY <1>3
  <1>6. SubSeq(image, q * k + 1, q * k + k) = block
    <2> DEFINE a == q * k
    <2>1. a \in Nat /\ k \in Nat /\ a + k <= Len(image)
      BY <1>1, <1>2, <1>4
    <2> HIDE DEF image, block, a, k
    <2>2. /\ SubSeq(image, a + 1, a + k) \in Seq(Bytes)
          /\ Len(SubSeq(image, a + 1, a + k)) = k
          /\ \A i \in 1 .. k : SubSeq(image, a + 1, a + k)[i] = image[a + i]
      BY <2>1, <1>4
    <2>3. \A i \in 1 .. k : image[a + i] = block[i]
      BY <1>5 DEF a
    <2>4. \A i \in 1 .. k : SubSeq(image, a + 1, a + k)[i] = block[i]
      BY <2>2, <2>3
    <2>5. SubSeq(image, a + 1, a + k) = block
      BY <2>1, <2>2, <2>4, <1>4
    <2> QED
      BY <2>5 DEF a
  <1> QED
    BY <1>2, <1>6 DEF NthBlock

-----------------------------------------------------------------------------

\* Inductive: both properties, and at each place what the files hold that was written.
IInv20 ==
    /\ TypeOK
    /\ ReadBackIsOwn
    /\ ExitStatusTells
    /\ charFailed => ~healthy
    /\ pc = "charWrite" => ~charFailed /\ charRead = Nothing
    /\ pc \in {"charWrite", "charRead", "blockWrite", "blockRead"} => blockRead = Nothing
    /\ pc = "charRead" => ~charFailed /\ file[charPath] = charPayload
    /\ pc = "blockWrite" /\ ~charFailed => charRead # Nothing /\ file[charPath] = charPayload
    /\ pc = "blockRead" =>
         /\ file[blockPath] = BlockImage(blockPayload)
         /\ ~charFailed => /\ charRead # Nothing
                           /\ charPath # blockPath => file[charPath] = charPayload

\* What the constants' payloads are to the devices: no Quit byte in the one, room for the
\* other in a block.
LEMMA Payloads20 ==
    /\ CharPayloads \subseteq Seq(Bytes \ {Quit})
    /\ \A payload \in BlockPayloads : payload \in Seq(Bytes) /\ Len(payload) < kBlockSize
  <1>1. ASSUME NEW raw \in Inputs PROVE clipCharPayload(raw) \in Seq(Bytes \ {Quit})
    <2>1. raw \in Seq(Bytes)
      BY DevicesAssumption
    <2> QED
      BY <2>1, BeforeType DEF clipCharPayload
  <1>2. ASSUME NEW raw \in Inputs
        PROVE  clipBlockPayload(raw) \in Seq(Bytes) /\ Len(clipBlockPayload(raw)) < kBlockSize
    <2>1. raw \in Seq(Bytes) /\ Len(raw) \in Nat /\ kBlockSize \in Nat \ {0}
      BY DevicesAssumption
    <2>2. CASE Len(raw) >= kBlockSize
      <3>1. SubSeq(raw, 1, kBlockSize - 1) \in Seq(Bytes)
            /\ Len(SubSeq(raw, 1, kBlockSize - 1)) = kBlockSize - 1
        BY <2>1, <2>2
      <3> QED
        BY <2>1, <2>2, <3>1 DEF clipBlockPayload
    <2>3. CASE ~ (Len(raw) >= kBlockSize)
      BY <2>1, <2>3 DEF clipBlockPayload
    <2> QED
      BY <2>2, <2>3
  <1> QED
    BY <1>1, <1>2 DEF CharPayloads, BlockPayloads

\* What a write that stopped half-way leaves is a beginning.
LEMMA PrefixesOf ==
    ASSUME NEW B, NEW s \in Seq(B), NEW t \in Prefixes(s)
    PROVE  t \in Seq(B) /\ IsPrefix(t, s)
  <1>1. PICK n \in 0 .. Len(s) : t = SubSeq(s, 1, n)
    BY DEF Prefixes
  <1>2. t \in Seq(B) /\ Len(t) = n /\ \A i \in 1 .. n : t[i] = s[i]
    BY <1>1
  <1>3. SubSeq(t, 1, Len(t)) = t
    BY <1>2
  <1> QED
    BY <1>1, <1>2, <1>3 DEF IsPrefix

LEMMA UnfinishedIs ==
    ASSUME NEW path \in Paths, NEW contents \in Seq(Bytes),
           file \in [Paths -> Seq(Bytes) \cup {Missing}],
           NEW written \in Unfinished(path, contents)
    PROVE  written \in [Paths -> Seq(Bytes) \cup {Missing}]
  <1>1. CASE written = file
    BY <1>1
  <1>2. ASSUME NEW prefix \in Prefixes(contents), written = [file EXCEPT ![path] = prefix]
        PROVE  written \in [Paths -> Seq(Bytes) \cup {Missing}]
    BY <1>2, PrefixesOf
  <1> QED
    BY <1>1, <1>2 DEF Unfinished

\* What the program writes is bytes.
LEMMA Written ==
    ASSUME TypeOK
    PROVE  /\ charPayload \in Seq(Bytes)
           /\ BlockImage(blockPayload) \in Seq(Bytes)
           /\ Len(BlockImage(blockPayload)) = kBlockCopies * kBlockSize
           /\ \A n \in 1 .. kBlockCopies :
                trimBlock(NthBlock(BlockImage(blockPayload), n)) = Before(blockPayload, Nul)
           /\ Before(blockPayload, Nul) \in Seq(Bytes)
  <1>1. blockPayload \in Seq(Bytes) /\ Len(blockPayload) < kBlockSize
        /\ charPayload \in Seq(Bytes \ {Quit})
    BY DEF TypeOK
  <1>2. charPayload \in Seq(Bytes)
    BY <1>1
  <1>3. Before(blockPayload, Nul) \in Seq(Bytes \ {Nul})
    BY <1>1, BeforeType
  <1>4. Before(blockPayload, Nul) \in Seq(Bytes)
    BY <1>3
  <1>5. /\ BlockImage(blockPayload) \in Seq(Bytes)
        /\ Len(BlockImage(blockPayload)) = kBlockCopies * kBlockSize
    BY <1>1, ImageType
  <1>6. ASSUME NEW n \in 1 .. kBlockCopies
        PROVE  trimBlock(NthBlock(BlockImage(blockPayload), n)) = Before(blockPayload, Nul)
    BY <1>1, TrimmedBlock, Blocks
  <1> QED
    BY <1>2, <1>4, <1>5, <1>6

\* No run yet.
LEMMA Lab20Initially == Init => IInv20
  <1> SUFFICES ASSUME Init PROVE IInv20
    OBVIOUS
  <1>1. <<>> \in Seq(Bytes \ {Quit}) /\ <<>> \in Seq(Bytes) /\ Len(<<>>) = 0
    OBVIOUS
  <1>2. kBlockSize \in Nat \ {0}
    BY DevicesAssumption
  <1>3. TypeOK
    <2>1. file \in [Paths -> Seq(Bytes) \cup {Missing}]
      BY DEF Init
    <2>2. /\ charPayload \in Seq(Bytes \ {Quit}) /\ blockPayload \in Seq(Bytes)
          /\ Len(blockPayload) < kBlockSize
      BY <1>1, <1>2 DEF Init
    <2> QED
      BY <2>1, <2>2 DEF Init, TypeOK
  <1>4. ReadBackIsOwn /\ ExitStatusTells
    BY DEF Init, ReadBackIsOwn, ExitStatusTells
  <1> QED
    BY <1>3, <1>4 DEF Init, IInv20

\* A run begins: nothing read, nothing failed.
LEMMA Start20 == IInv20 /\ Start => IInv20'
  <1> SUFFICES ASSUME IInv20, Start PROVE IInv20'
    OBVIOUS
  <1>1. TypeOK'
    <2>1. charPayload' \in Seq(Bytes \ {Quit})
      BY Payloads20 DEF Start
    <2>2. blockPayload' \in Seq(Bytes) /\ Len(blockPayload') < kBlockSize
      BY Payloads20 DEF Start
    <2> QED
      BY <2>1, <2>2 DEF IInv20, TypeOK, Start, parseArgs
  <1>2. ReadBackIsOwn' /\ ExitStatusTells'
    BY DEF Start, ReadBackIsOwn, ExitStatusTells
  <1> QED
    BY <1>1, <1>2 DEF IInv20, Start

\* The four calls of main, one lemma each.
LEMMA CharWrite20 == IInv20 /\ writeCharDevice => IInv20'
  <1> SUFFICES ASSUME IInv20, writeCharDevice PROVE IInv20'
    OBVIOUS
  <1>1. pc = "charWrite" /\ UNCHANGED <<options, charRead, blockRead>>
    BY DEF writeCharDevice
  <1>2. charPayload \in Seq(Bytes) /\ charPath \in Paths /\ TypeOK
    BY Written DEF IInv20, TypeOK
  <1>3. charRead = Nothing /\ blockRead = Nothing /\ ~charFailed
    BY <1>1 DEF IInv20
  <1>4. CASE WriteAll(charPath, charPayload) /\ pc' = "charRead" /\ UNCHANGED <<charFailed, status>>
    <2>1. file' \in [Paths -> Seq(Bytes) \cup {Missing}] /\ file'[charPath] = charPayload
      BY <1>2, <1>4 DEF WriteAll, TypeOK
    <2>2. TypeOK'
      BY <1>1, <1>2, <1>4, <2>1 DEF TypeOK, options
    <2>3. ReadBackIsOwn' /\ ExitStatusTells'
      BY <1>1, <1>3, <1>4 DEF ReadBackIsOwn, ExitStatusTells
    <2> QED
      BY <1>1, <1>3, <1>4, <2>1, <2>2, <2>3 DEF IInv20, options
  <1>5. CASE ~healthy /\ file' \in Unfinished(charPath, charPayload) /\ CharFails
    <2>1. file' \in [Paths -> Seq(Bytes) \cup {Missing}]
      BY <1>2, <1>5, UnfinishedIs DEF TypeOK
    <2>2. TypeOK'
      BY <1>1, <1>2, <1>5, <2>1 DEF TypeOK, options, CharFails, Return
    <2>3. ReadBackIsOwn' /\ ExitStatusTells'
      BY <1>1, <1>3, <1>5 DEF ReadBackIsOwn, ExitStatusTells, CharFails, Return, options
    <2> QED
      BY <1>1, <1>3, <1>5, <2>1, <2>2, <2>3 DEF IInv20, options, CharFails, Return
  <1> QED
    BY <1>4, <1>5 DEF writeCharDevice

LEMMA CharRead20 == IInv20 /\ readCharDevice => IInv20'
  <1> SUFFICES ASSUME IInv20, readCharDevice PROVE IInv20'
    OBVIOUS
  <1>1. pc = "charRead" /\ UNCHANGED <<file, options, blockRead>>
    BY DEF readCharDevice
  <1>2. charPayload \in Seq(Bytes) /\ charPath \in Paths /\ TypeOK
    BY Written DEF IInv20, TypeOK
  <1>3. blockRead = Nothing /\ ~charFailed /\ file[charPath] = charPayload
    BY <1>1 DEF IInv20
  <1>4. CASE /\ charRead' \in IF healthy THEN {file[charPath]} ELSE Prefixes(file[charPath])
             /\ pc' = "blockWrite" /\ UNCHANGED <<charFailed, status>>
    <2>1. /\ charRead' \in Seq(Bytes)
          /\ IF healthy THEN charRead' = charPayload ELSE IsPrefix(charRead', charPayload)
      BY <1>2, <1>3, <1>4, PrefixesOf
    <2>2. TypeOK' /\ charRead' # Nothing
      BY <1>1, <1>2, <1>4, <2>1, DevicesAssumption DEF TypeOK, options
    <2>3. ReadBackIsOwn' /\ ExitStatusTells'
      BY <1>1, <1>3, <1>4, <2>1 DEF ReadBackIsOwn, ExitStatusTells, options
    <2> QED
      BY <1>1, <1>3, <1>4, <2>1, <2>2, <2>3 DEF IInv20, options
  <1>5. CASE ~healthy /\ CharFails /\ UNCHANGED charRead
    <2>1. TypeOK'
      BY <1>1, <1>2, <1>5 DEF TypeOK, options, CharFails, Return
    <2>2. ReadBackIsOwn' /\ ExitStatusTells'
      BY <1>1, <1>3, <1>5 DEF IInv20, ReadBackIsOwn, ExitStatusTells, CharFails, Return, options
    <2> QED
      BY <1>1, <1>3, <1>5, <2>1, <2>2 DEF IInv20, options, CharFails, Return
  <1> QED
    BY <1>4, <1>5 DEF readCharDevice

LEMMA BlockWrite20 == IInv20 /\ writeBlockDevice => IInv20'
  <1> SUFFICES ASSUME IInv20, writeBlockDevice PROVE IInv20'
    OBVIOUS
  <1>1. pc = "blockWrite" /\ UNCHANGED <<options, charFailed, charRead, blockRead>>
    BY DEF writeBlockDevice
  <1> DEFINE image == BlockImage(blockPayload)
  <1>2. image \in Seq(Bytes) /\ blockPath \in Paths /\ charPath \in Paths /\ TypeOK
    BY Written DEF IInv20, TypeOK
  <1>3. blockRead = Nothing /\ (~charFailed => charRead # Nothing /\ file[charPath] = charPayload)
    BY <1>1 DEF IInv20
  <1>4. image' = image
    BY <1>1 DEF BlockImage, Block, options
  <1> HIDE DEF image
  <1>5. CASE WriteAll(blockPath, image) /\ pc' = "blockRead" /\ UNCHANGED status
    <2>1. /\ file' \in [Paths -> Seq(Bytes) \cup {Missing}]
          /\ file'[blockPath] = image
          /\ charPath # blockPath => file'[charPath] = file[charPath]
      BY <1>2, <1>5 DEF WriteAll, TypeOK
    <2>2. TypeOK'
      BY <1>1, <1>2, <1>5, <2>1 DEF TypeOK, options
    <2>3. ReadBackIsOwn' /\ ExitStatusTells'
      <3>1. ReadBackIsOwn'
        BY <1>1, <1>3, <1>5 DEF IInv20, ReadBackIsOwn, options
      <3>2. ExitStatusTells'
        BY <1>5 DEF ExitStatusTells
      <3> QED
        BY <3>1, <3>2
    <2>4. (file[blockPath] = BlockImage(blockPayload))'
      BY <1>1, <1>4, <2>1 DEF image, options
    <2> QED
      BY <1>1, <1>3, <1>5, <2>1, <2>2, <2>3, <2>4 DEF IInv20, options
  <1>6. CASE ~healthy /\ file' \in Unfinished(blockPath, image) /\ Return("failure")
    <2>1. file' \in [Paths -> Seq(Bytes) \cup {Missing}]
      BY <1>2, <1>6, UnfinishedIs DEF TypeOK
    <2>2. TypeOK'
      BY <1>1, <1>2, <1>6, <2>1 DEF TypeOK, options, Return
    <2>3. ReadBackIsOwn'
      BY <1>1, <1>3, <1>6 DEF IInv20, ReadBackIsOwn, options
    <2>4. ExitStatusTells'
      BY <1>1, <1>6 DEF ExitStatusTells, Return, options
    <2> QED
      BY <1>1, <1>6, <2>2, <2>3, <2>4 DEF IInv20, Return, options
  <1> QED
    BY <1>5, <1>6 DEF writeBlockDevice, image

LEMMA BlockRead20 == IInv20 /\ readBlockDevice => IInv20'
  <1> SUFFICES ASSUME IInv20, readBlockDevice PROVE IInv20'
    OBVIOUS
  <1> DEFINE image == BlockImage(blockPayload)
             kept == Before(blockPayload, Nul)
  <1>1. pc = "blockRead" /\ UNCHANGED <<file, options, charFailed, charRead>> /\ pc' = "idle"
    BY DEF readBlockDevice, Finish, Return
  <1>2. /\ TypeOK /\ file[blockPath] = image /\ blockRead = Nothing
        /\ ~charFailed => /\ charRead # Nothing
                          /\ charPath # blockPath => file[charPath] = charPayload
        /\ charFailed => ~healthy
    BY <1>1 DEF IInv20
  <1>3. /\ Len(image) = kBlockCopies * kBlockSize /\ kept \in Seq(Bytes)
        /\ Len(image) \in Nat
        /\ trimBlock(NthBlock(image, 1)) = kept /\ trimBlock(NthBlock(image, 3)) = kept
    <2>1. 1 \in 1 .. kBlockCopies /\ 3 \in 1 .. kBlockCopies
      BY DEF kBlockCopies
    <2> QED
      BY <1>2, <2>1, Written
  <1>4. image' = image /\ kept' = kept
    BY <1>1 DEF BlockImage, Block, Before, options
  <1>5. CASE blockRead' = <<trimBlock(NthBlock(image, 1)), trimBlock(NthBlock(image, 3))>> /\ Finish
    <2>1. blockRead' = <<kept, kept>> /\ blockRead' # Nothing /\ blockRead' \in Seq(Bytes) \X Seq(Bytes)
      BY <1>3, <1>5, DevicesAssumption
    <2>2. TypeOK'
      BY <1>1, <1>2, <1>5, <2>1 DEF TypeOK, options, Finish, Return
    <2>3. ReadBackIsOwn'
      BY <1>1, <1>4, <2>1 DEF IInv20, ReadBackIsOwn, options
    <2>4. ExitStatusTells'
      <3>1. status' = IF charFailed THEN "failure" ELSE "success"
        BY <1>5 DEF Finish, Return
      <3>2. file'[blockPath'] = image'
        BY <1>1, <1>2, <1>4 DEF options
      <3> QED
        BY <1>1, <1>2, <3>1, <3>2, <2>1 DEF ExitStatusTells, options
    <2> QED
      BY <1>1, <1>2, <2>2, <2>3, <2>4 DEF IInv20, options
  <1>6. CASE ~healthy /\ Return("failure") /\ UNCHANGED blockRead
    <2>1. TypeOK'
      BY <1>1, <1>2, <1>6 DEF TypeOK, options, Return
    <2>2. ReadBackIsOwn' /\ ExitStatusTells'
      BY <1>1, <1>2, <1>6 DEF IInv20, ReadBackIsOwn, ExitStatusTells, Return, options
    <2> QED
      BY <1>1, <1>2, <1>6, <2>1, <2>2 DEF IInv20, options, Return
  <1> HIDE DEF image
  <1> QED
    BY <1>2, <1>3, <1>5, <1>6 DEF readBlockDevice

\* A kill, which leaves a write unfinished.
LEMMA Kill20 == IInv20 /\ Kill => IInv20'
  <1> SUFFICES ASSUME IInv20, Kill PROVE IInv20'
    OBVIOUS
  <1>1. /\ pc' = "idle" /\ status' = "killed"
        /\ UNCHANGED <<options, charFailed, charRead, blockRead>>
    BY DEF Kill, Return
  <1>2. TypeOK /\ charPayload \in Seq(Bytes) /\ BlockImage(blockPayload) \in Seq(Bytes)
    BY Written DEF IInv20
  <1>3. file' \in [Paths -> Seq(Bytes) \cup {Missing}]
    <2>1. \/ file' \in Unfinished(charPath, charPayload)
          \/ file' \in Unfinished(blockPath, BlockImage(blockPayload))
          \/ file' = file
      BY <1>2 DEF Kill, TypeOK
    <2> QED
      BY <1>2, <2>1, UnfinishedIs DEF TypeOK
  <1>4. TypeOK'
    BY <1>1, <1>2, <1>3 DEF TypeOK, options
  <1>5. ReadBackIsOwn' /\ ExitStatusTells'
    BY <1>1 DEF IInv20, ReadBackIsOwn, ExitStatusTells, options
  <1> QED
    BY <1>1, <1>4, <1>5 DEF IInv20, options

\* A stuttering step.
LEMMA Stutter20 == IInv20 /\ UNCHANGED vars => IInv20'
  BY DEF vars, options, IInv20, TypeOK, ReadBackIsOwn, ExitStatusTells, Before, BlockImage, Block

\* Lab_20's inductive invariant, for every payload and block size.
THEOREM Lab20Invariance == Spec => []IInv20
  <1>1. Init => IInv20
    BY Lab20Initially
  <1>2. IInv20 /\ [Next]_vars => IInv20'
    BY Start20, CharWrite20, CharRead20, BlockWrite20, BlockRead20, Kill20, Stutter20 DEF Next
  <1> QED
    BY <1>1, <1>2, PTL DEF Spec

\* What lab 20 reports as read is what this run wrote, up to a zero byte or a read error,
\* and never a leftover of an earlier run, even if one file is both devices.
THEOREM Lab20ReadsItsOwn == Spec => []ReadBackIsOwn
  <1>1. IInv20 => ReadBackIsOwn
    BY DEF IInv20
  <1> QED
    BY <1>1, Lab20Invariance, PTL

\* lab 20 exits with 0 only if both payloads are whole on their devices, unless these are
\* one file, and were read back; and it does so if nothing fails.
THEOREM Lab20StatusTells == Spec => []ExitStatusTells
  <1>1. IInv20 => ExitStatusTells
    BY DEF IInv20
  <1> QED
    BY <1>1, Lab20Invariance, PTL
=============================================================================
