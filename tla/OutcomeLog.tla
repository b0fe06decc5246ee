----------------------------- MODULE OutcomeLog -----------------------------
(***************************************************************************)
(* The outcome log between the Go engine, which appends one JSON line per  *)
(* auction (engine.go), and the retrainer, which reads the newest window   *)
(* of it (retrain.py).                                                     *)
(*                                                                         *)
(* A record goes through bufio.Writer in three pieces: a proper prefix of  *)
(* its JSON, the rest of the JSON, and the newline.  The writer spills     *)
(* whenever its buffer is full, wherever in a record that happens to be,   *)
(* so the file on disk may end after any piece.  A crash loses the buffer; *)
(* the restarted engine reopens the file with O_APPEND and goes on at its  *)
(* end, in the middle of a torn line if there is one.                      *)
(***************************************************************************)
EXTENDS Integers, Sequences, FiniteSets, SequencesExt

CONSTANTS
    PriceOf,        \* record -> its clearing price in half fen; records are 1, 2, ...
    Window,         \* --window
    NumBins,        \* num_bins of the warm-start checkpoint
    MaxCrashes      \* bound: crashes of the engine

ASSUME LogAssumption ==
    /\ PriceOf \in Seq(Int)
    /\ Window \in Nat \ {0} /\ NumBins \in Nat \ {0} /\ MaxCrashes \in Nat

VARIABLES
    disk,           \* the pieces in the file
    buffer,         \* the pieces in logW
    logged,         \* records written to logW so far
    crashes         \* history: crashes of the engine

logVars == <<disk, buffer, logged, crashes>>

Record == DOMAIN PriceOf
Prefix == 1
Rest == 2
Newline == 3
Pieces(r) == [p \in Prefix .. Newline |-> <<r, p>>]

LogInit ==
    /\ disk = << >> /\ buffer = << >>
    /\ logged = 0 /\ crashes = 0

\* writeLog: the next record enters the buffer, from which the first k pieces
\* spill to the file (k = 0 when it all fits).
WriteLog ==
    /\ logged < Len(PriceOf)
    /\ logged' = logged + 1
    /\ LET full == buffer \o Pieces(logged + 1)
       IN  \E k \in 0 .. Len(full) :
             /\ disk' = disk \o SubSeq(full, 1, k)
             /\ buffer' = SubSeq(full, k + 1, Len(full))
    /\ UNCHANGED crashes

\* flushLog, once a second and on Close.
FlushLog ==
    /\ buffer # << >>
    /\ disk' = disk \o buffer
    /\ buffer' = << >>
    /\ UNCHANGED <<logged, crashes>>

\* The engine dies and New reopens the log for appending.
EngineCrash ==
    /\ crashes < MaxCrashes
    /\ crashes' = crashes + 1
    /\ buffer' = << >>
    /\ UNCHANGED <<disk, logged>>

-----------------------------------------------------------------------------
(* read_window and build_tensors *)

\* Where the lines of the file end: at a newline, or at the end of the file.
Newlines == {i \in DOMAIN disk : disk[i][2] = Newline}
LineEnds == Newlines \cup {Len(disk) + 1}

LineEndingAt(e) ==
    LET before == {i \in Newlines : i < e}
    IN  SubSeq(disk, (IF before = {} THEN 0 ELSE Max(before)) + 1, e - 1)

\* json.loads accepts a line that is one whole record and nothing else.
Parses(line) == Len(line) = 2 /\ line = SubSeq(Pieces(line[1][1]), Prefix, Rest)

ParsedEnds == {e \in LineEnds : Parses(LineEndingAt(e))}

Nth(places, i) == CHOOSE e \in places : Cardinality({d \in places : d < e}) = i - 1

\* The records of the lines that end at the given places, in file order.
RecordsAt(ends) == [i \in 1 .. Cardinality(ends) |-> LineEndingAt(Nth(ends, i))[1][1]]

\* Mutant: the reader gives up at the first line it cannot parse.
ReadLinesUntilBad ==
    LET bad == {e \in LineEnds : LineEndingAt(e) # << >>} \ ParsedEnds
    IN  RecordsAt({e \in ParsedEnds : \A b \in bad : e < b})

\* Blank lines and lines that do not parse are skipped.
ReadLines == RecordsAt(ParsedEnds)

\* Mutant: one row more than the window.
LastRowsAndOne(rows) == SubSeq(rows, Len(rows) - Window, Len(rows))

\* The last Window rows of a sequence.
LastRows(rows) == SubSeq(rows, Len(rows) - Window + 1, Len(rows))

ReadWindow ==
    LET rows == ReadLines
    IN  IF Len(rows) > Window THEN LastRows(rows) ELSE rows

\* Python's round of a price in half fen: a half goes to the even neighbour.
Rounded(halves) ==
    LET down == halves \div 2
    IN  IF halves % 2 = 0 \/ down % 2 = 0 THEN down ELSE down + 1

\* The label of a record: its clearing price, rounded and clamped to the bins.
Label(r) ==
    LET price == Rounded(PriceOf[r])
    IN  CASE price < 0           -> 0
          [] price > NumBins - 1 -> NumBins - 1
          [] OTHER               -> price

Samples(rows) == [i \in DOMAIN rows |-> [record |-> rows[i], label |-> Label(rows[i])]]

-----------------------------------------------------------------------------
Sample == [record : Record, label : 0 .. NumBins - 1]

\* The records whose last piece has reached the disk.
OnDisk == {disk[i][1] : i \in Newlines}

\* A crash costs at most one record of those that reached the disk: the one
\* whose line was joined to the line the crash tore.  Everything else on disk
\* is read back, in the order it was written (engine.go writeLog and New,
\* retrain.py read_window).
CrashTearsOneLine ==
    /\ Cardinality(OnDisk \ Range(ReadLines)) <= crashes
    /\ \A i, j \in DOMAIN ReadLines : i < j => ReadLines[i] < ReadLines[j]

=============================================================================
