------------------------------- MODULE Export -------------------------------
(***************************************************************************)
(* finspace export (finspace cli.py 74-102 and 157-163): the rows of an    *)
(* interval of ranks, one by one, into a file of lines or of columns.      *)
(*                                                                         *)
(* A space is the sequence of its records.  A row is a function from       *)
(* column names to values.  A line is JSON and has the values themselves,  *)
(* a cell of a CSV file has their text, which several values may share:    *)
(* null, empty text and a field that is absent are one empty cell, and 1   *)
(* and "1" print alike.                                                    *)
(***************************************************************************)
EXTENDS Integers, FiniteSets, SequencesExt

CONSTANTS Spaces,    \* sequences of records
          Starts,    \* values of --start
          Stops,     \* sets with at most one value of --stop
          Limits,    \* sets with at most one value of --limit
          RankColumn,
          Text(_),   \* the text that the csv module writes for a value
          Blank      \* the text of an empty cell

VARIABLES space, format, start, stop, pc,
          next,    \* the rank of the row that is fetched next
          header,  \* the columns of a CSV file
          file,    \* the rows in the file, {} as long as there is no file
          status,  \* exit status
          printed  \* the count that is printed

vars == <<space, format, start, stop, pc, next, header, file, status, printed>>

Count == Len(space)

\* The row of a rank: {"rank": rank, **record}.
RowOf(rank) ==
  LET record == space[rank + 1]
  IN  [c \in {RankColumn} \cup DOMAIN record |-> IF c \in DOMAIN record THEN record[c] ELSE rank]

InSpace(rank) == 0 <= rank /\ rank < Count

Init ==
  /\ space \in Spaces
  /\ format \in {"jsonl", "csv"}
  /\ start \in Starts
  /\ \E given \in Stops, limit \in Limits :
       LET end == IF given = {} THEN Count ELSE CHOOSE s \in given : TRUE
       IN  stop = Min({end} \cup {start + l : l \in limit})
  /\ pc = "open"
  /\ next = start
  /\ header = {} /\ file = {} /\ status = "none" /\ printed = {}

\* main: an exception ends the command with status 2; the file stays.
Fail ==
  /\ pc' = "end"
  /\ status' = "error"
  /\ UNCHANGED <<next, printed>>

OpenLines ==
  /\ pc = "open" /\ format = "jsonl"
  /\ file' = {<<>>}
  /\ pc' = "lines"
  /\ UNCHANGED <<space, format, start, stop, next, header, status, printed>>

Printed(row) == [c \in DOMAIN row |-> Text(row[c])]

\* Variation: the rows of the second loop are counted from the first rank.
OpenColumnsAgain ==
  /\ pc = "open" /\ format = "csv"
  /\ IF start >= stop THEN pc' = "close" /\ file' = {<<>>} /\ UNCHANGED <<next, header, status, printed>>
     ELSE IF ~ InSpace(start) THEN Fail /\ UNCHANGED <<header, file>>
     ELSE /\ header' = DOMAIN RowOf(start)
          /\ file' = {<<Printed(RowOf(start))>>}
          /\ pc' = "columns"
          /\ UNCHANGED <<next, status, printed>>
  /\ UNCHANGED <<space, format, start, stop>>

\* The first row is fetched before the file is opened, and gives the header.
OpenColumns ==
  /\ pc = "open" /\ format = "csv"
  /\ IF start >= stop THEN pc' = "close" /\ file' = {<<>>} /\ UNCHANGED <<next, header, status, printed>>
     ELSE IF ~ InSpace(start) THEN Fail /\ UNCHANGED <<header, file>>
     ELSE /\ header' = DOMAIN RowOf(start)
          /\ file' = {<<Printed(RowOf(start))>>}
          /\ next' = start + 1
          /\ pc' = "columns"
          /\ UNCHANGED <<status, printed>>
  /\ UNCHANGED <<space, format, start, stop>>

\* A row as DictWriter writes it: ValueError for a column that is not in the
\* header, an empty cell for one that the row does not have.
Written(row) ==
  IF format = "jsonl" THEN row
  ELSE [c \in header |-> IF c \in DOMAIN row THEN Text(row[c]) ELSE Blank]
Fits(row) == format = "jsonl" \/ DOMAIN row \subseteq header

WriteRow ==
  /\ pc \in {"lines", "columns"} /\ next < stop
  /\ IF ~ InSpace(next) \/ ~ Fits(RowOf(next)) THEN Fail /\ UNCHANGED file
     ELSE /\ file' = {Append(rows, Written(RowOf(next))) : rows \in file}
          /\ next' = next + 1
          /\ UNCHANGED <<pc, status, printed>>
  /\ UNCHANGED <<space, format, start, stop, header>>

Close ==
  /\ pc \in {"lines", "columns"} /\ next >= stop
  /\ pc' = "close"
  /\ UNCHANGED <<space, format, start, stop, next, header, file, status, printed>>

Report ==
  /\ pc = "close"
  /\ printed' = {stop - start}
  /\ status' = "ok"
  /\ pc' = "end"
  /\ UNCHANGED <<space, format, start, stop, next, header, file>>

Next == OpenLines \/ OpenColumns \/ WriteRow \/ Close \/ Report

Spec == Init /\ [][Next]_vars

-----------------------------------------------------------------------------
\* What a row has in it: lines keep its values, columns the texts that are not
\* empty.
NotBlank(row) == [c \in {d \in DOMAIN row : row[d] # Blank} |-> row[c]]
Read(row) == IF format = "jsonl" THEN row ELSE NotBlank(row)
Kept(row) == IF format = "jsonl" THEN row ELSE NotBlank(Printed(row))
Asked == [i \in 1..Max({0, stop - start}) |-> start + i - 1]

\* An export that succeeds is complete: the file holds the ranks of the interval
\* in their order, each with its whole record as lines have it, or with the text
\* of every value of it that is not written as an empty cell, under its own
\* column, as columns have it.  The count that is printed is that of the rows
\* whenever the interval is not reversed.  One that fails leaves no row but those of
\* a beginning of the interval, and fails only for a bound outside of the space or,
\* in a CSV file, for a record with a field that the first record of the interval
\* does not have (cli.py 79-102).
ExportIsComplete ==
  /\ status = "ok" =>
       \A rows \in file :
         /\ [i \in DOMAIN rows |-> Read(rows[i])] = [i \in DOMAIN Asked |-> Kept(RowOf(Asked[i]))]
         /\ start <= stop => printed = {Len(rows)}
  /\ status = "error" =>
       \A rows \in file : \A i \in DOMAIN rows :
         InSpace(start + i - 1) /\ Read(rows[i]) = Kept(RowOf(start + i - 1))
  /\ status = "error" =>
       \/ ~ (0 <= start /\ start <= stop /\ stop <= Count)
       \/ /\ format = "csv"
          /\ \E r \in ToSet(Asked) : ~ (DOMAIN RowOf(r) \subseteq DOMAIN RowOf(start))
=============================================================================
