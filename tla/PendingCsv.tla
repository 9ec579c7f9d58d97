----------------------------- MODULE PendingCsv -----------------------------
(***************************************************************************)
(* The way of a spreadsheet line through an import that leaves it pending:   *)
(* parseCsv reads the uploaded text, the cells are stored, pendingCsv writes *)
(* them for correction, and the file that comes back is read again.  A text  *)
(* is a sequence of characters, since reading and writing differ by them; it *)
(* is the text below the header line, which is fixed.                        *)
(***************************************************************************)
EXTENDS Naturals, Sequences, SequencesExt

CONSTANTS
    Columns,      \* the length of EXPECTED_HEADER
    SaleColumns,  \* those of them that hasSaleData looks at
    Ordinary,     \* the characters that neither reader nor writer looks for
    Digits,       \* those of them that are digits
    Messages,     \* what an import says of a line that it leaves pending
    MaxText       \* bound on the length of the uploaded text

Quote == "quote"
Separator == "semicolon"
Apostrophe == "apostrophe"
Equals == "equals"     \* stands for "+" and "@" too
Minus == "minus"
NewLine == "newline"
Return == "return"
White == {"blank", NewLine, Return}

Special == {Quote, Separator, Apostrophe, Equals, Minus} \cup White

Characters == Special \cup Ordinary

EndOfText == "end"   \* what the reader finds after the last character

ASSUME CsvAssumption ==
    /\ Columns \in Nat /\ SaleColumns \subseteq 1..Columns
    /\ Digits \subseteq Ordinary /\ Ordinary \cap (Special \cup {EndOfText}) = {}
    /\ Messages \subseteq Seq(Characters)

VARIABLES text, stage, stored, back

csvVars == <<text, stage, stored, back>>

-----------------------------------------------------------------------------
(* Reading: parseCsv. *)

CleanCell(cell) ==
    LET solid == {i \in DOMAIN cell : cell[i] \notin White}
    IN  IF solid = {} THEN <<>> ELSE SubSeq(cell, Min(solid), Max(solid))

UnguardFormula(cell) ==
    IF Len(cell) > 1 /\ cell[1] = Apostrophe /\ cell[2] \in {Equals, Minus} THEN Tail(cell) ELSE cell

Reader == [rows |-> <<>>, cells |-> <<>>, cell |-> <<>>, quoted |-> FALSE, inQuotes |-> FALSE,
           skip |-> FALSE]

Add(s, char) == [s EXCEPT !.cell = Append(@, char)]

EndCell(s) ==
    [s EXCEPT !.cells = Append(@, UnguardFormula(CleanCell(s.cell))), !.cell = <<>>, !.quoted = FALSE]

EndLine(s) ==
    LET e == EndCell(s)
        empty == \A i \in DOMAIN e.cells : e.cells[i] = <<>>
    IN  [e EXCEPT !.rows = IF empty THEN @ ELSE Append(@, e.cells), !.cells = <<>>]

\* What one character does, with a look at the next one.
Read(s, char, next) ==
    CASE s.skip -> [s EXCEPT !.skip = FALSE]
      [] ~ s.skip /\ s.inQuotes ->
             IF char # Quote THEN Add(s, char)
             ELSE IF next = Quote THEN [Add(s, Quote) EXCEPT !.skip = TRUE]
             ELSE [s EXCEPT !.inQuotes = FALSE]
      [] ~ s.skip /\ ~ s.inQuotes ->
             IF char = Quote /\ ~ s.quoted /\ CleanCell(s.cell) = <<>>
             THEN [s EXCEPT !.cell = <<>>, !.quoted = TRUE, !.inQuotes = TRUE]
             ELSE IF char = Separator THEN EndCell(s)
             ELSE IF char = NewLine THEN EndLine(s)
             ELSE IF char = Return /\ next = NewLine THEN s
             ELSE Add(s, char)

\* The states of the reader before the first character and after each.
Readings(t) ==
    LET reading[i \in 0..Len(t)] ==
            IF i = 0 THEN Reader
            ELSE Read(reading[i - 1], t[i], IF i < Len(t) THEN t[i + 1] ELSE EndOfText)
    IN  reading

ReadAll(t) == Readings(t)[Len(t)]

\* A text that ends within quotes is refused.
Malformed(t) == ReadAll(t).inQuotes

ParseCsv(t) == EndLine(ReadAll(t)).rows

-----------------------------------------------------------------------------
(* Writing: csvLine and pendingCsv. *)

GuardFormula(cell) ==
    IF cell # <<>> /\ (cell[1] = Equals \/ (cell[1] = Minus /\ Len(cell) > 1 /\ cell[2] \notin Digits))
    THEN <<Apostrophe>> \o cell ELSE cell

Doubled(char) == IF char = Quote THEN <<Quote, Quote>> ELSE <<char>>

\* A writer that leaves quotes alone.
QuotedAsIs(cell) == <<Quote>> \o cell \o <<Quote>>

Quoted(cell) ==
    <<Quote>> \o FlattenSeq([i \in 1..Len(cell) |-> Doubled(cell[i])]) \o <<Quote>>

CsvCell(cell) ==
    LET guarded == GuardFormula(cell)
    IN  IF \E i \in DOMAIN guarded : guarded[i] \in {Separator, Quote, NewLine, Return}
        THEN Quoted(guarded) ELSE guarded

\* The cells with what follows each: separators between them and the line break
\* that ends the line.
CsvLine(cells) ==
    FlattenSeq([i \in 1..Len(cells) |->
        Append(CsvCell(cells[i]), IF i < Len(cells) THEN Separator ELSE NewLine)])

\* The columns of the header, whatever the line had.
Padded(cells) == [i \in 1..Columns |-> IF i <= Len(cells) THEN cells[i] ELSE <<>>]

PendingLine(row) == CsvLine(Append(Padded(row.raw), row.message))

WritePending(rows) == FlattenSeq([i \in 1..Len(rows) |-> PendingLine(rows[i])])

-----------------------------------------------------------------------------

HasSaleData(cells) ==
    \E i \in SaleColumns : i <= Len(cells) /\ cells[i] \notin {<<>>, <<Minus>>}

\* Lines without data are ignored.
DataLines(lines) ==
    FlattenSeq([i \in 1..Len(lines) |-> IF HasSaleData(lines[i]) THEN <<lines[i]>> ELSE <<>>])

\* runImport, for lines that it leaves pending with a message.
Import ==
    /\ stage = "given"
    /\ IF Malformed(text)
       THEN stage' = "refused" /\ UNCHANGED stored
       ELSE /\ stage' = "stored"
            /\ \E message \in Messages :
                   LET lines == DataLines(ParseCsv(text))
                   IN  stored' = [i \in 1..Len(lines) |-> [raw |-> lines[i], message |-> message]]
    /\ UNCHANGED <<text, back>>

\* The file is downloaded and uploaded as it is.
ImportPending ==
    /\ stage = "stored"
    /\ stage' = IF Malformed(WritePending(stored)) THEN "unreadable" ELSE "back"
    /\ back' = ParseCsv(WritePending(stored))
    /\ UNCHANGED <<text, stored>>

CsvInit ==
    /\ text \in SeqOf(Characters, MaxText)
    /\ stage = "given" /\ stored = <<>> /\ back = <<>>

CsvNext == Import \/ ImportPending

CsvSpec == CsvInit /\ [][CsvNext]_csvVars

-----------------------------------------------------------------------------
(* Properties. *)

\* Whatever text a line was read from, the pending file is never refused and
\* brings back the same lines with the same cells, formulas, quotes and line breaks
\* included; the reader is the inverse of the guard, as parser.ts says.
ComesBack ==
    stage \in {"back", "unreadable"} =>
        /\ stage = "back"
        /\ Len(back) = Len(stored)
        /\ \A i \in DOMAIN stored :
               SubSeq(back[i], 1, Columns) = Padded(stored[i].raw)
=============================================================================
