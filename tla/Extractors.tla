------------------------------ MODULE Extractors ------------------------------
(***************************************************************************)
(* app/services/ingestion/extractors.py: which extractor a file name gets, *)
(* the HTML extractor fed by html.parser, an event a step, and the CSV     *)
(* extractor, a row a step.  A piece of text, or a cell, is blank or a     *)
(* word of its own.  Plain text, PDF and DOCX are handed to a decoder or a *)
(* library whole, and are not gone into.                                   *)
(***************************************************************************)
EXTENDS Integers, Sequences, FiniteSets

CONSTANTS
    Sheets,         \* the rows csv.reader may return: sequences of cells
    MaxEvents       \* bound: events of html.parser

Blank == "blank"
Cell == {Blank, "word", "other"}

ASSUME ExtractorConstants ==
    /\ Sheets \subseteq Seq(Seq(Cell))
    /\ MaxEvents \in Nat

VARIABLES
    extraction,     \* "none", what is extracted, "html" or "csv", or "returned"
    events,         \* how many events html.parser has raised
    cdata,          \* the element whose text html.parser passes on as it is
    skipDepth,      \* _skip_depth
    parts,          \* _parts: each the number of the event that brought it
    shown,          \* the pieces of text outside script and style
    held,           \* the page has ended, and html.parser has text of it left
    sheet,          \* what csv.reader returns
    lines           \* lines, as sequences of labelled values

extractorVars == <<extraction, events, cdata, skipDepth, parts, shown, held, sheet, lines>>
-----------------------------------------------------------------------------
\* _EXTRACTORS, by the extension after the last dot of a name, in lower case.
Extractor ==
    [txt |-> "text", md |-> "text", markdown |-> "text", html |-> "html", htm |-> "html",
     csv |-> "csv", pdf |-> "pdf", docx |-> "docx"]

SUPPORTED_EXTENSIONS == DOMAIN Extractor

ExtractorInit ==
    /\ extraction = "none"
    /\ events = 0
    /\ cdata = "none"
    /\ skipDepth = 0
    /\ parts = <<>>
    /\ shown = <<>>
    /\ held = FALSE
    /\ sheet = <<>>
    /\ lines = <<>>
-----------------------------------------------------------------------------
(* HTML *)

_SKIP == {"script", "style"}
Tags == _SKIP \cup {"p"}

ExtractHtml ==
    /\ extraction = "none"
    /\ extraction' = "html"
    /\ UNCHANGED <<events, cdata, skipDepth, parts, shown, held, sheet, lines>>

Feed ==
    /\ extraction = "html"
    /\ events < MaxEvents
    /\ ~held
    /\ events' = events + 1
    /\ UNCHANGED <<extraction, sheet, lines>>

\* html.parser sees no tag inside of script or style but the one that closes it.
HandleStartTag(tag) ==
    /\ Feed
    /\ cdata = "none"
    /\ cdata' = IF tag \in _SKIP THEN tag ELSE "none"
    /\ skipDepth' = IF tag \in _SKIP THEN skipDepth + 1 ELSE skipDepth
    /\ UNCHANGED <<parts, shown, held>>

\* <script/> is a start and an end, after which the parser is where it was.
HandleStartEndTag(tag) ==
    /\ Feed
    /\ cdata = "none"
    /\ UNCHANGED <<cdata, skipDepth, parts, shown, held>>

\* Mutant: an end tag that closes nothing counts as well.
HandleEndTagUnguarded(tag) ==
    /\ Feed
    /\ cdata \in {"none", tag}
    /\ cdata' = "none"
    /\ skipDepth' = IF tag \in _SKIP THEN skipDepth - 1 ELSE skipDepth
    /\ UNCHANGED <<parts, shown, held>>

HandleEndTag(tag) ==
    /\ Feed
    /\ cdata \in {"none", tag}
    /\ cdata' = "none"
    /\ skipDepth' = IF tag \in _SKIP /\ skipDepth > 0 THEN skipDepth - 1 ELSE skipDepth
    /\ UNCHANGED <<parts, shown, held>>

HandleData(text) ==
    /\ Feed
    /\ parts' = IF skipDepth = 0 /\ text # Blank THEN Append(parts, events') ELSE parts
    /\ shown' = IF cdata = "none" /\ text # Blank THEN Append(shown, events') ELSE shown
    /\ UNCHANGED <<cdata, skipDepth, held>>

\* _extract_html never calls close(): an "&" in the last of the text, which could
\* begin a character reference, keeps all of it from handle_data.
HoldText ==
    /\ Feed
    /\ cdata = "none"
    /\ held' = TRUE
    /\ shown' = Append(shown, events')
    /\ UNCHANGED <<cdata, skipDepth, parts>>
-----------------------------------------------------------------------------
(* CSV *)

Filled(row) == \E i \in 1 .. Len(row) : row[i] # Blank

\* Those rows of a sheet that are filled, which are all that is gone into.
Kept(all) ==
    LET kept[n \in 0 .. Len(all)] ==
          IF n = 0 THEN <<>>
          ELSE IF Filled(all[n]) THEN Append(kept[n - 1], all[n]) ELSE kept[n - 1]
    IN  kept[Len(all)]

rows == Kept(sheet)

ExtractCsv ==
    /\ extraction = "none"
    /\ extraction' = "csv"
    /\ sheet' \in Sheets
    /\ UNCHANGED <<events, cdata, skipDepth, parts, shown, held, lines>>

\* The header names the columns it has a name for.
Label(header, i) == IF i <= Len(header) THEN header[i] ELSE Blank

\* Mutant: zip(header, row), which ends with the shorter of the two.
LabelledByZip(header, row) ==
    [i \in 1 .. (IF Len(header) < Len(row) THEN Len(header) ELSE Len(row)) |->
       <<header[i], row[i]>>]

Labelled(header, row) == [i \in 1 .. Len(row) |-> <<Label(header, i), row[i]>>]

\* The header is a line itself, without labels.
TakeRow ==
    /\ extraction = "csv"
    /\ Len(lines) < Len(rows)
    /\ lines' = Append(lines, Labelled(IF lines = <<>> THEN <<>> ELSE rows[1],
                                       rows[Len(lines) + 1]))
    /\ UNCHANGED <<extraction, events, cdata, skipDepth, parts, shown, held, sheet>>

ReturnSheet ==
    /\ extraction = "csv"
    /\ Len(lines) = Len(rows)
    /\ extraction' = "returned"
    /\ UNCHANGED <<events, cdata, skipDepth, parts, shown, held, sheet, lines>>

ExtractorNext ==
    \/ ExtractHtml
    \/ \E tag \in Tags : HandleStartTag(tag) \/ HandleStartEndTag(tag) \/ HandleEndTag(tag)
    \/ \E text \in Cell : HandleData(text)
    \/ HoldText
    \/ ExtractCsv
    \/ TakeRow
    \/ ReturnSheet

ExtractorSpec == ExtractorInit /\ [][ExtractorNext]_extractorVars
-----------------------------------------------------------------------------
(* Properties *)

\* The text of a page is what a reader of it sees: all of the text outside of
\* script and style, in its order, and none of theirs, however badly the tags
\* are closed; but for the piece at the end that html.parser has held back.
PageTextIsKept == shown = IF held THEN Append(parts, events) ELSE parts

\* The place of row m of a sheet among those that are filled.
Place(all, m) == Cardinality({k \in 1 .. m : Filled(all[k])})

\* No cell of a sheet is lost and none goes astray: every row with any text in it has
\* a line of its own, in the sheet's order, with all its values, longer or shorter
\* than the header as it may be.  A value is labelled just when the first line has
\* a name at the same place, and by that name.
SheetIsKept ==
    /\ \A m \in 1 .. Len(sheet) : Filled(sheet[m]) /\ Place(sheet, m) <= Len(lines) =>
         /\ Len(lines[Place(sheet, m)]) = Len(sheet[m])
         /\ \A i \in 1 .. Len(sheet[m]) : lines[Place(sheet, m)][i][2] = sheet[m][i]
    /\ \A n \in 1 .. Len(lines) : \A i \in 1 .. Len(lines[n]) :
         lines[n][i][1] = IF n > 1 /\ i <= Len(lines[1]) THEN lines[1][i][2] ELSE Blank
    /\ extraction = "returned" => Len(lines) = Place(sheet, Len(sheet))
=============================================================================
