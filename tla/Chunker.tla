------------------------------- MODULE Chunker -------------------------------
(***************************************************************************)
(* chunk_pages of app/services/ingestion/chunker.py, an iteration of its   *)
(* loops a step.  A character is TRUE if strip() and \S take it for text   *)
(* and FALSE if they take it for white space; positions count from 0, as   *)
(* in the code.  A chunk is the stretch of its page that it keeps; token   *)
(* counts and section titles are left out.                                 *)
(***************************************************************************)
EXTENDS Integers, Sequences, FiniteSetsExt

CONSTANTS
    Documents,      \* what the extractors return: sequences of pages
    Sizes,          \* settings.chunk_size, which nothing validates
    Overlaps        \* settings.chunk_overlap, likewise

Page == Seq(BOOLEAN)

ASSUME ChunkerConstants ==
    /\ Documents \subseteq Seq(Page)
    /\ Sizes \subseteq Int
    /\ Overlaps \subseteq Int

VARIABLES
    pages, size, overlap,   \* the arguments
    page,                   \* the page at work
    start,                  \* the next window of it
    chunks,                 \* what has been cut so far, in order of the ordinals
    at                      \* where the loops are

chunkVars == <<pages, size, overlap, page, start, chunks, at>>
-----------------------------------------------------------------------------
\* Positions of the text of a page.
Written(p) == {i \in 0 .. Len(p) - 1 : p[i + 1]}

\* page.text.strip(), as the positions of the page between which it lies.
First(p) == Min(Written(p))
Last(p) == Max(Written(p))

TextLen(p) == Last(p) - First(p) + 1

\* Mutant: a negative overlap is taken as it is.
StepUnclamped(n, o) == IF o > n - 1 THEN 1 ELSE n - o

\* step: max(1, size - max(0, min(overlap, size - 1)))
Step(n, o) == IF o < 0 THEN n ELSE IF o > n - 1 THEN 1 ELSE n - o

\* Mutant: one more character than the size.
WindowOneMore(p, from, n) ==
    {i \in Written(p) : First(p) + from <= i /\ i <= First(p) + from + n}

\* text[start : start + size].strip(), as positions of the page.
Window(p, from, n) ==
    {i \in Written(p) : First(p) + from <= i /\ i < First(p) + from + n}

Chunk == [ordinal : Nat, page : Nat, first : Nat, last : Nat]

ChunkInit ==
    /\ pages = <<>>
    /\ size = 0
    /\ overlap = 0
    /\ page = 0
    /\ start = 0
    /\ chunks = <<>>
    /\ at = "idle"
-----------------------------------------------------------------------------
\* A size that is not positive is a ValueError, and the document FAILED.
ChunkPages ==
    /\ at = "idle"
    /\ pages' \in Documents
    /\ size' \in Sizes
    /\ overlap' \in Overlaps
    /\ page' = 1
    /\ at' = IF size' <= 0 THEN "error" ELSE "page"
    /\ UNCHANGED <<start, chunks>>

\* A blank page has no chunks.
NextPage ==
    /\ at = "page"
    /\ page <= Len(pages)
    /\ IF Written(pages[page]) = {}
       THEN page' = page + 1 /\ UNCHANGED <<start, at>>
       ELSE start' = 0 /\ at' = "window" /\ UNCHANGED page
    /\ UNCHANGED <<pages, size, overlap, chunks>>

\* Mutant: start is moved on only past a window that has been kept.
TakeWindowKept ==
    LET window == Window(pages[page], start, size)
    IN  /\ at = "window"
        /\ start < TextLen(pages[page])
        /\ window # {}
        /\ chunks' = Append(chunks, [ordinal |-> Len(chunks), page |-> page,
                                     first |-> Min(window), last |-> Max(window)])
        /\ start' = start + Step(size, overlap)
        /\ UNCHANGED <<pages, size, overlap, page, at>>

\* A window that is all white space is passed over, and has no ordinal.
TakeWindow ==
    LET window == Window(pages[page], start, size)
    IN  /\ at = "window"
        /\ start < TextLen(pages[page])
        /\ chunks' = IF window = {} THEN chunks
                     ELSE Append(chunks, [ordinal |-> Len(chunks), page |-> page,
                                          first |-> Min(window), last |-> Max(window)])
        /\ start' = start + Step(size, overlap)
        /\ UNCHANGED <<pages, size, overlap, page, at>>

ClosePage ==
    /\ at = "window"
    /\ start >= TextLen(pages[page])
    /\ page' = page + 1
    /\ at' = "page"
    /\ UNCHANGED <<pages, size, overlap, start, chunks>>

Return ==
    /\ at = "page"
    /\ page > Len(pages)
    /\ at' = "done"
    /\ UNCHANGED <<pages, size, overlap, page, start, chunks>>
-----------------------------------------------------------------------------
Proceed == NextPage \/ TakeWindow \/ ClosePage \/ Return

ChunkNext ==
    \/ ChunkPages
    \/ Proceed

\* The loops are synchronous: once called, they run.
ChunkFairness == WF_chunkVars(Proceed)

ChunkSpec == ChunkInit /\ [][ChunkNext]_chunkVars /\ ChunkFairness
-----------------------------------------------------------------------------
(* Properties *)

\* Every variable has its type.
ChunkTypeOK ==
    /\ pages \in Seq(Page)
    /\ size \in Int
    /\ overlap \in Int
    /\ page \in Nat
    /\ start \in Nat
    /\ chunks \in Seq(Chunk)
    /\ at \in {"idle", "page", "window", "done", "error"}

\* The text of page i has been passed up to position n.
Passed(i, n) ==
    \/ i < page
    \/ i = page /\ at = "window" /\ n < First(pages[i]) + start

\* No text is lost, whatever the size, the overlap and the white space: every
\* character of text that the windows have passed is in a chunk of its page, so
\* that when the document is done every one of them can be found.
NothingLost ==
    at \in {"page", "window", "done"} =>
        \A i \in 1 .. Len(pages) : \A n \in Written(pages[i]) :
            Passed(i, n) => \E k \in 1 .. Len(chunks) :
                /\ chunks[k].page = i
                /\ chunks[k].first <= n
                /\ n <= chunks[k].last

\* Chunks are as they are configured to be: none is longer than size, they come in
\* the order of the text, and neighbours share no more than the overlap, so that
\* even a last chunk that repeats the end of the one before is no longer than that.
ChunksAsConfigured ==
    /\ \A k \in 1 .. Len(chunks) :
        LET c == chunks[k]
        IN  /\ c.ordinal = k - 1
            /\ c.first <= c.last
            /\ c.last - c.first < size
    /\ \A k \in 1 .. Len(chunks) - 1 :
        LET c == chunks[k]
            d == chunks[k + 1]
        IN  \/ c.page < d.page
            \/ /\ c.page = d.page
               /\ c.first <= d.first
               /\ c.last <= d.last
               /\ c.last - d.first < IF overlap < 0 THEN 0 ELSE overlap

\* "Guarantee forward progress": chunking ends, for every size and overlap.
ChunkingEnds == at = "page" ~> at = "done"
=============================================================================
