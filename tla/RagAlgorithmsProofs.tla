------------------------- MODULE RagAlgorithmsProofs -------------------------
(***************************************************************************)
(* The sequential parts, for all that they may be given: chunk_pages loses *)
(* no text and its chunks are as they are configured to be; the extractors *)
(* lose no text, no cell and no column; what is fetched has an extractor;  *)
(* retrieve cites the best of what it has found, and the metrics of the    *)
(* evaluation agree about it.                                              *)
(***************************************************************************)
EXTENDS Chunker, Evaluation, UrlIngestion, FiniteSetTheorems, WellFoundedInduction, TLAPS

-----------------------------------------------------------------------------
(* Induction and recursion *)

\* Induction, for a set: 0 and with each of its elements the next.
LEMMA SetInduction ==
    ASSUME NEW S, 0 \in S, \A n \in Nat : n \in S => n + 1 \in S
    PROVE  Nat \subseteq S
  <1> SUFFICES ASSUME Nat \ S # {} PROVE FALSE
    OBVIOUS
  <1> DEFINE T == {1 .. n : n \in Nat \ S}
             R == StrictSubsetOrdering(Nat)
  <1>1. T # {} /\ T \subseteq FiniteSubsetsOf(Nat)
    <2>1. ASSUME NEW n \in Nat PROVE 1 .. n \in SUBSET Nat /\ IsFiniteSet(1 .. n)
      BY FS_Interval
    <2> QED BY <2>1 DEF FiniteSubsetsOf
  <1>2. IsWellFoundedOn(R, FiniteSubsetsOf(Nat))
    BY FS_StrictSubsetOrderingWellFounded
  <1>3. \E x \in T : \A y \in T : ~ (<<y, x>> \in R)
    <2> HIDE DEF T, R
    <2> QED BY <1>1, <1>2, WFMin
  <1>4. PICK n \in Nat \ S : \A y \in T : ~ (<<y, 1 .. n>> \in R)
    BY <1>3
  <1>5. n # 0 /\ n - 1 \in Nat
    OBVIOUS
  <1>6. n - 1 \in Nat \ S
    BY <1>5
  <1>7. 1 .. n - 1 \in T
    BY <1>6
  <1>8. n \in 1 .. n /\ n \notin 1 .. n - 1 /\ 1 .. n - 1 \subseteq 1 .. n
    BY <1>5
  <1>9. <<1 .. n - 1, 1 .. n>> \in R
    <2>1. 1 .. n - 1 \in SUBSET Nat /\ 1 .. n \in SUBSET Nat /\ 1 .. n - 1 # 1 .. n
      BY <1>8
    <2> HIDE DEF T
    <2> QED BY <1>8, <2>1 DEF StrictSubsetOrdering
  <1> QED BY <1>4, <1>7, <1>9

\* f[i] follows from f[i - 1] by step.
Follows(f, n, first, step) ==
    f = [i \in 0 .. n |-> IF i = 0 THEN first ELSE step[<<i, f[i - 1]>>]]

\* There is a function of that recursion.
LEMMA Recursion ==
    ASSUME NEW n \in Nat, NEW V, NEW first \in V, NEW step \in [(1 .. n) \X V -> V]
    PROVE  \E f \in [0 .. n -> V] : Follows(f, n, first, step)
<1> DEFINE Upto(m, f) == \A i \in 0 .. m : f[i] = IF i = 0 THEN first ELSE step[<<i, f[i - 1]>>]
           S == {m \in Nat : m > n \/ \E f \in [0 .. m -> V] : Upto(m, f)}
<1>1. 0 \in S
  <2>1. [i \in 0 .. 0 |-> first] \in [0 .. 0 -> V] /\ Upto(0, [i \in 0 .. 0 |-> first])
    OBVIOUS
  <2> QED
    BY <2>1
<1>2. ASSUME NEW m \in Nat, m \in S PROVE m + 1 \in S
  <2> SUFFICES ASSUME m + 1 <= n PROVE \E f \in [0 .. m + 1 -> V] : Upto(m + 1, f)
    OBVIOUS
  <2>1. PICK f \in [0 .. m -> V] : Upto(m, f)
    BY <1>2
  <2> DEFINE g == [i \in 0 .. m + 1 |-> IF i = m + 1 THEN step[<<i, f[m]>>] ELSE f[i]]
  <2>2. step[<<m + 1, f[m]>>] \in V
    OBVIOUS
  <2>3. g \in [0 .. m + 1 -> V]
    BY <2>2
  <2>4. Upto(m + 1, g)
    <3>1. ASSUME NEW i \in 0 .. m + 1 PROVE g[i] = IF i = 0 THEN first ELSE step[<<i, g[i - 1]>>]
      <4>1. CASE i = m + 1
        BY <4>1
      <4>2. CASE i \in 0 .. m
        <5>1. g[i] = f[i] /\ (i # 0 => g[i - 1] = f[i - 1])
          BY <4>2
        <5> QED
          BY <5>1, <2>1, <4>2
      <4> QED
        BY <4>1, <4>2
    <3> QED
      BY <3>1
  <2> HIDE DEF g
  <2> QED
    BY <2>3, <2>4
<1>3. Nat \subseteq S
  <2> HIDE DEF S
  <2> QED
    BY <1>1, <1>2, SetInduction
<1>4. PICK f \in [0 .. n -> V] : Upto(n, f)
  BY <1>3
<1> QED
  BY <1>4 DEF Follows

-----------------------------------------------------------------------------
(* Chunks *)

\* What the windows of a page have in common with the chunk before.
Shared == size - Step(size, overlap)

\* The loops are where the pages allow.
AtPage ==
    /\ at \in {"page", "window", "done"} => size > 0 /\ page > 0
    /\ at = "window" => page <= Len(pages) /\ Written(pages[page]) # {}
    /\ at = "done" => page > Len(pages)
    /\ at = "idle" => chunks = <<>>

\* Where the chunks are with respect to the window that is next.
Behind ==
    \A k \in 1 .. Len(chunks) :
        LET c == chunks[k]
        IN  /\ at \in {"page", "done"} => c.page < page
            /\ at = "window" => c.page <= page
            /\ at = "window" /\ c.page = page =>
                   /\ c.last \in Written(pages[page])
                   /\ c.last < First(pages[page]) + start + Shared
                   /\ \A n \in Written(pages[page]) :
                          First(pages[page]) + start <= n => c.first <= n

ChunkerInv == ChunkTypeOK /\ AtPage /\ Behind /\ NothingLost /\ ChunksAsConfigured
-----------------------------------------------------------------------------
\* The step moves the window on, by its own length at most.
LEMMA StepBounds ==
    ASSUME NEW n \in Int, NEW o \in Int, n > 0
    PROVE  /\ Step(n, o) \in 1 .. n
           /\ n - Step(n, o) <= IF o < 0 THEN 0 ELSE o
BY DEF Step

\* The least number of a set of naturals.
LEMMA Least ==
    ASSUME NEW S, S \subseteq Nat, S # {}
    PROVE  \E x \in S : \A y \in S : x <= y
<1> SUFFICES ASSUME \A x \in S : \E y \in S : ~ (x <= y) PROVE FALSE
  OBVIOUS
<1> DEFINE T == {n \in Nat : \A x \in S : n <= x}
<1>1. 0 \in T
  OBVIOUS
<1>2. ASSUME NEW n \in Nat, n \in T PROVE n + 1 \in T
  <2>1. n \notin S
    BY <1>2
  <2> QED
    BY <1>2, <2>1
<1>3. Nat \subseteq T
  <2> HIDE DEF T
  <2> QED
    BY <1>1, <1>2, SetInduction
<1>4. PICK x \in S : TRUE
  OBVIOUS
<1>5. x + 1 \in T
  BY <1>3
<1> QED
  BY <1>5

\* A set of naturals that is bounded and not empty has both ends.
LEMMA Ends ==
    ASSUME NEW S, S \subseteq Nat, S # {}, NEW b \in Nat, \A x \in S : x <= b
    PROVE  /\ Min(S) \in S /\ \A x \in S : Min(S) <= x
           /\ Max(S) \in S /\ \A x \in S : x <= Max(S)
<1>1. \E x \in S : \A y \in S : x <= y
  BY Least
<1>2. \E x \in S : \A y \in S : x >= y
  <2> DEFINE T == {b - x : x \in S}
  <2>1. T \subseteq Nat /\ T # {}
    <3>1. \A x \in S : b - x \in Nat
      OBVIOUS
    <3> QED
      BY <3>1
  <2>2. PICK t \in T : \A u \in T : t <= u
    BY <2>1, Least
  <2>3. PICK x \in S : t = b - x
    BY <2>2
  <2>4. ASSUME NEW y \in S PROVE x >= y
    <3>1. b - y \in T
      OBVIOUS
    <3>2. b - x <= b - y
      BY <3>1, <2>2, <2>3
    <3>3. x \in Nat /\ y \in Nat
      OBVIOUS
    <3> HIDE DEF T
    <3> QED
      BY <3>2, <3>3
  <2> QED
    BY <2>4
<1> QED
  BY <1>1, <1>2 DEF Min, Max

\* Positions are naturals below the length of the page.
LEMMA WrittenBounded ==
    ASSUME NEW p \in Page
    PROVE  Written(p) \subseteq Nat /\ Len(p) \in Nat /\ \A x \in Written(p) : x <= Len(p)
BY DEF Written, Page

\* The text of a page lies between its first and its last written position.
LEMMA TextEnds ==
    ASSUME NEW p \in Page, Written(p) # {}
    PROVE  /\ First(p) \in Nat /\ Last(p) \in Nat
           /\ \A x \in Written(p) : x \in Nat /\ First(p) <= x /\ x <= Last(p)
           /\ TextLen(p) = Last(p) - First(p) + 1
BY WrittenBounded, Ends DEF First, Last, TextLen

\* A window is part of the text, and has both ends if it is not blank.
LEMMA WindowEnds ==
    ASSUME NEW p \in Page, Written(p) # {}, NEW from \in Nat, NEW n \in Int, Window(p, from, n) # {}
    PROVE  LET W == Window(p, from, n)
           IN  /\ Min(W) \in W /\ \A x \in W : Min(W) <= x
               /\ Max(W) \in W /\ \A x \in W : x <= Max(W)
<1>1. Window(p, from, n) \subseteq Written(p)
  BY DEF Window
<1> QED
  BY <1>1, WrittenBounded, Ends

\* Every chunk that has been cut is a Chunk.
LEMMA ChunkFields ==
    ASSUME chunks \in Seq(Chunk)
    PROVE  \A k \in 1 .. Len(chunks) :
               /\ chunks[k] \in Chunk
               /\ chunks[k].ordinal \in Nat /\ chunks[k].page \in Nat
               /\ chunks[k].first \in Nat /\ chunks[k].last \in Nat
<1>1. \A k \in 1 .. Len(chunks) : chunks[k] \in Chunk
  OBVIOUS
<1> QED
  BY <1>1 DEF Chunk

\* What is kept of the chunks and of what has been passed is kept of no text lost.
LEMMA NothingLostKept ==
    ASSUME NothingLost, at \in {"page", "window", "done"},
           pages' = pages, chunks' = chunks,
           \A i \in 1 .. Len(pages) : \A n \in Written(pages[i]) : Passed(i, n)' => Passed(i, n)
    PROVE  NothingLost'
BY DEF NothingLost
-----------------------------------------------------------------------------
\* An invariant of the initial state.
LEMMA ChunkerInitInv == ChunkInit => ChunkerInv
BY DEF ChunkInit, ChunkerInv, ChunkTypeOK, AtPage, Behind, NothingLost, ChunksAsConfigured, Page

\* The call: there are no chunks yet, and no page has been passed.
LEMMA CallInv == ChunkerInv /\ ChunkPages => ChunkerInv'
<1> SUFFICES ASSUME ChunkerInv, ChunkPages PROVE ChunkerInv'
  OBVIOUS
<1> USE DEF ChunkerInv, ChunkPages
<1>1. ChunkTypeOK'
  BY ChunkerConstants DEF ChunkTypeOK
<1>2. AtPage'
  <2>1. size' \in Int /\ page' = 1 /\ at' \in {"error", "page"}
    BY ChunkerConstants
  <2>2. at' = "page" => size' > 0
    BY <2>1
  <2> QED
    BY <2>1, <2>2 DEF AtPage
<1>3. chunks' = <<>>
  BY DEF AtPage
<1>4. Behind' /\ ChunksAsConfigured'
  BY <1>3 DEF Behind, ChunksAsConfigured
<1>5. NothingLost'
  BY DEF NothingLost, Passed
<1> QED
  BY <1>1, <1>2, <1>4, <1>5

\* A page that is blank is passed; the first window of another is at its beginning.
LEMMA NextPageInv == ChunkerInv /\ NextPage => ChunkerInv'
<1> SUFFICES ASSUME ChunkerInv, NextPage PROVE ChunkerInv'
  OBVIOUS
<1> USE DEF ChunkerInv, NextPage
<1>1. ChunkTypeOK'
  BY DEF ChunkTypeOK
<1>2. AtPage'
  BY DEF AtPage, ChunkTypeOK
<1>3. Behind'
  <2>1. page \in Nat /\ \A k \in 1 .. Len(chunks) : chunks[k].page \in Nat
    BY ChunkFields DEF ChunkTypeOK
  <2>2. \A k \in 1 .. Len(chunks) : chunks[k].page < page
    BY DEF Behind
  <2>3. \A k \in 1 .. Len(chunks) : chunks[k].page < page + 1 /\ chunks[k].page # page
    BY <2>1, <2>2
  <2>4. /\ chunks' = chunks
        /\ \/ page' = page + 1 /\ at' = "page"
           \/ page' = page /\ at' = "window"
    OBVIOUS
  <2> QED
    BY <2>1, <2>2, <2>3, <2>4 DEF Behind
<1>4. ChunksAsConfigured'
  BY DEF ChunksAsConfigured
<1>5. NothingLost'
  <2> SUFFICES ASSUME NEW i \in 1 .. Len(pages), NEW n \in Written(pages[i]), Passed(i, n)'
               PROVE  Passed(i, n)
    BY NothingLostKept
  <2>1. page \in Nat
    BY DEF ChunkTypeOK
  <2>2. CASE Written(pages[page]) = {}
    <3>1. i < page + 1 /\ i # page
      BY <2>2 DEF Passed
    <3> QED
      BY <2>1, <3>1 DEF Passed
  <2>3. CASE Written(pages[page]) # {}
    <3>1. pages[page] \in Page
      BY DEF ChunkTypeOK, AtPage
    <3>2. \A m \in Written(pages[page]) : ~ (m < First(pages[page]) + 0)
      BY <3>1, <2>3, TextEnds
    <3>3. start' = 0 /\ page' = page
      BY <2>3
    <3> QED
      BY <3>2, <3>3 DEF Passed
  <2> QED
    BY <2>2, <2>3
<1> QED
  BY <1>1, <1>2, <1>3, <1>4, <1>5

\* A window: what it keeps reaches from the first to the last position of text in it.
LEMMA TakeWindowInv == ChunkerInv /\ TakeWindow => ChunkerInv'
<1> SUFFICES ASSUME ChunkerInv, TakeWindow PROVE ChunkerInv'
  OBVIOUS
<1> DEFINE p == pages[page]
           W == Window(p, start, size)
           f == First(p)
           s == Step(size, overlap)
           L == Len(chunks)
           c == [ordinal |-> L, page |-> page, first |-> Min(W), last |-> Max(W)]
<1>1. /\ page \in Nat /\ page > 0 /\ page <= Len(pages) /\ size \in Int /\ size > 0
      /\ start \in Nat /\ overlap \in Int /\ chunks \in Seq(Chunk) /\ L \in Nat
      /\ at = "window" /\ p \in Page /\ Written(p) # {}
  BY DEF ChunkerInv, ChunkTypeOK, AtPage, TakeWindow
<1>2. /\ s \in 1 .. size
      /\ Shared = size - s
      /\ Shared \in Nat
      /\ Shared <= (IF overlap < 0 THEN 0 ELSE overlap)
  <2>1. s \in 1 .. size /\ size - s <= (IF overlap < 0 THEN 0 ELSE overlap)
    BY <1>1, StepBounds
  <2>2. Shared = size - s
    BY DEF Shared
  <2> QED
    BY <1>1, <2>1, <2>2
<1>3. f \in Nat /\ \A x \in Written(p) : x \in Nat /\ f <= x
  BY <1>1, TextEnds
<1>4. /\ pages' = pages /\ size' = size /\ overlap' = overlap /\ page' = page /\ at' = at
      /\ start' = start + s
  BY DEF TakeWindow
<1>5. \A x : x \in W <=> x \in Written(p) /\ f + start <= x /\ x < f + start + size
  BY DEF Window
<1>6. W # {} => /\ Min(W) \in W /\ \A x \in W : Min(W) <= x
                /\ Max(W) \in W /\ \A x \in W : x <= Max(W)
  BY <1>1, WindowEnds
<1>7. W # {} => c \in Chunk
  BY <1>1, <1>3, <1>5, <1>6 DEF Chunk
<1>8. IF W = {} THEN chunks' = chunks ELSE chunks' = Append(chunks, c)
  BY DEF TakeWindow
<1>9. /\ \A k \in 1 .. L : k \in 1 .. Len(chunks') /\ chunks'[k] = chunks[k]
      /\ \A k \in 1 .. Len(chunks') : (k \in 1 .. L) \/ (W # {} /\ k = L + 1 /\ chunks'[k] = c)
      /\ W # {} => Len(chunks') = L + 1 /\ chunks'[L + 1] = c
      /\ W = {} => chunks' = chunks
      /\ chunks' \in Seq(Chunk)
  <2>1. CASE W = {}
    BY <2>1, <1>8, <1>1
  <2>2. CASE W # {}
    <3>1. chunks' = Append(chunks, c) /\ c \in Chunk
      BY <2>2, <1>7, <1>8
    <3> HIDE DEF W, c
    <3>2. /\ chunks' \in Seq(Chunk) /\ Len(chunks') = L + 1
          /\ \A k \in 1 .. L + 1 : chunks'[k] = IF k <= L THEN chunks[k] ELSE c
      BY <3>1, <1>1
    <3>3. \A k \in 1 .. L + 1 : (k \in 1 .. L) \/ k = L + 1
      BY <1>1
    <3>4. \A k \in 1 .. L : k \in 1 .. L + 1 /\ k <= L
      BY <1>1
    <3>5. L + 1 \in 1 .. L + 1 /\ ~ (L + 1 <= L)
      BY <1>1
    <3> HIDE DEF L
    <3> QED
      BY <2>2, <3>2, <3>3, <3>4, <3>5
  <2> QED
    BY <2>1, <2>2
<1> HIDE DEF p, W, f, s, L, c
<1>10. ChunkTypeOK'
  BY <1>1, <1>2, <1>4, <1>9 DEF ChunkTypeOK, ChunkerInv
<1>11. AtPage'
  BY <1>1, <1>4 DEF AtPage, p
<1>12. c.ordinal = L /\ c.page = page /\ c.first = Min(W) /\ c.last = Max(W)
  BY DEF c
<1>13. Behind'
  <2> SUFFICES ASSUME NEW k \in 1 .. Len(chunks')
               PROVE  /\ chunks'[k].page <= page
                      /\ chunks'[k].page = page =>
                          /\ chunks'[k].last \in Written(p)
                          /\ chunks'[k].last < f + (start + s) + Shared
                          /\ \A n \in Written(p) : f + (start + s) <= n => chunks'[k].first <= n
    BY <1>1, <1>4 DEF Behind, Shared, p, f
  <2>1. CASE k \in 1 .. L
    <3>1. chunks'[k] = chunks[k]
      BY <1>9, <2>1
    <3>2. /\ chunks[k].page <= page
          /\ chunks[k].page = page =>
               /\ chunks[k].last \in Written(p)
               /\ chunks[k].last < f + start + Shared
               /\ \A n \in Written(p) : f + start <= n => chunks[k].first <= n
      BY <2>1, <1>1 DEF ChunkerInv, Behind, p, f, L
    <3>3. ASSUME chunks[k].page = page
          PROVE  chunks[k].last < f + (start + s) + Shared
      <4>1. chunks[k].last \in Nat /\ chunks[k].last < f + start + Shared
        BY <3>2, <3>3, <1>3
      <4>2. start \in Nat /\ s \in Nat /\ Shared \in Nat /\ f \in Nat
        BY <1>1, <1>2, <1>3
      <4> QED
        BY <4>1, <4>2
    <3>4. ASSUME chunks[k].page = page, NEW n \in Written(p), f + (start + s) <= n
          PROVE  chunks[k].first <= n
      <4>1. f + start <= n
        BY <3>4, <1>1, <1>2, <1>3
      <4> QED
        BY <4>1, <3>2, <3>4
    <3> QED
      BY <3>1, <3>2, <3>3, <3>4
  <2>2. CASE W # {} /\ k = L + 1 /\ chunks'[k] = c
    <3>1. /\ c.page = page /\ c.first = Min(W) /\ c.last = Max(W)
          /\ Min(W) \in W /\ Max(W) \in W /\ \A x \in W : Min(W) <= x
      BY <2>2, <1>6, <1>12
    <3>2. /\ start \in Nat /\ s \in Nat /\ f \in Nat /\ size \in Int /\ size = s + Shared
          /\ Shared \in Nat
      BY <1>1, <1>2, <1>3
    <3>3. Max(W) \in Written(p) /\ Max(W) < f + start + size /\ Max(W) \in Nat
      BY <3>1, <1>3, <1>5
    <3>4. Max(W) < f + (start + s) + Shared
      BY <3>2, <3>3
    <3>5. ASSUME NEW n \in Written(p), f + (start + s) <= n PROVE Min(W) <= n
      <4>1. n \in Nat /\ Min(W) \in Nat /\ Min(W) <= Max(W) /\ f + start <= n
        BY <3>1, <3>2, <3>5, <1>3, <1>5
      <4>2. CASE n < f + start + size
        BY <4>1, <4>2, <3>1, <1>5
      <4>3. CASE ~ (n < f + start + size)
        BY <4>1, <4>3, <3>2, <3>3
      <4> QED
        BY <4>2, <4>3
    <3> QED
      BY <2>2, <3>1, <3>3, <3>4, <3>5, <1>1
  <2> QED
    BY <2>1, <2>2, <1>9
<1>14. NothingLost'
  <2> SUFFICES ASSUME NEW i \in 1 .. Len(pages), NEW n \in Written(pages[i]),
                      i < page \/ (i = page /\ n < f + (start + s))
               PROVE  \E k \in 1 .. Len(chunks') :
                          /\ chunks'[k].page = i
                          /\ chunks'[k].first <= n
                          /\ n <= chunks'[k].last
    BY <1>1, <1>4 DEF NothingLost, Passed, p, f
  <2>1. CASE i < page \/ (i = page /\ n < f + start)
    <3>1. \E k \in 1 .. L : /\ chunks[k].page = i
                             /\ chunks[k].first <= n
                             /\ n <= chunks[k].last
      BY <2>1, <1>1 DEF ChunkerInv, NothingLost, Passed, p, f, L
    <3> QED
      BY <3>1, <1>9
  <2>2. CASE i = page /\ f + start <= n /\ n < f + (start + s)
    <3>1. n \in W
      BY <2>2, <1>1, <1>2, <1>3, <1>5 DEF p
    <3>2. /\ Min(W) <= n /\ n <= Max(W)
          /\ L + 1 \in 1 .. Len(chunks') /\ chunks'[L + 1] = c
      BY <3>1, <1>1, <1>6, <1>9
    <3> QED
      BY <3>2, <2>2, <1>12
  <2>3. i = page => n \in Nat
    BY <1>3 DEF p
  <2> QED
    <3>1. i < page \/ (i = page /\ (n < f + start \/ (f + start <= n /\ n < f + (start + s))))
      BY <2>3, <1>1, <1>2, <1>3
    <3> QED
      BY <3>1, <2>1, <2>2
<1>15. ChunksAsConfigured'
  <2>1. ASSUME NEW k \in 1 .. Len(chunks')
        PROVE  /\ chunks'[k].ordinal = k - 1
               /\ chunks'[k].first <= chunks'[k].last
               /\ chunks'[k].last - chunks'[k].first < size
    <3>1. CASE k \in 1 .. L
      BY <3>1, <1>9 DEF ChunkerInv, ChunksAsConfigured, L
    <3>2. CASE W # {} /\ k = L + 1 /\ chunks'[k] = c
      BY <3>2, <1>1, <1>3, <1>5, <1>6, <1>12
    <3> QED
      BY <3>1, <3>2, <1>9
  <2>2. ASSUME NEW k \in 1 .. Len(chunks') - 1
        PROVE  \/ chunks'[k].page < chunks'[k + 1].page
               \/ /\ chunks'[k].page = chunks'[k + 1].page
                  /\ chunks'[k].first <= chunks'[k + 1].first
                  /\ chunks'[k].last <= chunks'[k + 1].last
                  /\ chunks'[k].last - chunks'[k + 1].first < IF overlap < 0 THEN 0 ELSE overlap
    <3>1. CASE k \in 1 .. L - 1
      <4>1. chunks'[k] = chunks[k] /\ chunks'[k + 1] = chunks[k + 1]
        BY <3>1, <1>1, <1>9
      <4> QED
        BY <3>1, <4>1 DEF ChunkerInv, ChunksAsConfigured, L
    <3>2. CASE W # {} /\ k = L
      <4>1. k \in 1 .. L /\ chunks'[k] = chunks[k] /\ chunks'[k + 1] = c
        BY <3>2, <1>1, <1>9
      <4>2. /\ chunks[k].page \in Nat /\ chunks[k].page <= page
            /\ chunks[k].page = page =>
                 /\ chunks[k].last \in Written(p)
                 /\ chunks[k].last < f + start + Shared
                 /\ \A n \in Written(p) : f + start <= n => chunks[k].first <= n
        BY <4>1, <1>1, ChunkFields DEF ChunkerInv, Behind, p, f, L
      <4>3. CASE chunks[k].page = page
        <5>1. chunks[k].first <= Min(W)
          BY <4>2, <4>3, <3>2, <1>5, <1>6
        <5>2. /\ chunks[k].last \in Nat /\ Min(W) \in Nat /\ Max(W) \in Nat
              /\ f + start <= Min(W) /\ f + start <= Max(W)
          BY <4>2, <4>3, <3>2, <1>3, <1>5, <1>6
        <5>3. chunks[k].last <= Max(W)
          <6>1. CASE f + start <= chunks[k].last
            <7>1. chunks[k].last < f + start + size
              BY <4>2, <4>3, <5>2, <1>1, <1>2, <1>3
            <7> QED
              BY <6>1, <7>1, <4>2, <4>3, <3>2, <1>5, <1>6
          <6>2. CASE ~ (f + start <= chunks[k].last)
            BY <6>2, <5>2, <1>1, <1>3
          <6> QED
            BY <6>1, <6>2
        <5>4. chunks[k].last - Min(W) < Shared
          BY <4>2, <4>3, <5>2, <1>1, <1>2, <1>3
        <5>5. chunks[k].last - Min(W) < (IF overlap < 0 THEN 0 ELSE overlap)
          <6>1. chunks[k].last - Min(W) \in Int
            BY <5>2
          <6>2. CASE overlap < 0
            BY <5>4, <6>1, <6>2, <1>2
          <6>3. CASE ~ (overlap < 0)
            BY <5>4, <6>1, <6>3, <1>1, <1>2
          <6> QED
            BY <6>2, <6>3
        <5> QED
          BY <5>1, <5>3, <5>5, <4>1, <4>3, <1>12
      <4>4. CASE chunks[k].page < page
        BY <4>4, <4>1, <1>12
      <4> QED
        BY <4>2, <4>3, <4>4, <1>1
    <3> QED
      BY <3>1, <3>2, <1>1, <1>9
  <2> QED
    BY <2>1, <2>2, <1>4 DEF ChunksAsConfigured
<1> QED
  BY <1>10, <1>11, <1>13, <1>14, <1>15 DEF ChunkerInv

\* The end of a page: its last position has been passed.
LEMMA ClosePageInv == ChunkerInv /\ ClosePage => ChunkerInv'
<1> SUFFICES ASSUME ChunkerInv, ClosePage PROVE ChunkerInv'
  OBVIOUS
<1> USE DEF ChunkerInv, ClosePage
<1>1. ChunkTypeOK'
  BY DEF ChunkTypeOK
<1>2. AtPage'
  BY DEF AtPage, ChunkTypeOK
<1>3. Behind'
  <2>1. page \in Nat /\ \A k \in 1 .. Len(chunks) : chunks[k].page \in Nat
    BY ChunkFields DEF ChunkTypeOK
  <2>2. \A k \in 1 .. Len(chunks) : chunks[k].page <= page
    BY DEF Behind
  <2>3. \A k \in 1 .. Len(chunks) : chunks[k].page < page + 1
    BY <2>1, <2>2
  <2> QED
    BY <2>3 DEF Behind
<1>4. ChunksAsConfigured'
  BY DEF ChunksAsConfigured
<1>5. NothingLost'
  <2> SUFFICES ASSUME NEW i \in 1 .. Len(pages), NEW n \in Written(pages[i]), Passed(i, n)'
               PROVE  Passed(i, n)
    BY NothingLostKept
  <2>1. /\ page \in Nat /\ start \in Nat
        /\ pages[page] \in Page /\ Written(pages[page]) # {}
    BY DEF ChunkTypeOK, AtPage
  <2>2. \A m \in Written(pages[page]) : m < First(pages[page]) + start
    BY <2>1, TextEnds
  <2>3. i < page + 1
    BY DEF Passed
  <2>4. i < page \/ i = page
    BY <2>1, <2>3
  <2> QED
    BY <2>2, <2>4 DEF Passed
<1> QED
  BY <1>1, <1>2, <1>3, <1>4, <1>5

\* The end of the document.
LEMMA ReturnInv == ChunkerInv /\ Return => ChunkerInv'
<1> SUFFICES ASSUME ChunkerInv, Return PROVE ChunkerInv'
  OBVIOUS
<1> USE DEF ChunkerInv, Return
<1>1. ChunkTypeOK' /\ AtPage'
  BY DEF ChunkTypeOK, AtPage
<1>2. Behind' /\ ChunksAsConfigured'
  BY DEF Behind, ChunksAsConfigured
<1>3. NothingLost'
  BY DEF NothingLost, Passed
<1> QED
  BY <1>1, <1>2, <1>3
-----------------------------------------------------------------------------
\* Every step keeps the invariant, and so does a stutter.
LEMMA ChunkerStep == ChunkerInv /\ [ChunkNext]_chunkVars => ChunkerInv'
<1> SUFFICES ASSUME ChunkerInv, [ChunkNext]_chunkVars PROVE ChunkerInv'
  OBVIOUS
<1>1. CASE ChunkNext
  BY <1>1, CallInv, NextPageInv, TakeWindowInv, ClosePageInv, ReturnInv DEF ChunkNext, Proceed
<1>2. CASE UNCHANGED chunkVars
  <2>1. ChunkTypeOK'
    BY <1>2 DEF chunkVars, ChunkerInv, ChunkTypeOK
  <2>2. AtPage'
    BY <1>2 DEF chunkVars, ChunkerInv, AtPage
  <2>3. Behind'
    BY <1>2 DEF chunkVars, ChunkerInv, Behind, Shared
  <2>4. NothingLost'
    BY <1>2 DEF chunkVars, ChunkerInv, NothingLost, Passed
  <2>5. ChunksAsConfigured'
    BY <1>2 DEF chunkVars, ChunkerInv, ChunksAsConfigured
  <2> QED
    BY <2>1, <2>2, <2>3, <2>4, <2>5 DEF ChunkerInv
<1> QED
  BY <1>1, <1>2

\* The invariant holds of every call.
LEMMA ChunkerInvariant == ChunkSpec => []ChunkerInv
<1>1. ChunkInit => ChunkerInv
  BY ChunkerInitInv
<1>2. ChunkerInv /\ [ChunkNext]_chunkVars => ChunkerInv'
  BY ChunkerStep
<1> QED
  BY <1>1, <1>2, PTL DEF ChunkSpec

\* No text of any document is lost, whatever chunk_size and chunk_overlap are.
THEOREM NoTextIsLost == ChunkSpec => []NothingLost
<1>1. ChunkerInv => NothingLost
  BY DEF ChunkerInv
<1> QED
  BY <1>1, ChunkerInvariant, PTL

\* Chunks have the configured size, and neighbours the configured overlap, at most.
THEOREM ChunksAreBounded == ChunkSpec => []ChunksAsConfigured
<1>1. ChunkerInv => ChunksAsConfigured
  BY DEF ChunkerInv
<1> QED
  BY <1>1, ChunkerInvariant, PTL
-----------------------------------------------------------------------------
(* Extractors *)

\* One row more is one place more if it is filled, and none if it is not.
LEMMA NextPlace ==
    ASSUME NEW all, NEW n \in Nat
    PROVE  /\ Place(all, n) \in Nat
           /\ Place(all, n + 1) = IF Filled(all[n + 1]) THEN Place(all, n) + 1 ELSE Place(all, n)
           /\ Place(all, 0) = 0
<1> DEFINE F(m) == {k \in 1 .. m : Filled(all[k])}
<1>1. \A m \in Nat : IsFiniteSet(F(m)) /\ Cardinality(F(m)) \in Nat
  <2> SUFFICES ASSUME NEW m \in Nat PROVE IsFiniteSet(F(m)) /\ Cardinality(F(m)) \in Nat
    OBVIOUS
  <2>1. IsFiniteSet(1 .. m)
    BY FS_Interval
  <2>2. F(m) \subseteq 1 .. m
    OBVIOUS
  <2> HIDE DEF F
  <2> QED
    BY <2>1, <2>2, FS_Subset, FS_CardinalityType
<1>2. ASSUME Filled(all[n + 1]) PROVE Place(all, n + 1) = Place(all, n) + 1
  <2>1. F(n + 1) = F(n) \cup {n + 1} /\ n + 1 \notin F(n)
    BY <1>2
  <2>2. IsFiniteSet(F(n)) /\ Place(all, n) = Cardinality(F(n))
        /\ Place(all, n + 1) = Cardinality(F(n + 1))
    BY <1>1 DEF Place
  <2> HIDE DEF F
  <2>3. Cardinality(F(n) \cup {n + 1}) = Cardinality(F(n)) + 1
    BY <2>1, <2>2, FS_AddElement
  <2> QED
    BY <2>1, <2>2, <2>3
<1>3. ASSUME ~Filled(all[n + 1]) PROVE Place(all, n + 1) = Place(all, n)
  <2>1. F(n + 1) = F(n)
    BY <1>3
  <2> QED
    BY <2>1 DEF Place
<1>4. Place(all, n) \in Nat
  BY <1>1 DEF Place
<1>5. Place(all, 0) = 0
  <2>1. F(0) = {}
    OBVIOUS
  <2>2. Place(all, 0) = Cardinality({})
    BY <2>1 DEF Place
  <2> QED
    BY <2>2, FS_EmptySet
<1> QED
  BY <1>2, <1>3, <1>4, <1>5

\* What is kept are the filled rows of the sheet, each at its place, and no other.
LEMMA KeptRows ==
    ASSUME NEW R, NEW all \in Seq(R)
    PROVE  /\ Kept(all) \in Seq(R)
           /\ Len(Kept(all)) = Place(all, Len(all))
           /\ \A m \in 1 .. Len(all) : Filled(all[m]) =>
                Place(all, m) \in 1 .. Len(Kept(all)) /\ Kept(all)[Place(all, m)] = all[m]
<1> DEFINE V == Seq(R)
           step == [p \in (1 .. Len(all)) \X V |->
                      IF Filled(all[p[1]]) THEN Append(p[2], all[p[1]]) ELSE p[2]]
           Is(f) == f = [n \in 0 .. Len(all) |->
                      IF n = 0 THEN <<>>
                      ELSE IF Filled(all[n]) THEN Append(f[n - 1], all[n]) ELSE f[n - 1]]
<1>1. step \in [(1 .. Len(all)) \X V -> V]
  OBVIOUS
<1>2. PICK f \in [0 .. Len(all) -> V] :
        f = [i \in 0 .. Len(all) |-> IF i = 0 THEN <<>> ELSE step[<<i, f[i - 1]>>]]
  <2> HIDE DEF step
  <2>1. PICK n \in Nat : n = Len(all)
    OBVIOUS
  <2>0. <<>> \in Seq(R)
    OBVIOUS
  <2>2. PICK none \in V : none = <<>>
    BY <2>0
  <2>3. PICK st \in [(1 .. n) \X V -> V] : st = step
    BY <1>1, <2>1
  <2> HIDE DEF V
  <2>4. \E f \in [0 .. n -> V] : Follows(f, n, none, st)
    BY Recursion
  <2> QED
    BY <2>1, <2>2, <2>3, <2>4 DEF Follows
<1>3. Is(f)
  <2>1. \A i \in 0 .. Len(all) : i # 0 => <<i, f[i - 1]>> \in (1 .. Len(all)) \X V
    OBVIOUS
  <2>2. \A i \in 1 .. Len(all) : step[<<i, f[i - 1]>>]
          = IF Filled(all[i]) THEN Append(f[i - 1], all[i]) ELSE f[i - 1]
    BY <2>1
  <2> HIDE DEF step, V
  <2>3. \A i \in 0 .. Len(all) : f[i] =
          IF i = 0 THEN <<>>
          ELSE IF Filled(all[i]) THEN Append(f[i - 1], all[i]) ELSE f[i - 1]
    <3> TAKE i \in 0 .. Len(all)
    <3>1. f[i] = IF i = 0 THEN <<>> ELSE step[<<i, f[i - 1]>>]
      BY <1>2
    <3> QED
      BY <2>2, <3>1
  <2> QED
    BY <2>3
<1> DEFINE k == CHOOSE g : Is(g)
<1>4. Is(k)
  <2> HIDE DEF Is
  <2> QED
    BY <1>3
<1> DEFINE Good(n) ==
             /\ k[n] \in V
             /\ Len(k[n]) = Place(all, n)
             /\ \A m \in 1 .. n : Filled(all[m]) =>
                  Place(all, m) \in 1 .. Len(k[n]) /\ k[n][Place(all, m)] = all[m]
<1>5. \A n \in 0 .. Len(all) : Good(n)
  <2> DEFINE S == {n \in Nat : n <= Len(all) => Good(n)}
  <2>0. \A n \in 0 .. Len(all) : k[n] =
          IF n = 0 THEN <<>>
          ELSE IF Filled(all[n]) THEN Append(k[n - 1], all[n]) ELSE k[n - 1]
    <3> HIDE DEF k
    <3> QED
      BY <1>4
  <2> HIDE DEF k
  <2>1. 0 \in S
    <3>1. k[0] = <<>>
      BY <2>0
    <3>2. Place(all, 0) = 0
      BY NextPlace
    <3>3. <<>> \in V /\ Len(<<>>) = 0
      OBVIOUS
    <3>4. Good(0)
      BY <3>1, <3>2, <3>3
    <3> HIDE DEF Good
    <3> QED
      BY <3>4
  <2>2. ASSUME NEW n \in Nat, n \in S PROVE n + 1 \in S
    <3> SUFFICES ASSUME n + 1 <= Len(all) PROVE Good(n + 1)
      OBVIOUS
    <3>0. Len(all) \in Nat /\ n + 1 \in 1 .. Len(all) /\ all[n + 1] \in R
      OBVIOUS
    <3>1. Good(n) /\ n + 1 \in 1 .. Len(all) /\ all[n + 1] \in R
      BY <2>2, <3>0
    <3>2. k[n + 1] = IF Filled(all[n + 1]) THEN Append(k[n], all[n + 1]) ELSE k[n]
      <4>1. n + 1 \in 0 .. Len(all) /\ n + 1 # 0 /\ (n + 1) - 1 = n
        BY <3>0
      <4> QED
        BY <2>0, <4>1
    <3>3. /\ Place(all, n) \in Nat
          /\ Place(all, n + 1) = IF Filled(all[n + 1]) THEN Place(all, n) + 1 ELSE Place(all, n)
      BY NextPlace
    <3>4. CASE ~Filled(all[n + 1])
      BY <3>1, <3>2, <3>3, <3>4
    <3>5. CASE Filled(all[n + 1])
      <4>1. k[n] \in V /\ k[n + 1] = Append(k[n], all[n + 1]) /\ Place(all, n + 1) = Place(all, n) + 1
        BY <3>1, <3>2, <3>3, <3>5
      <4>2. /\ k[n + 1] \in V /\ Len(k[n + 1]) = Place(all, n + 1)
            /\ k[n + 1][Place(all, n + 1)] = all[n + 1]
            /\ \A i \in 1 .. Len(k[n]) : i \in 1 .. Len(k[n + 1]) /\ k[n + 1][i] = k[n][i]
        BY <3>1, <3>3, <4>1
      <4>3. ASSUME NEW m \in 1 .. n + 1, Filled(all[m])
            PROVE  Place(all, m) \in 1 .. Len(k[n + 1]) /\ k[n + 1][Place(all, m)] = all[m]
        <5>1. CASE m = n + 1
          BY <3>3, <4>1, <4>2, <5>1
        <5>2. CASE m # n + 1
          <6>1. m \in 1 .. n
            BY <5>2
          <6>2. Place(all, m) \in 1 .. Len(k[n]) /\ k[n][Place(all, m)] = all[m]
            BY <3>1, <4>3, <6>1
          <6> QED
            BY <4>2, <6>2
        <5> QED
          BY <5>1, <5>2
      <4> QED
        BY <4>2, <4>3
    <3> QED
      BY <3>4, <3>5
  <2>3. Nat \subseteq S
    <3> HIDE DEF S
    <3> QED
      BY <2>1, <2>2, SetInduction
  <2> HIDE DEF Good
  <2> QED
    BY <2>3
<1>6. Kept(all) = k[Len(all)]
  BY DEF Kept
<1> HIDE DEF k
<1>7. Good(Len(all))
  BY <1>5
<1> QED
  BY <1>6, <1>7

\* html.parser is inside an element of _SKIP just when _skip_depth counts one, so that
\* what is kept of a page so far is what is shown, but for what is held.
PageInv ==
    /\ events \in Nat
    /\ cdata \in {"none"} \cup _SKIP
    /\ skipDepth = IF cdata = "none" THEN 0 ELSE 1
    /\ parts \in Seq(Nat)
    /\ held \in BOOLEAN
    /\ PageTextIsKept

\* The lines so far are the first rows, each labelled by the header.
SheetInv ==
    /\ extraction \in {"none", "html", "csv", "returned"}
    /\ sheet \in Seq(Seq(Cell))
    /\ lines \in Seq(Seq(Cell \X Cell))
    /\ extraction \in {"none", "html"} => lines = <<>>
    /\ extraction = "returned" => Len(lines) = Len(rows)
    /\ Len(lines) <= Len(rows)
    /\ \A n \in 1 .. Len(lines) :
         lines[n] = Labelled(IF n = 1 THEN <<>> ELSE rows[1], rows[n])

\* Initially nothing has been extracted.
LEMMA ExtractorInitInv == ExtractorInit => PageInv /\ SheetInv
<1> SUFFICES ASSUME ExtractorInit PROVE PageInv /\ SheetInv
  OBVIOUS
<1>1. PageInv
  <2>1. <<>> \in Seq(Nat)
    OBVIOUS
  <2> QED
    BY <2>1 DEF ExtractorInit, PageInv, PageTextIsKept
<1>2. <<>> \in Seq(Seq(Cell)) /\ <<>> \in Seq(Seq(Cell \X Cell)) /\ Len(<<>>) = 0
  OBVIOUS
<1>3. SheetInv
  <2>1. sheet \in Seq(Seq(Cell)) /\ lines = <<>>
    BY <1>2 DEF ExtractorInit
  <2>2. rows \in Seq(Seq(Cell))
    BY <2>1, KeptRows DEF rows
  <2> HIDE DEF rows
  <2> QED
    BY <1>2, <2>1, <2>2 DEF ExtractorInit, SheetInv
<1> QED
  BY <1>1, <1>3

\* Every event of the HTML parser, and no step of the CSV extractor, keeps PageInv.
LEMMA PageStep == PageInv /\ [ExtractorNext]_extractorVars => PageInv'
<1> SUFFICES ASSUME PageInv, [ExtractorNext]_extractorVars PROVE PageInv'
  OBVIOUS
<1> USE DEF PageInv, PageTextIsKept, Feed
<1>1. ASSUME NEW tag \in Tags, HandleStartTag(tag) PROVE PageInv'
  BY <1>1 DEF HandleStartTag, Tags, _SKIP
<1>2. ASSUME NEW tag \in Tags, HandleStartEndTag(tag) PROVE PageInv'
  BY <1>2 DEF HandleStartEndTag
<1>3. ASSUME NEW tag \in Tags, HandleEndTag(tag) PROVE PageInv'
  BY <1>3 DEF HandleEndTag, Tags, _SKIP
<1>4. ASSUME NEW text \in Cell, HandleData(text) PROVE PageInv'
  BY <1>4 DEF HandleData, _SKIP
<1>5. CASE HoldText
  BY <1>5 DEF HoldText
<1>6. CASE ExtractHtml \/ ExtractCsv \/ TakeRow \/ ReturnSheet \/ UNCHANGED extractorVars
  BY <1>6 DEF ExtractHtml, ExtractCsv, TakeRow, ReturnSheet, extractorVars
<1> QED
  BY <1>1, <1>2, <1>3, <1>4, <1>5, <1>6 DEF ExtractorNext

\* A row keeps its length when it is labelled, and its cells their places.
LEMMA LabelledRow ==
    ASSUME NEW header \in Seq(Cell), NEW row \in Seq(Cell)
    PROVE  /\ Labelled(header, row) \in Seq(Cell \X Cell)
           /\ Len(Labelled(header, row)) = Len(row)
           /\ \A i \in 1 .. Len(row) :
                Labelled(header, row)[i] = <<Label(header, i), row[i]>>
<1>1. \A i \in 1 .. Len(row) : Label(header, i) \in Cell /\ row[i] \in Cell
  BY DEF Label, Cell
<1> QED
  BY <1>1 DEF Labelled

\* Every row that is taken is labelled, and no other step touches the lines.
LEMMA SheetStep == SheetInv /\ [ExtractorNext]_extractorVars => SheetInv'
<1> SUFFICES ASSUME SheetInv, [ExtractorNext]_extractorVars PROVE SheetInv'
  OBVIOUS
<1>0. rows \in Seq(Seq(Cell))
  BY KeptRows DEF SheetInv, rows
<1>1. CASE ExtractCsv
  <2>1. sheet' \in Seq(Seq(Cell)) /\ lines' = <<>> /\ extraction' = "csv"
    BY <1>1, ExtractorConstants DEF ExtractCsv, SheetInv
  <2>2. rows' \in Seq(Seq(Cell))
    <3>1. PICK all \in Seq(Seq(Cell)) : all = sheet'
      BY <2>1
    <3>2. Kept(all) \in Seq(Seq(Cell))
      BY KeptRows
    <3> QED
      BY <3>1, <3>2 DEF rows
  <2>3. Len(rows') \in Nat /\ Len(lines') = 0 /\ <<>> \in Seq(Seq(Cell \X Cell))
    BY <2>1, <2>2
  <2> QED
    BY <2>1, <2>3 DEF SheetInv
<1>2. CASE TakeRow
  <2> DEFINE n == Len(lines) + 1
             header == IF lines = <<>> THEN <<>> ELSE rows[1]
             line == Labelled(header, rows[n])
  <2>1. /\ lines \in Seq(Seq(Cell \X Cell)) /\ sheet' \in Seq(Seq(Cell))
        /\ n \in 1 .. Len(rows) /\ lines' = Append(lines, line)
        /\ extraction = "csv" /\ extraction' = "csv"
    BY <1>0, <1>2 DEF TakeRow, SheetInv
  <2>0. rows' = rows
    BY <1>2 DEF TakeRow, rows
  <2>2. header \in Seq(Cell) /\ rows[n] \in Seq(Cell)
    <3>1. <<>> \in Seq(Cell) /\ 1 \in 1 .. Len(rows)
      BY <1>0, <2>1
    <3> QED
      BY <1>0, <2>1, <3>1
  <2>3. line \in Seq(Cell \X Cell)
    <3> HIDE DEF header
    <3> QED
      BY <2>2, LabelledRow
  <2>4. header = IF n = 1 THEN <<>> ELSE rows[1]
    BY <2>1
  <2>5. ASSUME NEW i \in 1 .. Len(lines')
        PROVE  lines'[i] = Labelled(IF i = 1 THEN <<>> ELSE rows[1], rows[i])
    <3>1. CASE i = n
      <4> HIDE DEF line
      <4>1. lines'[i] = line
        BY <2>1, <2>3, <3>1
      <4> QED
        BY <2>4, <3>1, <4>1 DEF line
    <3>2. CASE i # n
      <4> HIDE DEF line
      <4> QED
        BY <2>1, <2>3, <3>2 DEF SheetInv
    <3> QED
      BY <3>1, <3>2
  <2> HIDE DEF line
  <2>6. lines' \in Seq(Seq(Cell \X Cell)) /\ Len(lines') = n
    BY <2>1, <2>3
  <2> QED
    BY <1>0, <2>0, <2>1, <2>5, <2>6 DEF SheetInv
<1>3. CASE ReturnSheet
  <2>1. rows' = rows /\ UNCHANGED <<sheet, lines>> /\ extraction' = "returned"
        /\ Len(lines) = Len(rows)
    BY <1>3 DEF ReturnSheet, rows
  <2> QED
    BY <2>1 DEF SheetInv
<1>4. CASE UNCHANGED <<sheet, lines>> /\ extraction' \in {extraction, "html"}
           /\ (extraction' # extraction => extraction = "none")
  <2>1. rows' = rows
    BY <1>4 DEF rows
  <2> QED
    BY <1>4, <2>1 DEF SheetInv
<1> QED
  BY <1>1, <1>2, <1>3, <1>4
  DEF ExtractorNext, ExtractHtml, HandleStartTag, HandleStartEndTag, HandleEndTag,
      HandleData, HoldText, Feed, extractorVars

\* Lines that are the labelled rows have lost no cell of the sheet, and their labels
\* are the values of the first of them.
LEMMA SheetIsWhole == SheetInv => SheetIsKept
<1> SUFFICES ASSUME SheetInv PROVE SheetIsKept
  OBVIOUS
<1>1. /\ rows \in Seq(Seq(Cell)) /\ Len(rows) = Place(sheet, Len(sheet))
      /\ \A m \in 1 .. Len(sheet) : Filled(sheet[m]) =>
           Place(sheet, m) \in 1 .. Len(rows) /\ rows[Place(sheet, m)] = sheet[m]
  BY KeptRows DEF SheetInv, rows
<1>2. ASSUME NEW n \in 1 .. Len(lines)
      PROVE  /\ Len(lines[n]) = Len(rows[n])
             /\ \A i \in 1 .. Len(rows[n]) :
                  lines[n][i] = <<IF n > 1 /\ i <= Len(rows[1]) THEN rows[1][i] ELSE Blank,
                                  rows[n][i]>>
  <2>1. 1 \in 1 .. Len(rows) /\ n \in 1 .. Len(rows)
    BY <1>1 DEF SheetInv
  <2>2. rows[1] \in Seq(Cell) /\ rows[n] \in Seq(Cell) /\ <<>> \in Seq(Cell)
    BY <1>1, <2>1
  <2>3. PICK header \in Seq(Cell) : header = IF n = 1 THEN <<>> ELSE rows[1]
    BY <2>2
  <2>4. PICK row \in Seq(Cell) : row = rows[n]
    BY <2>2
  <2>5. lines[n] = Labelled(header, row)
    BY <2>3, <2>4 DEF SheetInv
  <2>6. /\ Len(lines[n]) = Len(rows[n])
        /\ \A i \in 1 .. Len(rows[n]) : lines[n][i] = <<Label(header, i), rows[n][i]>>
    <3>1. /\ Len(Labelled(header, row)) = Len(row)
          /\ \A i \in 1 .. Len(row) : Labelled(header, row)[i] = <<Label(header, i), row[i]>>
      BY LabelledRow
    <3> HIDE DEF SheetInv
    <3> QED
      BY <2>4, <2>5, <3>1
  <2>7. \A i \in 1 .. Len(rows[n]) :
          Label(header, i) = IF n > 1 /\ i <= Len(rows[1]) THEN rows[1][i] ELSE Blank
    BY <2>2, <2>3 DEF Label
  <2> QED
    BY <2>6, <2>7
<1>3. ASSUME NEW m \in 1 .. Len(sheet), Filled(sheet[m]), Place(sheet, m) <= Len(lines)
      PROVE  /\ Len(lines[Place(sheet, m)]) = Len(sheet[m])
             /\ \A i \in 1 .. Len(sheet[m]) : lines[Place(sheet, m)][i][2] = sheet[m][i]
  <2>1. Place(sheet, m) \in 1 .. Len(rows) /\ rows[Place(sheet, m)] = sheet[m]
    BY <1>1, <1>3
  <2>2. Place(sheet, m) \in 1 .. Len(lines)
    BY <1>3, <2>1 DEF SheetInv
  <2> QED
    BY <1>2, <2>1, <2>2
<1>4. ASSUME NEW n \in 1 .. Len(lines), NEW i \in 1 .. Len(lines[n])
      PROVE  lines[n][i][1] = IF n > 1 /\ i <= Len(lines[1]) THEN lines[1][i][2] ELSE Blank
  <2>1. 1 \in 1 .. Len(lines)
    BY DEF SheetInv
  <2>2. /\ Len(lines[1]) = Len(rows[1])
        /\ \A j \in 1 .. Len(rows[1]) : lines[1][j][2] = rows[1][j]
    BY <1>2, <2>1
  <2>3. Len(rows[1]) \in Nat /\ Len(rows[n]) \in Nat
    BY <1>1, <2>1 DEF SheetInv
  <2>4. i \in 1 .. Len(rows[n]) /\ i \in Nat \ {0}
    BY <1>2, <1>4, <2>3
  <2>5. lines[n][i][1] = IF n > 1 /\ i <= Len(rows[1]) THEN rows[1][i] ELSE Blank
    BY <1>2, <2>4
  <2>6. i <= Len(rows[1]) => lines[1][i][2] = rows[1][i]
    BY <2>2, <2>3, <2>4
  <2> QED
    BY <2>2, <2>5, <2>6
<1>5. extraction = "returned" => Len(lines) = Place(sheet, Len(sheet))
  BY <1>1 DEF SheetInv
<1> QED
  BY <1>3, <1>4, <1>5 DEF SheetIsKept

\* The extractors keep their invariants.
LEMMA ExtractorInvariant == ExtractorSpec => [](PageInv /\ SheetInv)
<1>1. PageInv /\ SheetInv /\ [ExtractorNext]_extractorVars => (PageInv /\ SheetInv)'
  BY PageStep, SheetStep
<1> QED
  BY <1>1, ExtractorInitInv, PTL DEF ExtractorSpec

\* The text of a page is what is shown of it: whatever tags it has, in whatever
\* order, _HTMLTextExtractor keeps all the text outside of script and style and
\* none of theirs, but for what html.parser holds at its end.
THEOREM PagesAreKept == ExtractorSpec => []PageTextIsKept
<1>1. PageInv => PageTextIsKept
  BY DEF PageInv
<1> QED
  BY <1>1, ExtractorInvariant, PTL

\* Whatever the sheet, _extract_csv loses no cell of a row that has any text in it,
\* keeps the order of the rows, and labels a value just by what the header has at
\* its place.
THEOREM SheetsAreKept == ExtractorSpec => []SheetIsKept
BY SheetIsWhole, ExtractorInvariant, PTL
-----------------------------------------------------------------------------
(* Fetching *)

\* What is being fetched is a URL of a request, and what has been fetched has the
\* name that _resolve_filename gave it.
FetchInv ==
    /\ ingest \in {"fetch", "created"} => url \in Urls
    /\ ingest = "created" =>
         /\ document.type \in ContentTypes
         /\ Resolvable(url, document.type)
         /\ document.name = _resolve_filename(url, document.type)

\* No step of an upload or a fetch breaks FetchInv.
LEMMA UrlStep == FetchInv /\ [UrlNext]_urlVars => FetchInv'
<1> SUFFICES ASSUME FetchInv, [UrlNext]_urlVars PROVE FetchInv'
  OBVIOUS
<1> USE DEF FetchInv
<1>1. ASSUME NEW u \in Urls, NEW member \in BOOLEAN, IngestFromUrl(u, member) PROVE FetchInv'
  BY <1>1 DEF IngestFromUrl
<1>2. CASE FetchFails
  BY <1>2 DEF FetchFails
<1>3. ASSUME NEW type \in ContentTypes, NEW size_ \in 0 .. MaxUpload + 1, FetchUrl(type, size_)
      PROVE  FetchInv'
  BY <1>3 DEF FetchUrl
<1>4. ASSUME NEW name \in Names, NEW size_ \in 0 .. MaxUpload + 1, NEW member \in BOOLEAN,
             UploadDocument(name, size_, member)
      PROVE  FetchInv'
  BY <1>4 DEF UploadDocument
<1>5. CASE Extract
  BY <1>5 DEF Extract
<1>6. CASE UNCHANGED urlVars
  BY <1>6 DEF urlVars
<1> QED
  BY <1>1, <1>2, <1>3, <1>4, <1>5, <1>6 DEF UrlNext

\* A name that can be resolved resolves to one with an extractor: the right one if
\* it is made up.
LEMMA Resolved ==
    ASSUME NEW u \in Urls, NEW type \in ContentTypes, Resolvable(u, type)
    PROVE  /\ Supported(_resolve_filename(u, type))
           /\ u.override = NoName /\ ~Supported(u.base) =>
                (type \in {"html", "xhtml"} <=>
                   Extractor[_resolve_filename(u, type).ext] = "html")
<1>1. CASE u.override # NoName \/ Supported(u.base)
  BY <1>1 DEF Resolvable, _resolve_filename
<1>2. CASE u.override = NoName /\ ~Supported(u.base)
  <2>1. type \in DOMAIN _CONTENT_TYPE_EXT
    BY <1>2 DEF Resolvable
  <2>2. _resolve_filename(u, type).ext = _CONTENT_TYPE_EXT[type]
    BY <1>2 DEF _resolve_filename, MappedExt
  <2>3. type \in {"html", "xhtml", "plain", "markdown", "csv", "pdf", "docx"}
    BY <2>1 DEF _CONTENT_TYPE_EXT
  <2>4. /\ _CONTENT_TYPE_EXT[type] \in DOMAIN Extractor
        /\ Extractor[_CONTENT_TYPE_EXT[type]] = "html" <=> type \in {"html", "xhtml"}
    BY <2>3 DEF _CONTENT_TYPE_EXT, Extractor
  <2> QED
    BY <1>2, <2>2, <2>4 DEF Supported, SUPPORTED_EXTENSIONS
<1> QED
  BY <1>1, <1>2

\* Whatever the URL, the name asked for and the content type are, and whatever
\* the bounds on uploads, a document that fetch_url creates has an extractor.
THEOREM FetchesAreExtractable == UrlSpec => []FetchedIsExtractable
<1>1. UrlInit => FetchInv
  BY DEF UrlInit, FetchInv
<1>2. FetchInv => FetchedIsExtractable
  BY Resolved DEF FetchInv, FetchedIsExtractable
<1> QED
  BY <1>1, <1>2, UrlStep, PTL DEF UrlSpec
-----------------------------------------------------------------------------
(* Orders *)

\* A ranking: a sequence of elements of S, none of which is there twice.
Ranking(s, S) ==
    /\ s \in Seq(S)
    /\ \A i, j \in 1 .. Len(s) : s[i] = s[j] => i = j

\* A strict total order on S, and a strict weak one, as sets of pairs.
TotalOrder(R, S) ==
    /\ \A c \in S : <<c, c>> \notin R
    /\ \A c, d, e \in S : <<c, d>> \in R /\ <<d, e>> \in R => <<c, e>> \in R
    /\ \A c, d \in S : c = d \/ <<c, d>> \in R \/ <<d, c>> \in R

WeakOrder(R, S) ==
    /\ \A c, d \in S : <<c, d>> \in R => <<d, c>> \notin R
    /\ \A c, d, e \in S : <<c, e>> \in R => <<c, d>> \in R \/ <<d, e>> \in R

\* A finite set that is totally ordered can be arranged: every element of it is in the
\* sequence, once, and one that is before another comes before it.
LEMMA ArrangedInOrder ==
    ASSUME NEW S, IsFiniteSet(S), NEW R, TotalOrder(R, S)
    PROVE  /\ Ranking(Arranged(S, R), S)
           /\ Elements(Arranged(S, R)) = S
           /\ Len(Arranged(S, R)) = Cardinality(S)
           /\ \A i, j \in 1 .. Len(Arranged(S, R)) :
                i < j => <<Arranged(S, R)[i], Arranged(S, R)[j]>> \in R
<1> DEFINE n == Cardinality(S)
           Below(c) == {d \in S : <<d, c>> \in R}
           r == [c \in S |-> Cardinality(Below(c))]
           A == Arranged(S, R)
<1>1. n \in Nat
  BY FS_CardinalityType
<1>2. ASSUME NEW c \in S PROVE IsFiniteSet(Below(c)) /\ r[c] \in 0 .. n - 1
  <2>1. Below(c) \in SUBSET (S \ {c})
    BY DEF TotalOrder
  <2>2. IsFiniteSet(S \ {c}) /\ Cardinality(S \ {c}) = n - 1
    BY FS_RemoveElement
  <2>3. IsFiniteSet(Below(c)) /\ Cardinality(Below(c)) <= n - 1
    <3> HIDE DEF Below
    <3> QED
      BY <2>1, <2>2, FS_Subset
  <2>4. Cardinality(Below(c)) \in Nat
    <3> HIDE DEF Below
    <3> QED
      BY <2>3, FS_CardinalityType
  <2> QED
    BY <1>1, <2>3, <2>4
<1>3. ASSUME NEW c \in S, NEW d \in S, <<c, d>> \in R PROVE r[c] < r[d]
  <2>1. Below(c) \in SUBSET Below(d) /\ c \in Below(d) /\ c \notin Below(c)
    BY <1>3 DEF TotalOrder
  <2>2. Below(c) # Below(d) /\ IsFiniteSet(Below(c)) /\ IsFiniteSet(Below(d))
    BY <2>1, <1>2
  <2>3. Cardinality(Below(c)) <= Cardinality(Below(d))
        /\ Cardinality(Below(c)) # Cardinality(Below(d))
    <3> HIDE DEF Below
    <3> QED
      BY <2>1, <2>2, FS_Subset
  <2>4. Cardinality(Below(c)) \in Nat /\ Cardinality(Below(d)) \in Nat
    <3> HIDE DEF Below
    <3> QED
      BY <2>2, FS_CardinalityType
  <2> QED
    BY <2>3, <2>4
<1>4. ASSUME NEW c \in S, NEW d \in S, r[c] = r[d] PROVE c = d
  <2>1. r[c] \in Nat /\ r[d] \in Nat
    BY <1>1, <1>2
  <2>2. ~ (<<c, d>> \in R) /\ ~ (<<d, c>> \in R)
    <3> HIDE DEF r
    <3> QED
      BY <1>3, <1>4, <2>1
  <2> QED
    BY <2>2 DEF TotalOrder
<1>5. \A i \in 0 .. n - 1 : \E c \in S : r[c] = i
  <2>1. r \in [S -> 0 .. n - 1]
    BY <1>2
  <2>2. r \in Injection(S, 0 .. n - 1)
    <3> HIDE DEF r
    <3> QED
      BY <1>4, <2>1 DEF Injection, IsInjective
  <2>3. IsFiniteSet(0 .. n - 1) /\ Cardinality(0 .. n - 1) = n
    BY <1>1, FS_Interval
  <2>4. r \in Surjection(S, 0 .. n - 1)
    <3> HIDE DEF r
    <3> QED
      BY <2>2, <2>3, FS_Injection
  <2> QED
    <3> HIDE DEF r
    <3> QED
      BY <2>4 DEF Surjection
<1>6. A = [i \in 1 .. n |-> CHOOSE c \in S : Cardinality(Below(c)) = i - 1]
  BY DEF Arranged
<1>7. ASSUME NEW i \in 1 .. n PROVE A[i] \in S /\ r[A[i]] = i - 1
  <2>1. \E c \in S : Cardinality(Below(c)) = i - 1
    <3>1. i - 1 \in 0 .. n - 1
      BY <1>1
    <3> HIDE DEF Below
    <3> QED
      BY <1>5, <3>1
  <2>2. A[i] \in S /\ Cardinality(Below(A[i])) = i - 1
    <3> HIDE DEF A, Below
    <3> QED
      BY <1>6, <2>1
  <2> HIDE DEF A, Below
  <2> QED
    BY <2>2
<1> HIDE DEF A, Below, r
<1>8. A \in Seq(S) /\ Len(A) = n
  <2>1. A \in [1 .. n -> S]
    BY <1>6, <1>7
  <2> QED
    BY <1>1, <2>1
<1>9. ASSUME NEW i \in 1 .. n, NEW j \in 1 .. n, A[i] = A[j] PROVE i = j
  BY <1>1, <1>7, <1>9
<1>10. ASSUME NEW i \in 1 .. n, NEW j \in 1 .. n, i < j PROVE <<A[i], A[j]>> \in R
  <2>1. A[i] \in S /\ A[j] \in S /\ r[A[i]] = i - 1 /\ r[A[j]] = j - 1
    BY <1>7
  <2>2. A[i] # A[j] /\ ~ (r[A[j]] < r[A[i]])
    BY <1>1, <1>10, <2>1
  <2> QED
    BY <1>3, <2>1, <2>2 DEF TotalOrder
<1>11. ASSUME NEW c \in S PROVE \E i \in 1 .. n : A[i] = c
  <2>1. r[c] + 1 \in 1 .. n /\ r[c] \in Nat
    BY <1>1, <1>2
  <2>2. A[r[c] + 1] \in S /\ r[A[r[c] + 1]] = r[c]
    BY <1>7, <2>1
  <2>3. A[r[c] + 1] = c
    BY <1>4, <2>2
  <2> QED
    BY <2>1, <2>3
<1>12. Elements(A) = S
  BY <1>7, <1>8, <1>11 DEF Elements
<1> QED
  BY <1>8, <1>9, <1>10, <1>12 DEF A, Ranking

\* What a sort returns: the elements it was given, each once, and none behind one
\* that is worse.
LEMMA SortedInOrder ==
    ASSUME NEW S, IsFiniteSet(S), NEW better, WeakOrder(better, S),
           NEW place, \A c \in S : place[c] \in Nat,
           \A c, d \in S : place[c] = place[d] => c = d
    PROVE  /\ Ranking(Sorted(S, better, place), S)
           /\ Elements(Sorted(S, better, place)) = S
           /\ Len(Sorted(S, better, place)) = Cardinality(S)
           /\ \A i, j \in 1 .. Len(Sorted(S, better, place)) :
                i < j => <<Sorted(S, better, place)[j], Sorted(S, better, place)[i]>> \notin better
<1> DEFINE R == {p \in S \X S :
                   \/ p \in better
                   \/ <<p[2], p[1]>> \notin better /\ place[p[1]] < place[p[2]]}
<1>1. \A c, d \in S : <<c, d>> \in R <=>
         \/ <<c, d>> \in better
         \/ <<d, c>> \notin better /\ place[c] < place[d]
  OBVIOUS
<1>2. Sorted(S, better, place) = Arranged(S, R)
  BY DEF Sorted
<1> HIDE DEF R
<1>3. TotalOrder(R, S)
  <2>1. ASSUME NEW c \in S PROVE <<c, c>> \notin R
    BY <1>1 DEF WeakOrder
  <2>2. ASSUME NEW c \in S, NEW d \in S, NEW e \in S, <<c, d>> \in R, <<d, e>> \in R
        PROVE  <<c, e>> \in R
    <3>1. CASE <<c, d>> \in better \/ <<d, e>> \in better
      BY <1>1, <2>2, <3>1 DEF WeakOrder
    <3>2. CASE <<c, d>> \notin better /\ <<d, e>> \notin better
      <4>1. place[c] < place[d] /\ place[d] < place[e]
            /\ <<d, c>> \notin better /\ <<e, d>> \notin better
        BY <1>1, <2>2, <3>2
      <4>2. <<e, c>> \notin better /\ place[c] < place[e]
        BY <4>1 DEF WeakOrder
      <4> QED
        BY <1>1, <4>2
    <3> QED
      BY <3>1, <3>2
  <2>3. ASSUME NEW c \in S, NEW d \in S PROVE c = d \/ <<c, d>> \in R \/ <<d, c>> \in R
    BY <1>1
  <2> QED
    BY <2>1, <2>2, <2>3 DEF TotalOrder
<1> DEFINE A == Arranged(S, R)
<1>4. /\ Ranking(A, S) /\ Elements(A) = S /\ Len(A) = Cardinality(S)
      /\ \A i, j \in 1 .. Len(A) : i < j => <<A[i], A[j]>> \in R
  BY <1>3, ArrangedInOrder
<1> HIDE DEF A
<1>5. ASSUME NEW i \in 1 .. Len(A), NEW j \in 1 .. Len(A), i < j
      PROVE  <<A[j], A[i]>> \notin better
  <2>1. A[i] \in S /\ A[j] \in S /\ <<A[i], A[j]>> \in R
    BY <1>4, <1>5 DEF Ranking
  <2> QED
    BY <1>1, <2>1 DEF WeakOrder
<1> QED
  BY <1>2, <1>4, <1>5 DEF A

\* The rank of a chunk is where it is.
LEMMA RankIs ==
    ASSUME NEW S, NEW s, Ranking(s, S), NEW c \in Elements(s)
    PROVE  /\ Rank(s, c) \in 1 .. Len(s) /\ s[Rank(s, c)] = c
           /\ c \in S
           /\ Len(s) \in Nat
<1>1. \E i \in 1 .. Len(s) : s[i] = c
  BY DEF Elements
<1>2. Rank(s, c) \in 1 .. Len(s) /\ s[Rank(s, c)] = c
  BY <1>1 DEF Rank
<1> QED
  BY <1>2 DEF Ranking

\* A ranking that is cut is a ranking, of the first.
LEMMA CutIs ==
    ASSUME NEW S, NEW s, Ranking(s, S), NEW n \in Nat
    PROVE  /\ Ranking(Cut(s, n), S)
           /\ Len(Cut(s, n)) = IF n < Len(s) THEN n ELSE Len(s)
           /\ \A i \in 1 .. Len(Cut(s, n)) : i \in 1 .. Len(s) /\ Cut(s, n)[i] = s[i]
<1> DEFINE m == IF n < Len(s) THEN n ELSE Len(s)
<1>1. s \in Seq(S) /\ Len(s) \in Nat /\ m \in 0 .. Len(s)
  BY DEF Ranking
<1>2. Cut(s, n) = SubSeq(s, 1, m)
  BY DEF Cut
<1> HIDE DEF m
<1>3. Cut(s, n) \in Seq(S) /\ Len(Cut(s, n)) = m /\ \A i \in 1 .. m : Cut(s, n)[i] = s[i]
  BY <1>1, <1>2
<1> QED
  BY <1>1, <1>3 DEF Ranking, m

\* What a search may return is a ranking.
LEMMA RankingsRank ==
    ASSUME NEW n \in Nat, NEW s \in Rankings(n)
    PROVE  Ranking(s, Chunks) /\ Len(s) <= n
<1>1. Cardinality(Chunks) \in Nat
  BY RetrievalConstants, FS_CardinalityType
<1>2. PICK k \in 0 .. (IF n < Cardinality(Chunks) THEN n ELSE Cardinality(Chunks)) :
        s \in [1 .. k -> Chunks] /\ Cardinality(Elements(s)) = Len(s)
  BY DEF Rankings
<1>3. k \in Nat /\ k <= n /\ Len(s) = k /\ s \in Seq(Chunks)
  BY <1>1, <1>2
<1>4. s \in Surjection(1 .. k, Elements(s))
  BY <1>2, <1>3 DEF Elements, Surjection
<1>5. IsFiniteSet(1 .. k) /\ Cardinality(1 .. k) = k
  BY <1>3, FS_Interval
<1>6. s \in Injection(1 .. k, Elements(s))
  BY <1>2, <1>3, <1>4, <1>5, FS_Surjection
<1> QED
  BY <1>3, <1>6 DEF Ranking, Injection, IsInjective
-----------------------------------------------------------------------------
(* Scores *)

Fractions == [num : Nat, den : Nat \ {0}]

\* What is at most another stays so when both are multiplied.
LEMMA Multiplied ==
    ASSUME NEW a \in Nat, NEW b \in Nat, NEW d \in Nat, a <= b
    PROVE  a * d <= b * d
<1>1. PICK e \in Nat : b = a + e
  <2>1. b - a \in Nat /\ b = a + (b - a)
    OBVIOUS
  <2> QED
    BY <2>1
<1>2. (a + e) * d = a * d + e * d
  OBVIOUS
<1>3. a * d \in Nat /\ e * d \in Nat
  OBVIOUS
<1> QED
  BY <1>1, <1>2, <1>3

\* And so when both are divided.
LEMMA Divided ==
    ASSUME NEW a \in Nat, NEW b \in Nat, NEW d \in Nat \ {0}, a * d <= b * d
    PROVE  a <= b
<1> SUFFICES ASSUME a > b PROVE FALSE
  OBVIOUS
<1>1. PICK e \in Nat : e > 0 /\ a = b + e
  <2>1. a - b \in Nat /\ a - b > 0 /\ a = b + (a - b)
    OBVIOUS
  <2> QED
    BY <2>1
<1>2. (b + e) * d = b * d + e * d
  OBVIOUS
<1>3. e * d > 0 /\ b * d \in Nat /\ e * d \in Nat
  BY <1>1
<1> QED
  BY <1>1, <1>2, <1>3

\* Fractions are compared as their values are.
LEMMA GreaterIsWeak ==
    ASSUME NEW x \in Fractions, NEW y \in Fractions, NEW z \in Fractions
    PROVE  /\ Greater(x, y) => ~Greater(y, x)
           /\ Greater(x, z) => Greater(x, y) \/ Greater(y, z)
<1>1. /\ x.num \in Nat /\ y.num \in Nat /\ z.num \in Nat
      /\ x.den \in Nat \ {0} /\ y.den \in Nat \ {0} /\ z.den \in Nat \ {0}
  BY DEF Fractions
<1>2. \A a, b \in Nat : a * b \in Nat
  OBVIOUS
<1>3. Greater(x, y) => ~Greater(y, x)
  BY <1>1, <1>2 DEF Greater
<1>4. ASSUME ~Greater(x, y), ~Greater(y, z) PROVE ~Greater(x, z)
  <2> DEFINE a == x.num * z.den
             b == z.num * x.den
             d == y.den
  <2>1. x.num * y.den <= y.num * x.den /\ y.num * z.den <= z.num * y.den
    BY <1>1, <1>2, <1>4 DEF Greater
  <2>2. (x.num * y.den) * z.den <= (y.num * x.den) * z.den
    BY <1>1, <1>2, <2>1, Multiplied
  <2>3. (y.num * z.den) * x.den <= (z.num * y.den) * x.den
    BY <1>1, <1>2, <2>1, Multiplied
  <2>4. /\ (x.num * y.den) * z.den = a * d
        /\ (y.num * x.den) * z.den = (y.num * z.den) * x.den
        /\ (z.num * y.den) * x.den = b * d
    BY <1>1
  <2>5. a \in Nat /\ b \in Nat /\ a * d \in Nat /\ b * d \in Nat
    BY <1>1, <1>2
  <2>6. a * d <= b * d
    <3> HIDE DEF a, b, d
    <3> QED
      BY <1>1, <2>2, <2>3, <2>4, <2>5
  <2>7. a <= b
    <3>1. d \in Nat \ {0}
      BY <1>1
    <3> HIDE DEF a, b, d
    <3> QED
      BY <2>5, <2>6, <3>1, Divided
  <2> QED
    BY <2>5, <2>7 DEF Greater
<1> QED
  BY <1>3, <1>4

\* The part of a score that a ranking gives.
LEMMA ShareIs ==
    ASSUME NEW s, Ranking(s, Chunks), NEW c
    PROVE  /\ Share(s, c) \in Fractions
           /\ c \in Elements(s) => Share(s, c).num = 1 /\ Share(s, c).den \in 61 .. 60 + Len(s)
           /\ c \notin Elements(s) => Share(s, c).num = 0 /\ Share(s, c).den = 1
<1>1. c \in Elements(s) => Rank(s, c) \in 1 .. Len(s) /\ Len(s) \in Nat
  BY RankIs
<1> QED
  BY <1>1 DEF Share, Fractions, RRF_K

\* A score is a fraction.
LEMMA ScoreIs ==
    ASSUME Ranking(dense, Chunks), Ranking(keyword, Chunks), NEW c
    PROVE  Score(c) \in Fractions
<1>1. Share(dense, c) \in Fractions /\ Share(keyword, c) \in Fractions
  BY ShareIs
<1>2. ASSUME NEW x \in Fractions, NEW y \in Fractions PROVE Add(x, y) \in Fractions
  <2>1. /\ x.num \in Nat /\ x.den \in Nat \ {0} /\ y.num \in Nat /\ y.den \in Nat \ {0}
    BY DEF Fractions
  <2>2. /\ x.num * y.den \in Nat /\ y.num * x.den \in Nat /\ x.den * y.den \in Nat
        /\ x.den * y.den # 0
    BY <2>1
  <2>3. x.num * y.den + y.num * x.den \in Nat
    BY <2>2
  <2> QED
    BY <2>2, <2>3 DEF Add, Fractions
<1> QED
  BY <1>1, <1>2 DEF Score

\* The three keys sort chunks whatever their scores and terms are.
LEMMA KeysAreWeak ==
    ASSUME Ranking(dense, Chunks), Ranking(keyword, Chunks),
           matches \in [Chunks -> Nat], NEW S, S \subseteq Chunks
    PROVE  /\ WeakOrder(MoreTerms, S)
           /\ WeakOrder(HigherScore, S)
           /\ WeakOrder(Outranks, S)
<1>1. \A c, d \in S : <<c, d>> \in MoreTerms <=> matches[c] > matches[d]
  BY DEF MoreTerms
<1>2. \A c, d \in S : <<c, d>> \in HigherScore <=> Greater(Score(c), Score(d))
  BY DEF HigherScore
<1>3. \A c, d \in S : <<c, d>> \in Outranks <=>
         <<c, d>> \in MoreTerms \/ (<<c, d>> \in HigherScore /\ matches[c] = matches[d])
  BY DEF Outranks
<1>4. \A c \in S : matches[c] \in Nat
  OBVIOUS
<1>5. \A c, d, e \in S :
         /\ Greater(Score(c), Score(d)) => ~Greater(Score(d), Score(c))
         /\ Greater(Score(c), Score(e)) =>
              Greater(Score(c), Score(d)) \/ Greater(Score(d), Score(e))
  BY ScoreIs, GreaterIsWeak
<1>6. WeakOrder(MoreTerms, S)
  BY <1>1, <1>4 DEF WeakOrder
<1>7. WeakOrder(HigherScore, S)
  BY <1>2, <1>5 DEF WeakOrder
<1>8. WeakOrder(Outranks, S)
  <2>1. ASSUME NEW c \in S, NEW d \in S, <<c, d>> \in Outranks PROVE <<d, c>> \notin Outranks
    BY <1>1, <1>2, <1>3, <1>4, <1>5, <2>1
  <2>2. ASSUME NEW c \in S, NEW d \in S, NEW e \in S, <<c, e>> \in Outranks
        PROVE  <<c, d>> \in Outranks \/ <<d, e>> \in Outranks
    BY <1>1, <1>2, <1>3, <1>4, <1>5, <2>2
  <2> QED
    BY <2>1, <2>2 DEF WeakOrder
<1> QED
  BY <1>6, <1>7, <1>8

\* What both rankings have scores higher than what only one of them has, while
\* neither is longer than 61.
LEMMA BothScoreHigher ==
    ASSUME Ranking(dense, Chunks), Ranking(keyword, Chunks),
           Len(dense) <= 61, Len(keyword) <= 61,
           NEW c \in Elements(dense) \cap Elements(keyword),
           NEW d \in Found, d \notin Elements(dense) \cap Elements(keyword)
    PROVE  Greater(Score(c), Score(d))
<1>1. PICK x \in 61 .. 121, y \in 61 .. 121 :
        Share(dense, c) = [num |-> 1, den |-> x] /\ Share(keyword, c) = [num |-> 1, den |-> y]
  <2>1. Len(dense) \in Nat /\ Len(keyword) \in Nat
    BY DEF Ranking
  <2>2. /\ Share(dense, c).den \in 61 .. 121 /\ Share(keyword, c).den \in 61 .. 121
        /\ Share(dense, c).num = 1 /\ Share(keyword, c).num = 1
    <3>1. /\ Share(dense, c).num = 1 /\ Share(dense, c).den \in 61 .. 60 + Len(dense)
          /\ Share(keyword, c).num = 1 /\ Share(keyword, c).den \in 61 .. 60 + Len(keyword)
      BY ShareIs
    <3>2. \A n \in Nat : n <= 61 => 61 .. 60 + n \subseteq 61 .. 121
      OBVIOUS
    <3> QED
      BY <2>1, <3>1, <3>2
  <2>3. /\ Share(dense, c) = [num |-> 1, den |-> Share(dense, c).den]
        /\ Share(keyword, c) = [num |-> 1, den |-> Share(keyword, c).den]
    BY <2>2, ShareIs DEF Fractions
  <2> QED
    BY <2>2, <2>3
<1>2. PICK z \in Nat : /\ z >= 61
                       /\ Score(d) = [num |-> 1, den |-> z]
  <2>1. Len(dense) \in Nat /\ Len(keyword) \in Nat
    BY DEF Ranking
  <2>2. CASE d \in Elements(dense) /\ d \notin Elements(keyword)
    <3>1. PICK z \in Nat : z >= 61 /\ Share(dense, d) = [num |-> 1, den |-> z]
      BY <2>1, <2>2, ShareIs DEF Fractions
    <3>2. Share(keyword, d) = [num |-> 0, den |-> 1]
      BY <2>2 DEF Share
    <3>3. 1 * 1 + 0 * z = 1 /\ z * 1 = z
      BY <3>1
    <3> QED
      BY <3>1, <3>2, <3>3 DEF Score, Add
  <2>3. CASE d \notin Elements(dense) /\ d \in Elements(keyword)
    <3>1. PICK z \in Nat : z >= 61 /\ Share(keyword, d) = [num |-> 1, den |-> z]
      BY <2>1, <2>3, ShareIs DEF Fractions
    <3>2. Share(dense, d) = [num |-> 0, den |-> 1]
      BY <2>3 DEF Share
    <3>3. 0 * z + 1 * 1 = 1 /\ 1 * z = z
      BY <3>1
    <3> QED
      BY <3>1, <3>2, <3>3 DEF Score, Add
  <2> QED
    BY <2>2, <2>3 DEF Found
<1>3. Score(c) = [num |-> 1 * y + 1 * x, den |-> x * y]
  BY <1>1 DEF Score, Add
<1>4. x * y <= 121 * y /\ x * y <= 121 * x
  OBVIOUS
<1>5. x * y < 61 * (x + y)
  BY <1>4
<1>6. 61 * (x + y) <= z * (x + y)
  BY <1>2
<1>7. x * y \in Nat /\ z * (x + y) \in Nat /\ (1 * y + 1 * x) * z = z * (x + y)
      /\ 1 * (x * y) = x * y
  OBVIOUS
<1>8. (1 * y + 1 * x) * z > 1 * (x * y)
  BY <1>5, <1>6, <1>7
<1> QED
  BY <1>2, <1>3, <1>8 DEF Greater
-----------------------------------------------------------------------------
(* The budget *)

\* Spent, for any costs.
SpentOf(s, c) ==
    LET sum[i \in 0 .. Len(s)] == IF i = 0 THEN 0 ELSE sum[i - 1] + c[s[i]] IN sum[Len(s)]

Sums(f, s, c) == f = [i \in 0 .. Len(s) |-> IF i = 0 THEN 0 ELSE f[i - 1] + c[s[i]]]

\* t begins with s.
Begins(s, t) == Len(s) <= Len(t) /\ \A i \in 1 .. Len(s) : t[i] = s[i]

\* The sums are there to be taken, and natural numbers.
LEMMA SumsExist ==
    ASSUME NEW C, NEW c \in [C -> Nat], NEW s \in Seq(C)
    PROVE  \E f \in [0 .. Len(s) -> Nat] : Sums(f, s, c)
<1> DEFINE step == [p \in (1 .. Len(s)) \X Nat |-> p[2] + c[s[p[1]]]]
<1>1. step \in [(1 .. Len(s)) \X Nat -> Nat]
  OBVIOUS
<1>2. PICK n \in Nat : n = Len(s)
  OBVIOUS
<1>3. PICK st \in [(1 .. n) \X Nat -> Nat] : st = step
  BY <1>1, <1>2
<1>4. PICK zero \in Nat : zero = 0
  OBVIOUS
<1>5. \E f \in [0 .. n -> Nat] : Follows(f, n, zero, st)
  BY Recursion
<1>6. PICK f \in [0 .. n -> Nat] : Follows(f, n, zero, st)
  BY <1>5
<1>7. \A i \in 1 .. n : step[<<i, f[i - 1]>>] = f[i - 1] + c[s[i]]
  <2> TAKE i \in 1 .. n
  <2>1. i - 1 \in 0 .. n
    BY <1>2
  <2>2. f[i - 1] \in Nat
    BY <2>1
  <2>3. <<i, f[i - 1]>> \in (1 .. Len(s)) \X Nat
    BY <1>2, <2>2
  <2> QED
    BY <2>3
<1> HIDE DEF step
<1>8. \A i \in 0 .. n : f[i] = IF i = 0 THEN 0 ELSE f[i - 1] + c[s[i]]
  <2> TAKE i \in 0 .. n
  <2>1. f[i] = IF i = 0 THEN 0 ELSE step[<<i, f[i - 1]>>]
    BY <1>3, <1>4, <1>6 DEF Follows
  <2> QED
    BY <1>7, <2>1
<1> QED
  BY <1>2, <1>8 DEF Sums

\* Sums of natural numbers are natural numbers.
LEMMA SumsAreNat ==
    ASSUME NEW C, NEW c \in [C -> Nat], NEW s \in Seq(C), NEW f, Sums(f, s, c)
    PROVE  f[Len(s)] \in Nat
<1> DEFINE S == {n \in Nat : n <= Len(s) => f[n] \in Nat}
<1>1. \A i \in 0 .. Len(s) : f[i] = IF i = 0 THEN 0 ELSE f[i - 1] + c[s[i]]
  BY DEF Sums
<1>2. 0 \in S
  BY <1>1
<1>3. ASSUME NEW n \in Nat, n \in S PROVE n + 1 \in S
  <2> SUFFICES ASSUME n + 1 <= Len(s) PROVE f[n + 1] \in Nat
    OBVIOUS
  <2>1. n + 1 \in 1 .. Len(s) /\ (n + 1) - 1 = n /\ f[n] \in Nat
    BY <1>3
  <2>2. f[n + 1] = f[n] + c[s[n + 1]] /\ c[s[n + 1]] \in Nat
    BY <1>1, <2>1
  <2> QED
    BY <2>1, <2>2
<1>4. Nat \subseteq S
  <2> HIDE DEF S
  <2> QED
    BY <1>2, <1>3, SetInduction
<1> QED
  BY <1>4

\* The first sums of a longer sequence are those of a shorter one.
LEMMA SumsAgree ==
    ASSUME NEW C, NEW c \in [C -> Nat], NEW s \in Seq(C), NEW t \in Seq(C),
           Begins(s, t), NEW f, Sums(f, s, c), NEW g, Sums(g, t, c)
    PROVE  f[Len(s)] = g[Len(s)]
<1> USE DEF Begins
<1> DEFINE S == {n \in Nat : n <= Len(s) => f[n] = g[n]}
<1>1. \A i \in 0 .. Len(s) : f[i] = IF i = 0 THEN 0 ELSE f[i - 1] + c[s[i]]
  BY DEF Sums
<1>2. \A i \in 0 .. Len(t) : g[i] = IF i = 0 THEN 0 ELSE g[i - 1] + c[t[i]]
  BY DEF Sums
<1>3. 0 \in S
  BY <1>1, <1>2
<1>4. ASSUME NEW n \in Nat, n \in S PROVE n + 1 \in S
  <2> SUFFICES ASSUME n + 1 <= Len(s) PROVE f[n + 1] = g[n + 1]
    OBVIOUS
  <2>1. /\ n + 1 \in 0 .. Len(s) /\ n + 1 \in 0 .. Len(t) /\ n + 1 # 0
        /\ n + 1 \in 1 .. Len(s) /\ (n + 1) - 1 = n
    OBVIOUS
  <2>2. f[n] = g[n] /\ t[n + 1] = s[n + 1]
    BY <1>4, <2>1
  <2>3. f[n + 1] = f[n] + c[s[n + 1]] /\ g[n + 1] = g[n] + c[t[n + 1]]
    BY <1>1, <1>2, <2>1
  <2> QED
    BY <2>2, <2>3
<1>5. Nat \subseteq S
  <2> HIDE DEF S
  <2> QED
    BY <1>3, <1>4, SetInduction
<1> QED
  BY <1>5

\* What is spent on a sequence is the last of its sums.
LEMMA SpentSums ==
    ASSUME NEW C, NEW c \in [C -> Nat], NEW s \in Seq(C)
    PROVE  \E f : Sums(f, s, c) /\ SpentOf(s, c) = f[Len(s)]
<1>1. \E f : Sums(f, s, c)
  BY SumsExist
<1> DEFINE sum == CHOOSE f : Sums(f, s, c)
<1>2. Sums(sum, s, c)
  BY <1>1
<1>3. SpentOf(s, c) = sum[Len(s)]
  BY DEF SpentOf, Sums
<1> HIDE DEF sum
<1> QED
  BY <1>2, <1>3

\* Nothing costs nothing, and one more costs what it costs.
LEMMA SpentIs ==
    ASSUME NEW C, NEW c \in [C -> Nat], NEW s \in Seq(C), NEW x \in C
    PROVE  /\ SpentOf(s, c) \in Nat
           /\ s = <<>> => SpentOf(s, c) = 0
           /\ SpentOf(Append(s, x), c) = SpentOf(s, c) + c[x]
<1>1. PICK t \in Seq(C) : t = Append(s, x)
  <2>1. Append(s, x) \in Seq(C)
    OBVIOUS
  <2> QED
    BY <2>1
<1>2. /\ Len(s) \in Nat /\ Len(t) = Len(s) + 1 /\ t[Len(t)] = x
      /\ \A i \in 1 .. Len(s) : t[i] = s[i]
  BY <1>1
<1>4. PICK h : Sums(h, s, c) /\ SpentOf(s, c) = h[Len(s)]
  BY SpentSums
<1>5. PICK g : Sums(g, t, c) /\ SpentOf(t, c) = g[Len(t)]
  BY SpentSums
<1>7. h[Len(s)] = g[Len(s)]
  <2>1. Begins(s, t) /\ Sums(h, s, c) /\ Sums(g, t, c)
    BY <1>2, <1>4, <1>5 DEF Begins
  <2> QED
    BY <2>1, SumsAgree
<1>8. SpentOf(s, c) \in Nat
  BY <1>2, <1>4, SumsAreNat
<1>9. s = <<>> => SpentOf(s, c) = 0
  BY <1>2, <1>4 DEF Sums
<1>10. g[Len(t)] = g[Len(s)] + c[x]
  <2>1. \A i \in 0 .. Len(t) : g[i] = IF i = 0 THEN 0 ELSE g[i - 1] + c[t[i]]
    BY <1>5 DEF Sums
  <2>2. Len(t) \in 0 .. Len(t) /\ Len(t) # 0 /\ Len(t) - 1 = Len(s)
    BY <1>2
  <2> QED
    BY <1>2, <2>1, <2>2
<1> QED
  BY <1>1, <1>4, <1>5, <1>7, <1>8, <1>9, <1>10

\* The same of nothing, when there may be no element.
LEMMA SpentOfNone ==
    ASSUME NEW s, Len(s) = 0, NEW c
    PROVE  SpentOf(s, c) = 0
<1> DEFINE Is(f) == f = [i \in 0 .. Len(s) |-> IF i = 0 THEN 0 ELSE f[i - 1] + c[s[i]]]
<1>1. Is([i \in 0 .. 0 |-> 0])
  OBVIOUS
<1> DEFINE sum == CHOOSE f : Is(f)
<1>2. Is(sum)
  BY <1>1
<1>3. SpentOf(s, c) = sum[Len(s)]
  BY DEF SpentOf
<1> HIDE DEF sum
<1> QED
  BY <1>2, <1>3
-----------------------------------------------------------------------------
(* Retrieval *)

\* _fuse has ordered what has been found by its score.
FusedInv ==
    /\ Ranking(fused, Chunks)
    /\ Elements(fused) = Found
    /\ \A i, j \in 1 .. Len(fused) : i < j => <<fused[j], fused[i]>> \notin HigherScore

\* _rerank has taken the best of it, in order.
TopInv ==
    /\ Ranking(top, Chunks)
    /\ Len(top) <= RerankTopK
    /\ Elements(top) \subseteq Found
    /\ Found # {} => Len(top) # 0
    /\ \A i, j \in 1 .. Len(top) : i < j => <<top[j], top[i]>> \notin Outranks
    /\ \A c \in Elements(top), d \in Found \ Elements(top) : <<d, c>> \notin Outranks

\* _assemble has cited the first of these, and no more than the budget allows.
CitedInv ==
    /\ citations \in Seq(Chunks)
    /\ Len(citations) <= Len(top)
    /\ \A i \in 1 .. Len(citations) : citations[i] = top[i]
    /\ SpentOf(citations, cost) <= Budget \/ Len(citations) = 1
    /\ done = "assemble" /\ Len(top) # 0 => Len(citations) # 0

SearchInv ==
    /\ done \in {"nothing", "dense", "keyword", "fuse", "rerank", "assemble"}
    /\ matches \in [Chunks -> Nat]
    /\ cost \in [Chunks -> Nat]
    /\ Ranking(dense, Chunks) /\ Len(dense) <= TopK
    /\ Ranking(keyword, Chunks) /\ Len(keyword) <= TopK

RetrievalInv ==
    /\ SearchInv
    /\ done = "fuse" => FusedInv
    /\ done \in {"rerank", "assemble"} => TopInv /\ CitedInv
    /\ done \notin {"rerank", "assemble"} => citations = <<>>

\* Nothing is found at first.
LEMMA RetrievalInitInv == RetrievalInit => RetrievalInv
<1> SUFFICES ASSUME RetrievalInit PROVE RetrievalInv
  OBVIOUS
<1>1. PICK none \in Seq(Chunks) : none = <<>> /\ Len(none) = 0
  <2>1. <<>> \in Seq(Chunks) /\ Len(<<>>) = 0
    OBVIOUS
  <2> QED
    BY <2>1
<1>2. Ranking(none, Chunks)
  BY <1>1 DEF Ranking
<1>3. Ranking(dense, Chunks) /\ Len(dense) <= TopK /\ Ranking(keyword, Chunks) /\ Len(keyword) <= TopK
  BY <1>1, <1>2, RetrievalConstants DEF RetrievalInit
<1> QED
  BY <1>3 DEF RetrievalInit, RetrievalInv, SearchInv

\* The places of a ranking tell its elements apart.
LEMMA PlacesAre ==
    ASSUME NEW S, NEW s, Ranking(s, S), NEW T, T \subseteq Elements(s)
    PROVE  /\ \A c \in T : Places(s)[c] \in Nat
           /\ \A c, d \in T : Places(s)[c] = Places(s)[d] => c = d
<1>1. \A c \in T : Places(s)[c] = Rank(s, c)
  BY DEF Places
<1>2. \A c \in T : Rank(s, c) \in 1 .. Len(s) /\ s[Rank(s, c)] = c /\ Len(s) \in Nat
  BY RankIs
<1> QED
  BY <1>1, <1>2

\* The elements of a ranking are finitely many, and in what is ranked.
LEMMA ElementsAre ==
    ASSUME NEW s, Ranking(s, Chunks)
    PROVE  Elements(s) \subseteq Chunks /\ IsFiniteSet(Elements(s))
<1>1. Elements(s) \subseteq Chunks
  BY DEF Elements, Ranking
<1> QED
  BY <1>1, RetrievalConstants, FS_Subset

\* A ranking of some chunks is one of all.
LEMMA RankingWithin ==
    ASSUME NEW S, S \subseteq Chunks, NEW s, Ranking(s, S)
    PROVE  Ranking(s, Chunks)
<1>1. s \in Seq(Chunks)
  BY DEF Ranking
<1> QED
  BY <1>1 DEF Ranking

\* What _keyword returns: a ranking of at most TopK chunks.
LEMMA KeywordReturns ==
    ASSUME matches \in [Chunks -> Nat], Ranking(dense, Chunks), Ranking(keyword, Chunks),
           NEW rows_, Ranking(rows_, Chunks),
           NEW S, S \subseteq Elements(rows_)
    PROVE  LET r == Cut(Sorted(S, MoreTerms, Places(rows_)), TopK)
           IN  Ranking(r, Chunks) /\ Len(r) <= TopK
<1> DEFINE s == Sorted(S, MoreTerms, Places(rows_))
<1>1. S \subseteq Chunks /\ IsFiniteSet(S)
  BY ElementsAre, FS_Subset
<1>2. WeakOrder(MoreTerms, S)
  BY <1>1, KeysAreWeak
<1>3. /\ \A c \in S : Places(rows_)[c] \in Nat
      /\ \A c, d \in S : Places(rows_)[c] = Places(rows_)[d] => c = d
  BY PlacesAre
<1>4. Ranking(s, S)
  BY <1>1, <1>2, <1>3, SortedInOrder
<1> HIDE DEF s
<1>5. Ranking(s, Chunks)
  BY <1>1, <1>4, RankingWithin
<1>6. TopK \in Nat
  BY RetrievalConstants
<1>7. Ranking(Cut(s, TopK), Chunks) /\ Len(Cut(s, TopK)) <= TopK
  <2>1. Len(s) \in Nat
    BY <1>5 DEF Ranking
  <2> QED
    BY <1>5, <1>6, <2>1, CutIs
<1> QED
  BY <1>7 DEF s

\* What _fuse returns.
LEMMA FuseReturns ==
    ASSUME SearchInv
    PROVE  LET r == Sorted(Found, HigherScore, Inserted)
           IN  /\ Ranking(r, Chunks)
               /\ Elements(r) = Found
               /\ \A i, j \in 1 .. Len(r) : i < j => <<r[j], r[i]>> \notin HigherScore
<1> USE DEF SearchInv
<1>1. Found \subseteq Chunks /\ IsFiniteSet(Found)
  <2>1. Elements(dense) \subseteq Chunks /\ Elements(keyword) \subseteq Chunks
    BY ElementsAre
  <2>2. Found \subseteq Chunks
    BY <2>1 DEF Found
  <2> QED
    BY <2>2, RetrievalConstants, FS_Subset
<1>2. WeakOrder(HigherScore, Found)
  BY <1>1, KeysAreWeak
<1>3. \A c \in Elements(dense) :
         Rank(dense, c) \in 1 .. Len(dense) /\ dense[Rank(dense, c)] = c
  BY RankIs
<1>4. \A c \in Elements(keyword) :
         Rank(keyword, c) \in 1 .. Len(keyword) /\ keyword[Rank(keyword, c)] = c
  BY RankIs
<1>5. \A c \in Found : Inserted[c] =
         IF c \in Elements(dense) THEN Rank(dense, c) ELSE Len(dense) + Rank(keyword, c)
  BY DEF Inserted
<1>6. Len(dense) \in Nat /\ Len(keyword) \in Nat
  BY DEF Ranking
<1>7. \A c \in Found : c \notin Elements(dense) => c \in Elements(keyword)
  BY DEF Found
<1>8. \A c \in Found : Inserted[c] \in Nat
  BY <1>3, <1>4, <1>5, <1>6, <1>7
<1>9. ASSUME NEW c \in Found, NEW d \in Found, Inserted[c] = Inserted[d] PROVE c = d
  <2>1. CASE c \in Elements(dense) /\ d \in Elements(dense)
    BY <1>3, <1>5, <1>9, <2>1
  <2>2. CASE c \notin Elements(dense) /\ d \notin Elements(dense)
    <3>1. Rank(keyword, c) = Rank(keyword, d)
      BY <1>4, <1>5, <1>6, <1>7, <1>9, <2>2
    <3> QED
      BY <1>4, <1>7, <2>2, <3>1
  <2>3. CASE c \in Elements(dense) /\ d \notin Elements(dense)
    BY <1>3, <1>4, <1>5, <1>6, <1>7, <1>9, <2>3
  <2>4. CASE c \notin Elements(dense) /\ d \in Elements(dense)
    BY <1>3, <1>4, <1>5, <1>6, <1>7, <1>9, <2>4
  <2> QED
    BY <2>1, <2>2, <2>3, <2>4
<1> DEFINE s == Sorted(Found, HigherScore, Inserted)
<1>10. /\ Ranking(s, Found) /\ Elements(s) = Found
       /\ \A i, j \in 1 .. Len(s) : i < j => <<s[j], s[i]>> \notin HigherScore
  BY <1>1, <1>2, <1>8, <1>9, SortedInOrder
<1> HIDE DEF s
<1>11. Ranking(s, Chunks)
  BY <1>1, <1>10, RankingWithin
<1> QED
  BY <1>10, <1>11 DEF s

\* What _rerank returns.
LEMMA RerankReturns ==
    ASSUME SearchInv, FusedInv
    PROVE  LET r == Cut(Reranked(fused), RerankTopK)
           IN  /\ Ranking(r, Chunks)
               /\ Len(r) <= RerankTopK
               /\ Elements(r) \subseteq Found
               /\ Found # {} => Len(r) # 0
               /\ \A i, j \in 1 .. Len(r) : i < j => <<r[j], r[i]>> \notin Outranks
               /\ \A c \in Elements(r), d \in Found \ Elements(r) : <<d, c>> \notin Outranks
<1> USE DEF SearchInv, FusedInv
<1> DEFINE s == Reranked(fused)
           r == Cut(s, RerankTopK)
<1>1. Found \subseteq Chunks /\ IsFiniteSet(Found)
  BY ElementsAre
<1>2. WeakOrder(Outranks, Found)
  BY <1>1, KeysAreWeak
<1>3. /\ \A c \in Found : Places(fused)[c] \in Nat
      /\ \A c, d \in Found : Places(fused)[c] = Places(fused)[d] => c = d
  BY PlacesAre
<1>4. /\ Ranking(s, Found) /\ Elements(s) = Found /\ Len(s) = Cardinality(Found)
      /\ \A i, j \in 1 .. Len(s) : i < j => <<s[j], s[i]>> \notin Outranks
  BY <1>1, <1>2, <1>3, SortedInOrder DEF Reranked
<1> HIDE DEF s
<1>5. Ranking(s, Chunks) /\ Len(s) \in Nat
  BY <1>1, <1>4, RankingWithin DEF Ranking
<1>6. RerankTopK \in Nat /\ RerankTopK # 0
  BY RetrievalConstants
<1>7. /\ Ranking(r, Chunks)
      /\ Len(r) = IF RerankTopK < Len(s) THEN RerankTopK ELSE Len(s)
      /\ \A i \in 1 .. Len(r) : i \in 1 .. Len(s) /\ r[i] = s[i]
  BY <1>5, <1>6, CutIs
<1> HIDE DEF r
<1>8. Len(r) <= RerankTopK /\ Len(r) \in Nat /\ Len(r) <= Len(s)
  BY <1>5, <1>6, <1>7
<1>9. Elements(r) \subseteq Found
  BY <1>4, <1>7 DEF Elements
<1>10. Found # {} => Len(r) # 0
  <2>1. Found # {} => Len(s) # 0
    BY <1>1, <1>4, FS_EmptySet
  <2> QED
    BY <1>6, <1>7, <2>1
<1>11. \A i, j \in 1 .. Len(r) : i < j => <<r[j], r[i]>> \notin Outranks
  BY <1>4, <1>7
<1>12. ASSUME NEW c \in Elements(r), NEW d \in Found \ Elements(r) PROVE <<d, c>> \notin Outranks
  <2>1. PICK i \in 1 .. Len(r) : c = s[i] /\ i \in 1 .. Len(s)
    BY <1>7 DEF Elements
  <2>2. PICK j \in 1 .. Len(s) : d = s[j]
    BY <1>4 DEF Elements
  <2>3. ~ (j <= Len(r))
    <3> SUFFICES ASSUME j <= Len(r) PROVE FALSE
      OBVIOUS
    <3>1. j \in 1 .. Len(r) /\ r[j] = d
      BY <1>7, <1>8, <2>2
    <3> QED
      BY <3>1 DEF Elements
  <2>4. i < j
    BY <1>8, <2>1, <2>3
  <2> QED
    BY <1>4, <2>1, <2>2, <2>4
<1> QED
  BY <1>7, <1>8, <1>9, <1>10, <1>11, <1>12 DEF r, s

\* A question is asked, and what is found may be any ranking.
LEMMA DenseSearchInv == RetrievalInv /\ DenseSearch => RetrievalInv'
<1> SUFFICES ASSUME RetrievalInv, DenseSearch PROVE RetrievalInv'
  OBVIOUS
<1>1. PICK s \in Rankings(TopK) : s = dense'
  BY DEF DenseSearch
<1>2. TopK \in Nat /\ Overlap \subseteq Nat /\ Cost \subseteq Nat
  BY RetrievalConstants
<1>3. Ranking(s, Chunks) /\ Len(s) <= TopK
  BY <1>2, RankingsRank
<1>4. matches' \in [Chunks -> Nat] /\ cost' \in [Chunks -> Nat]
  BY <1>2 DEF DenseSearch
<1>5. /\ done' = "dense" /\ citations' = <<>>
      /\ Ranking(keyword, Chunks) /\ Len(keyword) <= TopK /\ keyword' = keyword
  BY DEF DenseSearch, RetrievalInv, SearchInv
<1> QED
  BY <1>1, <1>3, <1>4, <1>5 DEF RetrievalInv, SearchInv, Ranking

\* The scan may return any rows.
LEMMA KeywordSearchInv == RetrievalInv /\ KeywordSearch => RetrievalInv'
<1> SUFFICES ASSUME RetrievalInv, KeywordSearch PROVE RetrievalInv'
  OBVIOUS
<1>1. PICK scan \in Rankings(4 * TopK) :
        keyword' = Cut(Sorted({c \in Elements(scan) : matches[c] > 0}, MoreTerms, Places(scan)),
                       TopK)
  BY DEF KeywordSearch
<1>2. 4 * TopK \in Nat
  BY RetrievalConstants
<1>3. Ranking(scan, Chunks)
  BY <1>2, RankingsRank
<1>4. PICK S : S = {c \in Elements(scan) : matches[c] > 0}
  OBVIOUS
<1>5. S \subseteq Elements(scan) /\ SearchInv
  BY <1>4 DEF RetrievalInv
<1>6. PICK r : r = Cut(Sorted(S, MoreTerms, Places(scan)), TopK)
  OBVIOUS
<1>7. Ranking(r, Chunks) /\ Len(r) <= TopK
  BY <1>3, <1>5, <1>6, KeywordReturns DEF SearchInv
<1>8. keyword' = r
  BY <1>1, <1>4, <1>6
<1>9. /\ done' = "keyword" /\ citations' = <<>>
      /\ UNCHANGED <<matches, cost, dense>>
  BY DEF KeywordSearch, RetrievalInv
<1> QED
  BY <1>5, <1>7, <1>8, <1>9 DEF RetrievalInv, SearchInv, Ranking

\* The steps after the searches leave the question and the rankings alone.
LEMMA SearchKept ==
    ASSUME SearchInv, UNCHANGED <<matches, cost, dense, keyword>>,
           done' \in {"fuse", "rerank", "assemble"}
    PROVE  SearchInv' /\ Found' = Found /\ Outranks' = Outranks /\ HigherScore' = HigherScore
<1>1. HigherScore' = HigherScore
  BY DEF HigherScore, Score, Share, Greater, Add
<1>2. Outranks' = Outranks
  BY <1>1 DEF Outranks, MoreTerms
<1> QED
  BY <1>1, <1>2 DEF SearchInv, Found, Ranking

\* Fusing.
LEMMA FuseInv == RetrievalInv /\ Fuse => RetrievalInv'
<1> SUFFICES ASSUME RetrievalInv, Fuse PROVE RetrievalInv'
  OBVIOUS
<1>1. SearchInv /\ done' = "fuse" /\ citations' = <<>>
      /\ UNCHANGED <<matches, cost, dense, keyword>>
  BY DEF Fuse, RetrievalInv
<1>2. SearchInv' /\ Found' = Found /\ HigherScore' = HigherScore
  BY <1>1, SearchKept
<1>3. PICK r : r = Sorted(Found, HigherScore, Inserted)
  OBVIOUS
<1>4. fused' = r
  BY <1>3 DEF Fuse
<1>5. /\ Ranking(r, Chunks)
      /\ Elements(r) = Found
      /\ \A i, j \in 1 .. Len(r) : i < j => <<r[j], r[i]>> \notin HigherScore
  BY <1>1, <1>3, FuseReturns
<1>6. FusedInv'
  BY <1>2, <1>4, <1>5 DEF FusedInv, Ranking, Elements
<1> QED
  BY <1>1, <1>2, <1>6 DEF RetrievalInv

\* Reranking.
LEMMA RerankInv == RetrievalInv /\ Rerank => RetrievalInv'
<1> SUFFICES ASSUME RetrievalInv, Rerank PROVE RetrievalInv'
  OBVIOUS
<1>1. SearchInv /\ FusedInv /\ done' = "rerank" /\ citations' = <<>>
      /\ UNCHANGED <<matches, cost, dense, keyword>>
  BY DEF Rerank, RetrievalInv
<1>2. SearchInv' /\ Found' = Found /\ Outranks' = Outranks
  BY <1>1, SearchKept
<1>3. PICK r : r = Cut(Reranked(fused), RerankTopK)
  OBVIOUS
<1>4. top' = r
  BY <1>3 DEF Rerank
<1>5. /\ Ranking(r, Chunks)
      /\ Len(r) <= RerankTopK
      /\ Elements(r) \subseteq Found
      /\ Found # {} => Len(r) # 0
      /\ \A i, j \in 1 .. Len(r) : i < j => <<r[j], r[i]>> \notin Outranks
      /\ \A c \in Elements(r), d \in Found \ Elements(r) : <<d, c>> \notin Outranks
  BY <1>1, <1>3, RerankReturns
<1>6. TopInv'
  BY <1>2, <1>4, <1>5 DEF TopInv, Ranking, Elements
<1>7. CitedInv'
  <2>1. PICK none \in Seq(Chunks) : none = <<>>
    <3>1. <<>> \in Seq(Chunks)
      OBVIOUS
    <3> QED
      BY <3>1
  <2>2. Len(none) = 0 /\ citations' = none /\ done' = "rerank"
    BY <1>1, <2>1
  <2>3. SpentOf(none, cost) = 0
    BY <2>2, SpentOfNone
  <2>4. SpentOf(citations', cost') = 0
    BY <1>1, <2>2, <2>3
  <2>5. Budget \in Nat /\ Len(top') \in Nat
    BY <1>4, <1>5, RetrievalConstants DEF Ranking
  <2>6. SpentOf(citations, cost)' = SpentOf(citations', cost')
    BY DEF SpentOf
  <2> QED
    BY <2>2, <2>4, <2>5, <2>6 DEF CitedInv
<1> QED
  BY <1>1, <1>2, <1>6, <1>7 DEF RetrievalInv

\* Citing one more.
LEMMA TakeChunkInv == RetrievalInv /\ TakeChunk => RetrievalInv'
<1> SUFFICES ASSUME RetrievalInv, TakeChunk PROVE RetrievalInv'
  OBVIOUS
<1> DEFINE n == Len(citations) + 1
<1>1. /\ SearchInv /\ TopInv /\ CitedInv /\ done = "rerank" /\ done' = "rerank"
      /\ UNCHANGED <<matches, cost, dense, keyword, top>>
      /\ Fits(top[n]) /\ citations' = Append(citations, top[n]) /\ Len(citations) # Len(top)
  BY DEF TakeChunk, RetrievalInv, Exhausted
<1>2. SearchInv' /\ Found' = Found /\ Outranks' = Outranks
  BY <1>1, SearchKept
<1>3. TopInv'
  <2>1. Elements(top)' = Elements(top) /\ Ranking(top, Chunks)' = Ranking(top, Chunks)
    BY <1>1 DEF Elements, Ranking
  <2>2. top' = top /\ TopInv
    BY <1>1
  <2> QED
    BY <1>2, <2>1, <2>2 DEF TopInv
<1>4. PICK s \in Seq(Chunks) : s = citations
  BY <1>1 DEF CitedInv
<1>5. PICK c \in [Chunks -> Nat] : c = cost
  BY <1>1 DEF SearchInv
<1>6. top \in Seq(Chunks) /\ Len(s) \in Nat /\ n = Len(s) + 1 /\ n \in 1 .. Len(top)
  BY <1>1, <1>4 DEF TopInv, Ranking, CitedInv
<1>7. PICK x \in Chunks : x = top[n]
  BY <1>6
<1>8. /\ SpentOf(s, c) \in Nat /\ c[x] \in Nat
      /\ s = <<>> => SpentOf(s, c) = 0
      /\ SpentOf(Append(s, x), c) = SpentOf(s, c) + c[x]
  BY SpentIs
<1>9. PICK t \in Seq(Chunks) : t = Append(s, x)
  <2>1. Append(s, x) \in Seq(Chunks)
    OBVIOUS
  <2> QED
    BY <2>1
<1>10. Len(t) = n /\ t[n] = x /\ \A i \in 1 .. Len(s) : t[i] = s[i]
  BY <1>6, <1>9
<1>11. citations' = t
  BY <1>1, <1>4, <1>7, <1>9
<1>12. SpentOf(t, c) <= Budget \/ Len(t) = 1
  <2>1. Spent(citations) = SpentOf(s, c)
    BY <1>4, <1>5 DEF Spent, SpentOf
  <2>2. s = <<>> \/ SpentOf(s, c) + c[x] <= Budget
    BY <1>1, <1>4, <1>5, <1>7, <2>1 DEF Fits
  <2>3. s = <<>> => Len(t) = 1
    BY <1>6, <1>10
  <2> QED
    BY <1>8, <1>9, <2>2, <2>3
<1>13. ASSUME NEW i \in 1 .. n PROVE t[i] = top[i]
  <2>1. CASE i = n
    BY <1>7, <1>10, <2>1
  <2>2. CASE i # n
    <3>1. i \in 1 .. Len(s)
      BY <1>6, <2>2
    <3>2. s[i] = top[i]
      BY <1>1, <1>4, <3>1 DEF CitedInv
    <3> QED
      BY <1>10, <3>1, <3>2
  <2> QED
    BY <2>1, <2>2
<1>14. CitedInv'
  <2>1. SpentOf(citations, cost)' = SpentOf(t, c)
    BY <1>1, <1>5, <1>11 DEF SpentOf
  <2> HIDE DEF n
  <2> QED
    BY <1>1, <1>6, <1>10, <1>11, <1>12, <1>13, <2>1 DEF CitedInv
<1> QED
  BY <1>1, <1>2, <1>3, <1>14 DEF RetrievalInv

\* Assembling the context.
LEMMA AssembleInv == RetrievalInv /\ Assemble => RetrievalInv'
<1> SUFFICES ASSUME RetrievalInv, Assemble PROVE RetrievalInv'
  OBVIOUS
<1>1. /\ SearchInv /\ TopInv /\ CitedInv /\ done = "rerank" /\ done' = "assemble"
      /\ UNCHANGED <<matches, cost, dense, keyword, top, citations>>
  BY DEF Assemble, RetrievalInv
<1>2. SearchInv' /\ Found' = Found /\ Outranks' = Outranks
  BY <1>1, SearchKept
<1>3. TopInv'
  <2>1. Elements(top)' = Elements(top) /\ Ranking(top, Chunks)' = Ranking(top, Chunks)
    BY <1>1 DEF Elements, Ranking
  <2>2. top' = top /\ TopInv
    BY <1>1
  <2> QED
    BY <1>2, <2>1, <2>2 DEF TopInv
<1>4. Len(top) # 0 => Len(citations) # 0
  <2> SUFFICES ASSUME Len(citations) = 0 PROVE Len(top) = 0
    OBVIOUS
  <2>1. citations = <<>>
    BY <1>1 DEF CitedInv
  <2> QED
    BY <2>1 DEF Assemble, Exhausted, Fits
<1>5. SpentOf(citations, cost)' = SpentOf(citations, cost)
  BY <1>1 DEF SpentOf
<1>6. CitedInv'
  BY <1>1, <1>4, <1>5 DEF CitedInv
<1> QED
  BY <1>1, <1>2, <1>3, <1>6 DEF RetrievalInv

\* No step of retrieve breaks its invariant.
LEMMA RetrievalStep == RetrievalInv /\ [RetrievalNext]_retrievalVars => RetrievalInv'
<1> SUFFICES ASSUME RetrievalInv, [RetrievalNext]_retrievalVars PROVE RetrievalInv'
  OBVIOUS
<1>1. CASE UNCHANGED retrievalVars
  <2>1. UNCHANGED <<matches, cost, dense, keyword, fused, top, citations, done>>
    BY <1>1 DEF retrievalVars
  <2>2. /\ SearchInv' = SearchInv /\ Found' = Found
        /\ HigherScore' = HigherScore /\ Outranks' = Outranks
    <3>1. SearchInv' = SearchInv /\ Found' = Found
      BY <2>1 DEF SearchInv, Found, Ranking, Elements
    <3>2. HigherScore' = HigherScore
      BY <2>1 DEF HigherScore, Score, Share, Greater, Add, Elements, Rank
    <3> QED
      BY <2>1, <3>1, <3>2 DEF Outranks, MoreTerms
  <2>3. FusedInv' = FusedInv /\ TopInv' = TopInv
    BY <2>1, <2>2 DEF FusedInv, TopInv, Ranking, Elements
  <2>4. CitedInv' = CitedInv
    BY <2>1 DEF CitedInv, SpentOf
  <2> QED
    BY <2>1, <2>2, <2>3, <2>4 DEF RetrievalInv
<1> QED
  BY <1>1, DenseSearchInv, KeywordSearchInv, FuseInv, RerankInv, TakeChunkInv, AssembleInv
  DEF RetrievalNext

\* The invariant of retrieve.
LEMMA RetrievalInvariant == RetrievalSpec => []RetrievalInv
BY RetrievalInitInv, RetrievalStep, PTL DEF RetrievalSpec

\* Whatever the two searches return, in whatever order, _fuse puts every chunk both
\* have found before every chunk only one has, while the rankings are no longer
\* than 61.
THEOREM AgreementComesFirst == RetrievalSpec => []AgreementFirst
<1>1. RetrievalInv => AgreementFirst
  <2> SUFFICES ASSUME RetrievalInv, done = "fuse", TopK <= RRF_K + 1,
                      NEW i \in 1 .. Len(fused), NEW j \in 1 .. Len(fused),
                      fused[i] \in Elements(dense) \cap Elements(keyword),
                      fused[j] \notin Elements(dense) \cap Elements(keyword)
               PROVE  i < j
    BY DEF AgreementFirst
  <2>1. SearchInv /\ FusedInv
    BY DEF RetrievalInv
  <2>2. fused[j] \in Found /\ fused[i] \in Chunks /\ fused[j] \in Chunks
    BY <2>1 DEF FusedInv, Elements, Ranking
  <2>3. Len(dense) <= 61 /\ Len(keyword) <= 61
    BY <2>1, RetrievalConstants DEF SearchInv, Ranking, RRF_K
  <2>4. Greater(Score(fused[i]), Score(fused[j]))
    BY <2>1, <2>2, <2>3, BothScoreHigher DEF SearchInv
  <2>5. <<fused[i], fused[j]>> \in HigherScore
    BY <2>2, <2>4 DEF HigherScore
  <2>6. i # j /\ ~ (j < i)
    BY <2>1, <2>5 DEF FusedInv
  <2> QED
    BY <2>1, <2>6 DEF FusedInv, Ranking
<1> QED
  BY <1>1, RetrievalInvariant, PTL

\* Whatever is found, whatever it costs and whatever the budget is: what is cited is
\* what _rerank puts first, as much of it as the budget allows, and something if
\* anything is found.
THEOREM TheBestIsCited == RetrievalSpec => []BestCited
<1>1. RetrievalInv => BestCited
  <2> SUFFICES ASSUME RetrievalInv, done = "assemble"
               PROVE  LET cited == Elements(citations)
                      IN  /\ cited \subseteq Found
                          /\ Len(citations) <= RerankTopK
                          /\ Found # {} => cited # {}
                          /\ Spent(citations) <= Budget \/ Len(citations) = 1
                          /\ \A c \in cited, d \in Found \ cited : <<d, c>> \notin Outranks
    BY DEF BestCited
  <2>1. SearchInv /\ TopInv /\ CitedInv
    BY DEF RetrievalInv
  <2>2. Len(top) \in Nat /\ Len(citations) \in Nat /\ Len(citations) <= Len(top)
        /\ Len(top) <= RerankTopK /\ RerankTopK \in Nat
    BY <2>1, RetrievalConstants DEF TopInv, CitedInv, Ranking
  <2>3. \A c \in Elements(citations) : \E i \in 1 .. Len(citations) : c = top[i] /\ i \in 1 .. Len(top)
    BY <2>1, <2>2 DEF Elements, CitedInv
  <2>4. Elements(citations) \subseteq Elements(top)
    BY <2>3 DEF Elements
  <2>5. Found # {} => Elements(citations) # {}
    <3> SUFFICES ASSUME Found # {} PROVE Elements(citations) # {}
      OBVIOUS
    <3>1. Len(citations) # 0
      BY <2>1 DEF TopInv, CitedInv
    <3>2. 1 \in 1 .. Len(citations)
      BY <2>2, <3>1
    <3> QED
      BY <3>2 DEF Elements
  <2>6. Spent(citations) <= Budget \/ Len(citations) = 1
    <3>1. Spent(citations) = SpentOf(citations, cost)
      BY DEF Spent, SpentOf
    <3> QED
      BY <2>1, <3>1 DEF CitedInv
  <2>7. ASSUME NEW c \in Elements(citations), NEW d \in Found \ Elements(citations)
        PROVE  <<d, c>> \notin Outranks
    <3>1. PICK i \in 1 .. Len(citations) : c = top[i] /\ i \in 1 .. Len(top)
      BY <2>3
    <3>2. CASE d \notin Elements(top)
      BY <2>1, <2>4, <3>2 DEF TopInv
    <3>3. CASE d \in Elements(top)
      <4>1. PICK j \in 1 .. Len(top) : d = top[j]
        BY <3>3 DEF Elements
      <4>2. ~ (j <= Len(citations))
        <5> SUFFICES ASSUME j <= Len(citations) PROVE FALSE
          OBVIOUS
        <5>1. j \in 1 .. Len(citations) /\ citations[j] = d
          BY <2>1, <2>2, <4>1 DEF CitedInv
        <5> QED
          BY <5>1 DEF Elements
      <4>3. i < j
        BY <2>2, <3>1, <4>2
      <4> QED
        BY <2>1, <3>1, <4>1, <4>3 DEF TopInv
    <3> QED
      BY <3>2, <3>3
  <2> QED
    BY <2>1, <2>2, <2>4, <2>5, <2>6, <2>7 DEF TopInv
<1> QED
  BY <1>1, RetrievalInvariant, PTL
-----------------------------------------------------------------------------
(* Metrics *)

Titles == {DocumentOf[c] : c \in Chunks}

\* Whatever is cited, no document is among those seen twice.
LEMMA SeenOnce ==
    ASSUME NEW s \in Seq(Chunks)
    PROVE  Ranking(Seen(s), Titles)
<1> DEFINE first == {i \in 1 .. Len(s) :
                       \A j \in 1 .. i - 1 : DocumentOf[s[j]] # DocumentOf[s[i]]}
           R == {p \in first \X first : p[1] < p[2]}
           order == Arranged(first, R)
           v == Seen(s)
<1>1. Len(s) \in Nat
  OBVIOUS
<1>2. IsFiniteSet(first)
  <2>1. first \in SUBSET (1 .. Len(s)) /\ IsFiniteSet(1 .. Len(s))
    BY <1>1, FS_Interval
  <2> HIDE DEF first
  <2> QED
    BY <2>1, FS_Subset
<1>3. first \subseteq 1 .. Len(s)
  OBVIOUS
<1>4. \A a, b \in first : <<a, b>> \in R <=> a < b
  OBVIOUS
<1>5. v = [n \in 1 .. Len(order) |-> DocumentOf[s[order[n]]]]
  BY DEF Seen
<1>6. ASSUME NEW a \in first, NEW b \in first, DocumentOf[s[a]] = DocumentOf[s[b]]
      PROVE  a = b
  <2>1. a \in 1 .. Len(s) /\ b \in 1 .. Len(s)
    BY <1>3
  <2>2. ~ (a \in 1 .. b - 1) /\ ~ (b \in 1 .. a - 1)
    BY <1>6
  <2> QED
    BY <1>1, <2>1, <2>2
<1> HIDE DEF first, R
<1>7. TotalOrder(R, first)
  BY <1>1, <1>3, <1>4 DEF TotalOrder
<1>8. Ranking(order, first)
  BY <1>2, <1>7, ArrangedInOrder
<1> HIDE DEF order, v
<1>9. \A n \in 1 .. Len(order) : order[n] \in first /\ DocumentOf[s[order[n]]] \in Titles
  <2> TAKE n \in 1 .. Len(order)
  <2>1. order[n] \in first
    BY <1>8 DEF Ranking
  <2>2. s[order[n]] \in Chunks
    <3>1. PICK m \in 1 .. Len(s) : m = order[n]
      BY <1>3, <2>1
    <3>2. s[m] \in Chunks
      OBVIOUS
    <3> QED
      BY <3>1, <3>2
  <2> QED
    BY <2>1, <2>2 DEF Titles
<1>10. Len(order) \in Nat
  BY <1>8 DEF Ranking
<1>11. v \in Seq(Titles) /\ Len(v) = Len(order)
  BY <1>5, <1>9, <1>10
<1>12. ASSUME NEW m \in 1 .. Len(v), NEW n \in 1 .. Len(v), v[m] = v[n] PROVE m = n
  <2>1. order[m] \in first /\ order[n] \in first
        /\ DocumentOf[s[order[m]]] = DocumentOf[s[order[n]]]
    BY <1>5, <1>9, <1>11, <1>12
  <2>2. order[m] = order[n]
    BY <1>6, <2>1
  <2> QED
    BY <1>8, <1>11, <2>2 DEF Ranking
<1> QED
  BY <1>11, <1>12 DEF v, Ranking

\* Of a ranking, the hits are as many as the relevant elements.
LEMMA HitsAre ==
    ASSUME NEW S, NEW t, Ranking(t, S), NEW relevant
    PROVE  LET hits == {i \in 1 .. Len(t) : t[i] \in relevant}
               H == Elements(t) \cap relevant
           IN  /\ Cardinality(hits) = Cardinality(H)
               /\ Cardinality(hits) \in Nat
               /\ Cardinality(hits) <= Len(t)
               /\ Cardinality(hits) = 0 <=> hits = {}
<1> DEFINE hits == {i \in 1 .. Len(t) : t[i] \in relevant}
           H == Elements(t) \cap relevant
           f == [i \in hits |-> t[i]]
<1>1. Len(t) \in Nat
  BY DEF Ranking
<1>2. IsFiniteSet(1 .. Len(t)) /\ Cardinality(1 .. Len(t)) = Len(t)
  <2> HIDE DEF hits, H, f
  <2>1. PICK n \in Nat : n = Len(t)
    BY <1>1
  <2>2. IsFiniteSet(1 .. n)
    BY FS_Interval
  <2>3. Cardinality(1 .. n) = n
    <3>1. Cardinality(1 .. n) = IF 1 > n THEN 0 ELSE n - 1 + 1
      BY FS_Interval
    <3> QED
      BY <3>1
  <2> QED
    BY <2>1, <2>2, <2>3
<1>3. hits \in SUBSET (1 .. Len(t))
  OBVIOUS
<1>4. f \in [hits -> H]
  BY DEF Elements
<1>5. \A i, j \in hits : f[i] = f[j] => i = j
  BY DEF Ranking
<1>6. \A x \in H : \E i \in hits : f[i] = x
  BY DEF Elements
<1> HIDE DEF hits, H, f
<1>7. IsFiniteSet(hits) /\ Cardinality(hits) <= Len(t) /\ Cardinality(hits) \in Nat
  BY <1>2, <1>3, FS_Subset, FS_CardinalityType
<1>8. f \in Bijection(hits, H)
  BY <1>4, <1>5, <1>6 DEF Bijection, Injection, Surjection, IsInjective
<1>9. Cardinality(H) = Cardinality(hits)
  BY <1>7, <1>8, FS_Bijection DEF ExistsBijection
<1>10. Cardinality(hits) = 0 <=> hits = {}
  BY <1>7, FS_EmptySet
<1> QED
  BY <1>7, <1>9, <1>10 DEF hits, H

\* The figures of one ranking against one set of relevant elements.
LEMMA FiguresAgree ==
    ASSUME NEW S, NEW seen, Ranking(seen, S), NEW relevant, IsFiniteSet(relevant),
           NEW k \in Nat
    PROVE  LET r == recall_at_k(seen, relevant, k)
               p == precision_at_k(seen, relevant, k)
               rr == reciprocal_rank(seen, relevant)
           IN  /\ r.num = p.num
               /\ r.num <= r.den /\ p.num <= p.den
               /\ r.num > 0 <=> rr.num > 0 /\ rr.den <= k
<1> DEFINE r == recall_at_k(seen, relevant, k)
           p == precision_at_k(seen, relevant, k)
           rr == reciprocal_rank(seen, relevant)
<1>1. PICK t : t = Cut(seen, k)
  OBVIOUS
<1>2. /\ Ranking(t, S)
      /\ Len(t) = IF k < Len(seen) THEN k ELSE Len(seen)
      /\ \A i \in 1 .. Len(t) : i \in 1 .. Len(seen) /\ t[i] = seen[i]
  BY <1>1, CutIs
<1>3. Len(t) \in Nat /\ Len(seen) \in Nat /\ (t = <<>> <=> Len(t) = 0)
  BY <1>2 DEF Ranking
<1>4. PICK hits : hits = {i \in 1 .. Len(t) : t[i] \in relevant}
  OBVIOUS
<1>5. PICK H : H = Elements(t) \cap relevant
  OBVIOUS
<1>6. /\ Cardinality(hits) = Cardinality(H)
      /\ Cardinality(hits) \in Nat
      /\ Cardinality(hits) <= Len(t)
      /\ Cardinality(hits) = 0 <=> hits = {}
  BY <1>2, <1>4, <1>5, HitsAre
<1>7. PICK ranks : ranks = {i \in 1 .. Len(seen) : seen[i] \in relevant}
  OBVIOUS
<1>8. Cardinality(relevant) \in Nat /\ (Cardinality(relevant) = 0 <=> relevant = {})
  BY FS_CardinalityType, FS_EmptySet
<1>9. Cardinality(H) <= Cardinality(relevant)
  BY <1>5, FS_Subset
<1>10. /\ r.num = Cardinality(hits)
       /\ r.num <= r.den
  <2>1. CASE relevant = {}
    <3>1. r.num = 0 /\ r.den = 1
      BY <2>1 DEF recall_at_k, Zero, Fraction
    <3>2. hits = {}
      BY <1>4, <2>1
    <3> QED
      BY <1>6, <3>1, <3>2
  <2>2. CASE relevant # {}
    <3>1. r.num = Cardinality(H) /\ r.den = Cardinality(relevant)
      BY <1>1, <1>5, <2>2 DEF recall_at_k, Fraction
    <3> QED
      BY <1>6, <1>9, <3>1
  <2> QED
    BY <2>1, <2>2
<1>11. /\ p.num = Cardinality(hits)
       /\ p.num <= p.den
  <2>1. CASE Len(t) = 0
    <3>1. p.num = 0 /\ p.den = 1
      BY <1>1, <1>3, <2>1 DEF precision_at_k, Zero, Fraction
    <3> QED
      BY <1>6, <2>1, <3>1
  <2>2. CASE Len(t) # 0
    <3>1. p.num = Cardinality(hits) /\ p.den = Len(t)
      BY <1>1, <1>3, <1>4, <2>2 DEF precision_at_k, Fraction
    <3> QED
      BY <1>6, <3>1
  <2> QED
    BY <2>1, <2>2
<1>12. Cardinality(hits) > 0 <=> rr.num > 0 /\ rr.den <= k
  <2>1. hits = {i \in ranks : i <= k}
    BY <1>2, <1>3, <1>4, <1>7
  <2>2. CASE ranks = {}
    <3>1. rr.num = 0
      BY <1>7, <2>2 DEF reciprocal_rank, Zero, Fraction
    <3>2. hits = {}
      BY <2>1, <2>2
    <3> QED
      BY <1>6, <3>1, <3>2
  <2>3. CASE ranks # {}
    <3> DEFINE least == CHOOSE i \in ranks : \A j \in ranks : i <= j
    <3>1. ranks \subseteq Nat
      BY <1>3, <1>7
    <3>2. \E i \in ranks : \A j \in ranks : i <= j
      BY <2>3, <3>1, Least
    <3>3. least \in ranks /\ \A j \in ranks : least <= j
      BY <3>2
    <3>4. rr.num = 1 /\ rr.den = least
      BY <1>7, <2>3 DEF reciprocal_rank, Fraction
    <3> HIDE DEF least, rr
    <3>5. hits # {} <=> least <= k
      <4>1. ASSUME NEW i \in hits PROVE least <= k
        <5>1. i \in ranks /\ i <= k /\ i \in Nat /\ least \in Nat
          BY <2>1, <3>1, <3>3
        <5>2. least <= i
          BY <3>3, <5>1
        <5> QED
          BY <5>1, <5>2
      <4>2. least <= k => least \in hits
        BY <2>1, <3>3
      <4> QED
        BY <4>1, <4>2
    <3> QED
      BY <1>6, <3>4, <3>5
  <2> QED
    BY <2>2, <2>3
<1> HIDE DEF r, p, rr
<1>13. r.num = p.num /\ (r.num > 0 <=> rr.num > 0 /\ rr.den <= k)
  BY <1>10, <1>11, <1>12
<1> QED
  BY <1>10, <1>11, <1>13 DEF r, p, rr

\* Whatever retrieve has cited, of whatever documents, and whatever labels a golden case
\* has: recall, precision and reciprocal rank are about the same hits.
THEOREM MetricsAlwaysAgree == RetrievalSpec => []MetricsAgree
<1>1. RetrievalInv => MetricsAgree
  <2> SUFFICES ASSUME RetrievalInv, done = "assemble",
                      NEW labels \in SUBSET Titles, NEW k \in Cutoffs
               PROVE  LET seen == Seen(citations)
                          relevant == RelevantIds(labels)
                          r == recall_at_k(seen, relevant, k)
                          p == precision_at_k(seen, relevant, k)
                          rr == reciprocal_rank(seen, relevant)
                      IN  /\ r.num = p.num
                          /\ r.num <= r.den /\ p.num <= p.den
                          /\ r.num > 0 <=> rr.num > 0 /\ rr.den <= k
    BY DEF MetricsAgree, Titles
  <2>1. PICK s \in Seq(Chunks) : s = citations
    BY DEF RetrievalInv, CitedInv
  <2>2. PICK seen : seen = Seen(citations)
    OBVIOUS
  <2>3. Ranking(seen, Titles)
    BY <2>1, <2>2, SeenOnce
  <2>4. PICK relevant : relevant = RelevantIds(labels)
    OBVIOUS
  <2>5. IsFiniteSet(relevant)
    <3>1. IsFiniteSet(Titles)
      <4> DEFINE f == [c \in Chunks |-> DocumentOf[c]]
      <4>1. f \in Surjection(Chunks, Titles)
        BY DEF Surjection, Titles
      <4> HIDE DEF f
      <4> QED
        BY <4>1, RetrievalConstants, FS_Surjection
    <3>2. relevant \in SUBSET Titles
      BY <2>4 DEF RelevantIds
    <3> QED
      BY <3>1, <3>2, FS_Subset
  <2>6. k \in Nat
    BY EvaluationConstants
  <2> QED
    BY <2>2, <2>3, <2>4, <2>5, <2>6, FiguresAgree
<1> QED
  BY <1>1, RetrievalInvariant, PTL
=============================================================================
