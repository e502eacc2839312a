------------------------------ MODULE Chunking ------------------------------
(***************************************************************************)
(* How the text of a document becomes chunks (src/pipeline/chunking/).     *)
(*                                                                         *)
(* chunk_pages runs the configured provider and, when it raises, the       *)
(* fallback provider on the same pages.  The recursive splitter takes the  *)
(* pages window by window and reports its progress after each; the         *)
(* deterministic provider takes them unit by unit (a unit is a block of a  *)
(* page, or a piece of one) and sifts its chunks at the end.               *)
(*                                                                         *)
(* A text is a sequence of words, each of one token; a page is a sequence  *)
(* of blocks, the texts between its blank lines.  A blank line and a line  *)
(* break are words of their own, Para and Line, of one token too.          *)
(* Headings and section titles are left out: the only content types are    *)
(* heading and body, and _merge_adjacent_chunks finds any two of them      *)
(* compatible.                                                             *)
(***************************************************************************)
EXTENDS Integers, Sequences, FiniteSets, SequencesExt

CONSTANTS
    Words,              \* the words of the documents
    Documents,          \* the documents to chunk: sequences of pages
    Line, Para,         \* a line break, a blank line
    Markup, Citation,   \* an HTML or LaTeX tag; a URL, "et al." or "[1]"
    MinTokens, MaxTokens, OverlapTokens,
    MaxPages,           \* max_pages_per_chunk
    WindowSize,         \* page_window_size
    PieceWords,         \* max_chars of split_page_into_units, in words
    OpeningWords        \* the 240 characters of a signature, in words

\* As in the defaults (100, 128, 450): a chunk of the least size fits in an
\* overlap, an overlap in a chunk, and two of the least size in a chunk.
ASSUME ChunkingAssumption ==
    /\ {MinTokens, MaxTokens, OverlapTokens, MaxPages, WindowSize,
        PieceWords, OpeningWords} \subseteq Nat \ {0}
    /\ MinTokens <= OverlapTokens
    /\ OverlapTokens < MaxTokens
    /\ 2 * MinTokens < MaxTokens

\* A block has no blank line in it.  Line breaks in a block are left out: they
\* are white space between two words, like any other.
ASSUME DocumentsAssumption ==
    /\ Documents \subseteq Seq(Seq(Seq(Words)))
    /\ {Line, Para} \intersect Words = {}
    /\ Line # Para

VARIABLES
    doc,        \* the pages, as get_pages returns them
    config,     \* [provider, fallback_provider]
    provider,   \* the provider at work; at the end, the result's
    status,     \* running, done or raised
    taken,      \* the units, or the windows, it has been through
    current,    \* current_units of the deterministic provider
    chunks,     \* its chunks so far; at the end, the chunks of the result
    dropped     \* the chunks reported as duplicates at the end

vars == <<doc, config, provider, status, taken, current, chunks, dropped>>

Recursive     == "recursive_splitter"
Deterministic == "deterministic"
Nobody        == "nobody"
PROVIDERS     == {Recursive, Deterministic}

Least(S)    == CHOOSE x \in S : \A y \in S : x <= y
Greatest(S) == CHOOSE x \in S : \A y \in S : y <= x

count_tokens(text)    == Len(text)
Joined(parts, sep) ==
    FoldLeft(LAMBDA acc, p : IF acc = <<>> THEN p ELSE acc \o <<sep>> \o p,
             <<>>, parts)

\* The members of s that are not in a set, in their order.
Without(s, out) ==
    FoldLeft(LAMBDA kept, x : IF x \in out THEN kept ELSE Append(kept, x), <<>>, s)

\* text.find(piece, from): where the piece first stands at or after from; 0
\* when it does not.
find(text, piece, from) ==
    LET at == {i \in from..(Len(text) - Len(piece) + 1) :
                 SubSeq(text, i, i + Len(piece) - 1) = piece}
    IN  IF at = {} THEN 0 ELSE Least(at)

\* str.strip
strip(text) ==
    LET word == {i \in DOMAIN text : text[i] \notin {Line, Para}}
    IN  IF word = {} THEN <<>> ELSE SubSeq(text, Least(word), Greatest(word))

-----------------------------------------------------------------------------
(* The deterministic provider                                              *)

Unit(page, text) == [page |-> page, text |-> text]

\* The units of a page: its blocks, a long one cut every max_chars.
split_page_into_units(page, blocks) ==
    LET pieces(b) == [k \in 1..((Len(b) + PieceWords - 1) \div PieceWords) |->
                        Unit(page, SubSeq(b, (k - 1) * PieceWords + 1,
                               Least({k * PieceWords, Len(b)})))]
    IN  FlattenSeq([i \in DOMAIN blocks |-> pieces(blocks[i])])

units == FlattenSeq([p \in DOMAIN doc |-> split_page_into_units(p, doc[p])])

UnitTokens(us) ==
    FoldLeft(LAMBDA total, u : total + count_tokens(u.text), 0, us)
PagesOf(us) == {us[i].page : i \in DOMAIN us}

is_reference_section(text) == Contains(text, Citation)

merge_units(us) ==
    LET text == Joined([i \in DOMAIN us |-> us[i].text], Para)
    IN  [text      |-> text,
         pages     |-> PagesOf(us),
         spans     |-> ToSet(us),
         reference |-> is_reference_section(text)]

page_start(c) == Least(c.pages)
page_end(c)   == Greatest(c.pages)

\* (defect) no overlap rather than one that is too short.
_select_overlap_units_enough(us) ==
    LET enough == {k \in DOMAIN us :
                     UnitTokens(SubSeq(us, k, Len(us))) >= OverlapTokens}
    IN  IF enough = {} THEN <<>> ELSE SubSeq(us, Greatest(enough), Len(us))

\* The shortest run of last units with at least the overlap, all of them when
\* there is none.
_select_overlap_units(us) ==
    LET enough == {k \in DOMAIN us :
                     UnitTokens(SubSeq(us, k, Len(us))) >= OverlapTokens}
    IN  IF enough = {} THEN us ELSE SubSeq(us, Greatest(enough), Len(us))

\* flush_chunk: a chunk below the least size is kept when it is forced or the
\* first.
flush_chunk(force) ==
    LET candidate == merge_units(current)
    IN  IF \/ force
           \/ count_tokens(candidate.text) >= MinTokens
           \/ chunks = <<>>
        THEN Append(chunks, candidate) ELSE chunks

\* normalize_text: a run of white space becomes one space.
normalize_text(text) == Without(text, {Line, Para})

signature(c) ==
    LET text == normalize_text(c.text)
    IN  <<page_start(c), page_end(c),
          SubSeq(text, 1, Least({OpeningWords, Len(text)}))>>

SamePages(c, d) == page_start(c) = page_start(d) /\ page_end(c) = page_end(d)

contained(c, prev) ==
    /\ SamePages(c, prev)
    /\ Len(normalize_text(c.text)) < Len(normalize_text(prev.text))
    /\ find(normalize_text(prev.text), normalize_text(c.text), 1) # 0

\* The chunks left and those dropped because one of the same pages begins
\* alike.
_dedupe_chunks(cs) ==
    LET sift(acc, c) ==
          IF signature(c) \in acc.seen
          THEN [acc EXCEPT !.dropped = Append(@, c)]
          ELSE IF acc.kept # <<>> /\ contained(c, Last(acc.kept)) THEN acc
          ELSE [acc EXCEPT !.kept = Append(@, c),
                           !.seen = @ \union {signature(c)}]
    IN  FoldLeft(sift, [kept |-> <<>>, dropped |-> <<>>, seen |-> {}], cs)

mergeable(prev, c) ==
    /\ prev.reference = c.reference
    /\ page_start(c) <= page_end(prev) + 1
    /\ \/ Cardinality(prev.pages \union c.pages) = 1
       \/ count_tokens(prev.text) + count_tokens(c.text)
            <= (MaxTokens * 9) \div 5

_merge_adjacent_chunks(cs) ==
    LET merge(prev, c) ==
          [text      |-> Joined(<<prev.text, c.text>>, Para),
           pages     |-> prev.pages \union c.pages,
           spans     |-> prev.spans \union c.spans,
           reference |-> prev.reference]
        add(acc, c) ==
          IF acc # <<>> /\ mergeable(Last(acc), c)
          THEN Append(Front(acc), merge(Last(acc), c))
          ELSE Append(acc, c)
    IN  FoldLeft(add, <<>>, cs)

\* The chunks of the least size, the only chunk whatever its size.
filtered_chunks(cs) ==
    IF Len(cs) = 1 THEN cs
    ELSE Without(cs, {c \in ToSet(cs) : count_tokens(c.text) < MinTokens})

-----------------------------------------------------------------------------
(* The recursive splitter                                                  *)

\* Markup goes, and so does every empty line: what was a blank line between
\* two blocks is a line break.
clean_and_format_text(blocks) ==
    LET cleaned == [i \in DOMAIN blocks |-> Without(blocks[i], {Markup})]
    IN  Joined(Without(cleaned, {<<>>}), Line)

\* The pages of a window with any text, joined, and where each of them stands.
BuildPage(acc, page) ==
    LET cleaned == clean_and_format_text(doc[page])
        text == Joined(<<acc.text, cleaned>>, Para)
    IN  IF cleaned = <<>> THEN acc
        ELSE [text |-> text,
              offsets |-> Append(acc.offsets,
                [page |-> page, first |-> Len(text) - Len(cleaned) + 1,
                 last |-> Len(text)])]

_build_window_text(window) ==
    FoldLeft(BuildPage, [text |-> <<>>, offsets |-> <<>>], window)

\* RecursiveCharacterTextSplitter: a text is cut before each separator, short
\* pieces are put together up to the size of a chunk, each chunk beginning
\* with what fits of the overlap, and a piece that is too long is cut by the
\* next separator.
Cuts(text, sep) ==
    FoldLeft(LAMBDA acc, w :
               IF acc = <<>> \/ w = sep THEN Append(acc, <<w>>)
               ELSE Append(Front(acc), Append(Last(acc), w)),
             <<>>, text)

LengthOf(pieces) == Len(FlattenSeq(pieces))

\* The last pieces that are an overlap and leave room for the next.
OverlapFor(piece, pieces) ==
    LET rest(k) == SubSeq(pieces, k, Len(pieces))
    IN  rest(Least({k \in 1..(Len(pieces) + 1) :
               /\ LengthOf(rest(k)) <= OverlapTokens
               /\ \/ LengthOf(rest(k)) = 0
                  \/ LengthOf(rest(k)) + Len(piece) <= MaxTokens}))

MergeSplit(acc, piece) ==
    IF acc.now # <<>> /\ LengthOf(acc.now) + Len(piece) > MaxTokens
    THEN [done |-> Append(acc.done, strip(FlattenSeq(acc.now))),
          now |-> Append(OverlapFor(piece, acc.now), piece)]
    ELSE [acc EXCEPT !.now = Append(@, piece)]

MergeSplits(pieces) ==
    LET end == FoldLeft(MergeSplit, [done |-> <<>>, now |-> <<>>], pieces)
    IN  Without(Append(end.done, strip(FlattenSeq(end.now))), {<<>>})

\* A piece goes to the short ones, or what the next separator makes of it after
\* them.
Split(acc, piece, deeper) ==
    IF Len(piece) < MaxTokens
    THEN [acc EXCEPT !.good = Append(@, piece)]
    ELSE [done |-> acc.done \o MergeSplits(acc.good) \o deeper, good |-> <<>>]
Unsplit == [done |-> <<>>, good |-> <<>>]
AllOf(acc) == acc.done \o MergeSplits(acc.good)

SplitWords(text) == MergeSplits([i \in DOMAIN text |-> <<text[i]>>])
SplitLines(text) ==
    AllOf(FoldLeft(LAMBDA acc, piece : Split(acc, piece, SplitWords(piece)),
                   Unsplit, Cuts(text, Line)))
split_text(text) ==
    AllOf(FoldLeft(LAMBDA acc, piece : Split(acc, piece, SplitLines(piece)),
                   Unsplit, Cuts(text, Para)))

\* What is too small for a chunk.
crumbs(texts) == {t \in ToSet(texts) : count_tokens(t) < MinTokens}

\* (defect) a chunk of exactly the greatest size is let go.
chunk_text_with_tokens_below(text) ==
    LET fit(c) ==
          IF count_tokens(c) > MaxTokens
          THEN Without(split_text(c), crumbs(split_text(c)))
          ELSE IF count_tokens(c) \in MinTokens..(MaxTokens - 1) THEN <<c>>
          ELSE <<>>
        raw == split_text(text)
    IN  FlattenSeq([i \in DOMAIN raw |-> fit(raw[i])])

\* A chunk that is too small is let go, one that is too large split again.
chunk_text_with_tokens(text) ==
    LET fit(c) ==
          IF count_tokens(c) > MaxTokens
          THEN Without(split_text(c), crumbs(split_text(c)))
          ELSE IF count_tokens(c) >= MinTokens THEN <<c>> ELSE <<>>
        raw == split_text(text)
    IN  FlattenSeq([i \in DOMAIN raw |-> fit(raw[i])])

_spans_for_range(offsets, from, to) ==
    {[page |-> o.page, first |-> Greatest({from, o.first}) - o.first + 1,
      last |-> Least({to, o.last}) - o.first + 1] :
        o \in {o \in ToSet(offsets) : o.first <= to /\ o.last >= from}}

_pages_for_span(offsets, from, to) ==
    {o.page : o \in {o \in ToSet(offsets) : o.first <= to /\ o.last >= from}}

\* (defect) behind the chunk found, as if chunks did not overlap.
search_from_end(found, piece) == found + Len(piece)

\* Where the search for the next chunk begins: where this one was found.
search_from(found, piece) == found

\* A chunk is looked for in the window's text from where the one before was
\* found, then from the beginning.
Place(built, acc, raw) ==
    LET next == find(built.text, raw, acc.from)
        found == IF next = 0 THEN find(built.text, raw, 1) ELSE next
        end == found + Len(raw) - 1
    IN  [from |-> search_from(found, raw),
         placed |-> Append(acc.placed,
           [text      |-> strip(raw),
            pages     |-> _pages_for_span(built.offsets, found, end),
            spans     |-> _spans_for_range(built.offsets, found, end),
            reference |-> is_reference_section(raw)])]

WindowChunks(window) ==
    LET built == _build_window_text(window)
    IN  IF built.text = <<>> THEN <<>>
        ELSE FoldLeft(LAMBDA acc, raw : Place(built, acc, raw),
                      [from |-> 1, placed |-> <<>>],
                      chunk_text_with_tokens(built.text)).placed

-----------------------------------------------------------------------------
(* chunk_pages                                                             *)

Init ==
    /\ doc \in Documents
    /\ config \in [provider : PROVIDERS,
                   fallback_provider : PROVIDERS \union {Nobody}]
    /\ provider = config.provider
    /\ taken = 0 /\ current = <<>> /\ chunks = <<>> /\ dropped = <<>>
    /\ status = "running"

\* A window of the recursive splitter: range(0, len(pages), page_window_size).
TakeWindow ==
    LET window == [i \in 1..Least({WindowSize, Len(doc) - taken}) |-> taken + i]
    IN  /\ status = "running" /\ provider = Recursive /\ taken < Len(doc)
        /\ chunks' = chunks \o WindowChunks(window)
        /\ taken' = taken + Len(window)
        /\ UNCHANGED <<doc, config, provider, status, current, dropped>>

EndRecursive ==
    /\ status = "running" /\ provider = Recursive /\ taken = Len(doc)
    /\ status' = "done"
    /\ UNCHANGED <<doc, config, provider, taken, current, chunks, dropped>>

\* A unit of the deterministic provider: it closes the chunk it would make too
\* long or of too many pages, and goes into the next one.
TakeUnit ==
    LET unit == units[taken + 1]
        would_exceed_pages ==
          Cardinality(PagesOf(current) \union {unit.page}) > MaxPages
        would_exceed_tokens ==
          /\ current # <<>>
          /\ UnitTokens(current) + count_tokens(unit.text) > MaxTokens
        full == would_exceed_pages \/ would_exceed_tokens
    IN  /\ status = "running" /\ provider = Deterministic /\ taken < Len(units)
        /\ chunks' = IF full THEN flush_chunk(UnitTokens(current) >= MinTokens)
                     ELSE chunks
        /\ current' = Append(IF full THEN _select_overlap_units(current)
                             ELSE current, unit)
        /\ taken' = taken + 1
        /\ UNCHANGED <<doc, config, provider, status, dropped>>

EndDeterministic ==
    LET all == IF current = <<>> THEN chunks ELSE flush_chunk(TRUE)
        sifted == _dedupe_chunks(filtered_chunks(all))
    IN  /\ status = "running" /\ provider = Deterministic /\ taken = Len(units)
        /\ chunks' = _merge_adjacent_chunks(sifted.kept)
        /\ dropped' = sifted.dropped
        /\ status' = "done"
        /\ UNCHANGED <<doc, config, provider, taken, current>>

\* The provider raises, in the tokenizer, in the splitter or in the callback
\* that writes its progress: what it has made is gone.  The fallback begins
\* again on the same pages; when it is the same provider, or none, or raises
\* itself, chunk_pages raises.
Raise ==
    /\ status = "running"
    /\ IF /\ provider = config.provider
          /\ config.fallback_provider \in PROVIDERS \ {config.provider}
       THEN provider' = config.fallback_provider /\ status' = status
       ELSE status' = "raised" /\ provider' = provider
    /\ taken' = 0 /\ current' = <<>> /\ chunks' = <<>> /\ dropped' = <<>>
    /\ UNCHANGED <<doc, config>>

Next ==
    \/ TakeWindow \/ EndRecursive
    \/ TakeUnit \/ EndDeterministic
    \/ Raise

Spec == Init /\ [][Next]_vars

-----------------------------------------------------------------------------
(* What the chunks keep of the document                                    *)

Ended(p) == status = "done" /\ provider = p

\* White space aside: a chunk dropped because it is contained in another is
\* compared with it after normalize_text, too.
Holds(c, u) ==
    /\ u.page \in c.pages
    /\ find(normalize_text(c.text), normalize_text(u.text), 1) # 0

\* The search index gets the whole of a reviewed document from the
\* deterministic provider, whose chunks are closed, sifted and merged in four
\* passes: every unit is in a chunk of the result or in one dropped because a
\* chunk of its pages begins alike.  A document of less text than a chunk
\* needs may have no chunk at all (filtered_chunks).
NothingLost ==
    Ended(Deterministic) =>
        \/ chunks = <<>> /\ UnitTokens(units) < MinTokens
        \/ \A u \in ToSet(units) :
             \E c \in ToSet(chunks \o dropped) : Holds(c, u)

\* A chunk reported as a "duplicate" (deterministic.py:40) repeats a chunk of
\* the result: nothing is lost with it.
DroppedIsDuplicate ==
    \A d \in ToSet(dropped), u \in ToSet(units) :
        u \in d.spans => \E c \in ToSet(chunks) : Holds(c, u)

\* Chunks are numbered in the order of the document, although a text that
\* occurs twice is looked for by what it says: no chunk begins on a page before
\* the page of the chunk it follows.
PagesInOrder ==
    \A i, j \in DOMAIN chunks :
        i < j => page_start(chunks[i]) <= page_start(chunks[j])

\* Of a document that repeats no word, the recursive splitter drops only
\* crumbs: among any MinTokens words in a row of a page one is in a chunk.  A
\* text below the least size is dropped wherever a long paragraph follows or the
\* window ends, and two such texts never meet: the rest of a long paragraph
\* begins with an overlap, which is of the least size already.
OnlyCrumbsLost ==
    LET once(p, q) ==
          LET x == clean_and_format_text(doc[p])
              y == clean_and_format_text(doc[q])
          IN  \A i \in DOMAIN x, j \in DOMAIN y :
                x[i] = y[j] /\ x[i] # Line => p = q /\ i = j
        spans == UNION {c.spans : c \in ToSet(chunks)}
        lost(p, i, j) ==
          \A s \in spans : s.page = p => s.first..s.last \intersect i..j = {}
        complete(p) ==
          LET text == clean_and_format_text(doc[p])
          IN  \A i, j \in DOMAIN text :
                lost(p, i, j) =>
                  count_tokens(normalize_text(SubSeq(text, i, j))) < MinTokens
    IN  Ended(Recursive) /\ (\A p, q \in DOMAIN doc : once(p, q)) =>
            \A p \in DOMAIN doc : complete(p)
=============================================================================
