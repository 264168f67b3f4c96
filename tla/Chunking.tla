------------------------------ MODULE Chunking ------------------------------
(***************************************************************************)
(* How a textbook becomes chunks that name their place in it: the table of *)
(* contents with the page range of each entry (kb/toc_parser.py), the      *)
(* pages that cleaning leaves (kb/cleaner.py), and the chunker             *)
(* (kb/chunker.py), which files every stretch of a page under the entry it *)
(* continues and splits it at paragraphs.  A page is a sequence of runs:   *)
(* the text before its first heading, then each heading with its text.     *)
(* Recognising a heading in the text is left out.                          *)
(***************************************************************************)
EXTENDS Naturals, Sequences, FiniteSets, SequencesExt, FiniteSetsExt, Functions, TLC

CONSTANTS Toc,         \* the entries in order, each [path, page]
          LastPage,
          Texts,       \* what a run may hold: its paragraphs
          ChunkSize, MaxSize, Overlap, LeastTail

VARIABLES page,        \* the page at hand
          text,        \* its runs, each [entry, paras]; the first has entry 0
          previous,    \* where the text before it ended: [path, page]
          spans,       \* what is left of it to split, the first in work
          open,        \* the chunk in work, a sequence of parts
          chunks       \* the chunks of the page

vars == <<page, text, previous, spans, open, chunks>>

Entries == DOMAIN Toc
Depth(i) == Len(Toc[i].path)
ChapterOf(i) == Toc[i].path[1]
Nowhere == [path |-> <<>>, page |-> 0]

-----------------------------------------------------------------------------
(* The table of contents                                                   *)

Parent(i) == {j \in Entries : Toc[j].path = Front(Toc[i].path)}
NextSiblings(i) == {j \in Entries : j > i /\ Depth(j) = Depth(i) /\ Parent(j) = Parent(i)}

(* _calculate_end_pages: to before the next sibling, or as far as the      *)
(* parent, or to the end of the book.                                      *)
EndPage[i \in Entries] ==
    IF NextSiblings(i) # {} THEN Toc[Min(NextSiblings(i))].page - 1
    ELSE IF Depth(i) > 1 THEN EndPage[CHOOSE j \in Parent(i) : TRUE]
    ELSE LastPage

Covers(i, p) == p \in Toc[i].page .. Max({EndPage[i], Toc[i].page})

(* _get_chapter_by_page: the first that contains it, if any.               *)
ChapterAt(p) == {i \in Entries : Depth(i) = 1 /\ Covers(i, p)}
Chapter(p) == ChapterOf(Min(ChapterAt(p)))

-----------------------------------------------------------------------------
(* _page_spans                                                             *)

(* The entry of S that is last by page, then depth, then order.            *)
LastOf(S) == CHOOSE i \in S : \A j \in S :
                 \/ Toc[j].page < Toc[i].page
                 \/ Toc[j].page = Toc[i].page /\ (Depth(j) < Depth(i) \/ (Depth(j) = Depth(i) /\ j <= i))

(* The deepest of S, of these the last by page, then by order.             *)
DeepestOf(S) == CHOOSE i \in S : \A j \in S :
                    \/ Depth(j) < Depth(i)
                    \/ Depth(j) = Depth(i) /\ (Toc[j].page < Toc[i].page \/ (Toc[j].page = Toc[i].page /\ j <= i))

(* The headings that are boundaries: of the page's chapter.                *)
Boundaries(p, runs) ==
    {r \in DOMAIN runs : runs[r].entry # 0 /\ ChapterOf(runs[r].entry) = Chapter(p)}

(* Mutant of Continues: whatever page was last.                            *)
ContinuesAnyhow(before, p) == before.path # <<>> /\ Head(before.path) = Chapter(p)

(* Whether the last page's path goes on: it is adjacent, and of the same   *)
(* chapter.                                                                *)
Continues(before, p) == /\ before.page + 1 = p
                        /\ before.path # <<>> /\ Head(before.path) = Chapter(p)

(* Where the text before the first boundary belongs.                       *)
LeadingPath(before, p, runs) ==
    LET heads == Boundaries(p, runs)
        ofChapter == {i \in Entries : ChapterOf(i) = Chapter(p)}
        near == IF heads = {} THEN {i \in ofChapter : Covers(i, p)}
                ELSE {i \in ofChapter : Toc[i].page < Toc[runs[Min(heads)].entry].page}
    IN  IF Continues(before, p) THEN before.path
        ELSE IF near = {} THEN <<Chapter(p)>>
        ELSE Toc[IF heads = {} THEN DeepestOf(near) ELSE LastOf(near)].path

(* The paragraphs of runs from one to another, each with its place.        *)
Paragraphs(runs, from, to) ==
    FlattenSeq([k \in 1 .. to - from + 1 |->
        [n \in DOMAIN runs[from + k - 1].paras |->
            [run |-> from + k - 1, index |-> n] @@ runs[from + k - 1].paras[n]]])

SpansOf(before, p, runs) ==
    IF ChapterAt(p) = {} THEN <<[path |-> <<>>, paras |-> Paragraphs(runs, 1, Len(runs))]>>
    ELSE LET starts == {1} \union Boundaries(p, runs)
             spanAt(r) == [path |-> IF r = 1 THEN LeadingPath(before, p, runs) ELSE Toc[runs[r].entry].path,
                           paras |-> Paragraphs(runs, r,
                               IF \E s \in starts : s > r THEN Min({s \in starts : s > r}) - 1 ELSE Len(runs))]
         IN  SelectSeq([k \in 1 .. Cardinality(starts) |->
                           spanAt(CHOOSE r \in starts : Cardinality({s \in starts : s <= r}) = k)],
                       LAMBDA span : span.paras # <<>>)

-----------------------------------------------------------------------------
(* _split_by_semantic                                                      *)

Size(parts) == FoldFunction(LAMBDA part, sum : part.size + sum, 0, parts)

(* What a new chunk repeats of the one before: its last parts as far as    *)
(* they fit, and the end of the next one if enough room is left.           *)
Repeated(parts) ==
    LET fit == Max({n \in 0 .. Len(parts) : Size(SubSeq(parts, Len(parts) - n + 1, Len(parts))) <= Overlap})
        whole == SubSeq(parts, Len(parts) - fit + 1, Len(parts))
        room == Overlap - Size(whole)
        cut == IF fit < Len(parts) /\ room > LeastTail
               THEN <<[parts[Len(parts) - fit] EXCEPT !.size = room, !.counts = FALSE]>> ELSE <<>>
    IN  [n \in DOMAIN (cut \o whole) |-> [(cut \o whole)[n] EXCEPT !.repeated = TRUE]]

(* current_size, which leaves out the cut end of a part.                   *)
Counted(parts) == Size(SelectSeq(parts, LAMBDA part : part.counts))

Part(para) == [run |-> para.run, index |-> para.index, size |-> para.size, repeated |-> FALSE, counts |-> TRUE]

(* Code goes on in the next paragraph.                                     *)
CodeContinues(paras) ==
    /\ paras[1].code # "none"
    /\ paras[1].code = "open" \/ (Len(paras) > 1 /\ paras[2].code # "none")

SplitsBefore(paras) ==
    LET size == Counted(open) + paras[1].size
    IN  open # <<>> /\ (size > MaxSize \/ (size > ChunkSize /\ ~CodeContinues(paras)))

Chunk(parts) == [path |-> spans[1].path, parts |-> parts]

AddParagraph ==
    /\ spans # <<>> /\ spans[1].paras # <<>> /\ spans[1].paras[1].size <= MaxSize
    /\ LET paras == spans[1].paras
       IN  IF SplitsBefore(paras)
           THEN /\ chunks' = Append(chunks, Chunk(open))
                /\ open' = Append(Repeated(open), Part(paras[1]))
           ELSE /\ open' = Append(open, Part(paras[1]))
                /\ UNCHANGED chunks
    /\ spans' = [spans EXCEPT ![1].paras = Tail(@)]
    /\ UNCHANGED <<page, text, previous>>

(* _split_large_paragraph: at a sign in the second half, or where it must. *)
(* (Cutting at sentences is never reached.)                                *)
CutParagraph ==
    /\ spans # <<>> /\ spans[1].paras # <<>> /\ spans[1].paras[1].size > MaxSize
    /\ \E size \in (MaxSize + 1) \div 2 .. MaxSize :
          LET para == spans[1].paras[1]
          IN  spans' = [spans EXCEPT ![1].paras = <<[para EXCEPT !.size = size],
                                                    [para EXCEPT !.size = @ - size]>> \o Tail(@)]
    /\ UNCHANGED <<page, text, previous, open, chunks>>

EndSpan ==
    /\ spans # <<>> /\ spans[1].paras = <<>>
    /\ chunks' = Append(chunks, Chunk(open))
    /\ open' = <<>>
    /\ spans' = Tail(spans)
    /\ UNCHANGED <<page, text, previous>>

-----------------------------------------------------------------------------
(* chunk_document                                                          *)

(* What may stand on a page: something before the headings or not, and     *)
(* each entry that starts there with its text.                             *)
PageTexts(p) ==
    LET entries == SetToSortSeq({i \in Entries : Toc[i].page = p}, LAMBDA i, j : i < j)
    IN  {<<[entry |-> 0, paras |-> paras[1]]>>
             \o [k \in DOMAIN entries |-> [entry |-> entries[k], paras |-> paras[k + 1]]] :
            paras \in {f \in [1 .. Len(entries) + 1 -> Texts \union {<<>>}] :
                           /\ \A k \in 2 .. Len(entries) + 1 : f[k] # <<>>
                           /\ Len(entries) = 0 => f[1] # <<>>}}

Init ==
    /\ page = 0 /\ text = <<>> /\ previous = Nowhere
    /\ spans = <<>> /\ open = <<>> /\ chunks = <<>>

(* previous_path and previous_page, forgotten after a page without text.   *)
Before == IF text = <<>> THEN Nowhere ELSE [path |-> Last(chunks).path, page |-> page]

(* The next page that has text; pages may be missing from the file.        *)
ReadPage(p) ==
    /\ spans = <<>> /\ p > page
    /\ page' = p
    /\ \E runs \in PageTexts(p) : text' = runs /\ spans' = SpansOf(Before, p, runs)
    /\ previous' = Before
    /\ open' = <<>> /\ chunks' = <<>>

(* A page that cleaning left nothing of.                                   *)
BlankPage(p) ==
    /\ spans = <<>> /\ p > page
    /\ page' = p
    /\ previous' = Nowhere
    /\ text' = <<>> /\ open' = <<>> /\ chunks' = <<>>
    /\ UNCHANGED spans

Next ==
    \/ \E p \in 1 .. LastPage : ReadPage(p) \/ BlankPage(p)
    \/ AddParagraph \/ CutParagraph \/ EndSpan

Spec == Init /\ [][Next]_vars

-----------------------------------------------------------------------------

(* The entry a run is really of: its heading's, or the last that starts    *)
(* before the page.                                                        *)
Owner(r) ==
    IF text[r].entry # 0 THEN Toc[text[r].entry].path
    ELSE LET before == {i \in Entries : Toc[i].page < page}
         IN  IF before = {} THEN <<>> ELSE Toc[Max(before)].path

(* Every chunk names the entry its text is of, its end and its beginning   *)
(* alike, wherever pages are missing, with two exceptions: text of the     *)
(* last chapter on the page where the next one starts goes to the next,    *)
(* and text before the first heading of a page whose predecessor is        *)
(* missing may go to another entry that starts on the same page as its     *)
(* own.  Nothing is lost or put in another order, what a chunk repeats is  *)
(* the end of the one before under the same entry, and no chunk is larger  *)
(* than the limit and an overlap.                                          *)
ChunksAreFiled ==
    spans = <<>> /\ text # <<>> =>
        LET own(n) == SelectSeq(chunks[n].parts, LAMBDA part : ~part.repeated)
            all == FlattenSeq([n \in DOMAIN chunks |-> own(n)])
            alone == ~Continues(previous, page) /\ text[1].paras # <<>> /\ \E r \in DOMAIN text : text[r].entry # 0
        IN  /\ \A n \in DOMAIN chunks :
                  /\ Size(chunks[n].parts) <= MaxSize + Overlap
                  /\ \A k \in DOMAIN own(n) :
                        LET owner == Owner(own(n)[k].run)
                            path == chunks[n].path
                        IN  IF ChapterAt(page) = {} THEN path = <<>>
                            ELSE IF owner = <<>> \/ owner[1] # Chapter(page) THEN path[1] = Chapter(page)
                            ELSE \/ path = owner
                                 \/ /\ own(n)[k].run = 1 /\ alone
                                    /\ \E i, j \in Entries : /\ Toc[i].path = path /\ Toc[j].path = owner
                                                             /\ Toc[i].page = Toc[j].page
                  /\ \A k \in DOMAIN chunks[n].parts : chunks[n].parts[k].repeated =>
                        /\ n > 1 /\ chunks[n - 1].path = chunks[n].path
                        /\ \E m \in DOMAIN chunks[n - 1].parts :
                              /\ chunks[n - 1].parts[m].run = chunks[n].parts[k].run
                              /\ chunks[n - 1].parts[m].index = chunks[n].parts[k].index
            /\ \A m, n \in DOMAIN all : m < n =>
                  \/ all[m].run < all[n].run
                  \/ all[m].run = all[n].run /\ all[m].index <= all[n].index
            /\ \A r \in DOMAIN text : \A k \in DOMAIN text[r].paras :
                  Size(SelectSeq(all, LAMBDA part : part.run = r /\ part.index = k)) = text[r].paras[k].size

=============================================================================
