---------------------------- MODULE MCOperations ----------------------------
(***************************************************************************)
(* Each part of Operations on a small instance.                            *)
(***************************************************************************)
EXTENDS Operations, TLC

Skill(name, fires, blocks) ==
    [name |-> name, fires |-> fires, blocks |-> blocks, words |-> 1, priority |-> 0]

MCSkills == {Skill("path", 1, 0), Skill("path", 1, 1), Skill("code", 2, 0)}

\* The last message's rule title is the default one.
MCTopic == [m1 |-> "t1", m2 |-> "t2", m3 |-> "new"]

\* What successive parses of a source yield: chunks are added and replaced.
MCParses == {{"a"}, {"a", "b"}, {"b", "c"}}

Entry(path, page) == [path |-> path, page |-> page]

MCToc == <<Entry(<<1>>, 2), Entry(<<1, 1>>, 2), Entry(<<1, 1, 1>>, 3),
           Entry(<<1, 2>>, 3), Entry(<<2>>, 5)>>

Paragraph(size, code) == [size |-> size, code |-> code]

\* Paragraphs of plain text, a code block, and one larger than a chunk may be.
MCChapters == {<<Paragraph(3, "none"), Paragraph(2, "none"), Paragraph(4, "none")>>,
               <<Paragraph(2, "open"), Paragraph(3, "closed"), Paragraph(4, "none")>>,
               <<Paragraph(9, "none")>>}

Sentence(anchored, opens, breaks, text, formulas, members) ==
    [anchored |-> anchored, opens |-> opens, breaks |-> breaks, whole |-> TRUE,
     text |-> text, size |-> 1, formulas |-> formulas, members |-> members]

MCSentences ==
    {Sentence(TRUE, FALSE, FALSE, "law", {<<"f", "f=1">>}, {"x", "y"}),
     Sentence(TRUE, FALSE, TRUE, "rival", {<<"f", "f=2">>}, {"y"}),
     Sentence(TRUE, FALSE, FALSE, "name", {}, {"x"}),
     Sentence(FALSE, TRUE, FALSE, "it", {}, {}),
     Sentence(FALSE, FALSE, FALSE, "other", {}, {})}

Page(n, ok) == [number |-> n, source |-> "book", intact |-> ok]

MCDocuments ==
    {[kind |-> "plain", center |-> 1, pages |-> <<>>],
     [kind |-> "framed", center |-> 2, pages |-> <<Page(1, TRUE), Page(2, TRUE)>>],
     [kind |-> "framed", center |-> 2, pages |-> <<Page(1, TRUE), Page(2, FALSE)>>],
     [kind |-> "contents", center |-> 1, pages |-> <<>>]}

Chunk(id, text) == [id |-> id, text |-> text]

\* The frozen bundle, one that names a chunk twice, and one of other pages.
MCBundles ==
    {[hash |-> "frozen", pages |-> 1, chunks |-> <<Chunk("a", "t"), Chunk("b", "u")>>],
     [hash |-> "other", pages |-> 1,
      chunks |-> <<Chunk("a", "t"), Chunk("b", "u"), Chunk("a", "t")>>],
     [hash |-> "other", pages |-> 2, chunks |-> <<Chunk("a", "w"), Chunk("b", "u")>>]}

MCManifests == {[hash |-> "frozen", bundle |-> "frozen", count |-> 2, frozen |-> TRUE],
                [hash |-> "later", bundle |-> "frozen", count |-> 3, frozen |-> TRUE]}

\* What the pages of a bundle say.
MCBundleTexts == <<{"t", "u"}, {"u"}>>

\* Callers stands for the other sets of two of its elements, Students likewise.
Symmetry == Permutations(Callers) \cup Permutations(Students)
=============================================================================
