-------------------------- MODULE EvidenceSelection --------------------------
(***************************************************************************)
(* Which sentences of the retrieved documents become the evidence that a   *)
(* quiz is generated from: select_evidence_spans reads document after      *)
(* document, sentence after sentence, keeps what names the target or       *)
(* directly continues a sentence that does, and finally removes spans that *)
(* contradict each other.                                                  *)
(*                                                                         *)
(* A sentence is the record of what the code asks of it: whether an anchor *)
(* of the target occurs (anchored), whether it opens like a continuation   *)
(* (opens), whether a heading or a blank line stands before it (breaks),   *)
(* whether it is whole (a terminator, balanced brackets, at most 1200      *)
(* characters, no malformed formula), its text up to similarity, its size, *)
(* its formulas as <<left side, formula>>, and the members of the target   *)
(* it names.  The documents come in any order and hold any sentences.      *)
(***************************************************************************)
EXTENDS Integers, Sequences, FiniteSets, Functions

CONSTANTS Documents,    \* [kind, center, pages], what may be retrieved
          Sentences,    \* what may stand in them
          Members,      \* the declared members of the target
          MaxDocuments, \* documents retrieved
          MaxSentences, \* bound on the sentences of a document
          MaxSources,   \* spans a quiz may rest on
          MaxChars,     \* their characters
          None

VARIABLES taken,     \* documents looked at
          window,    \* the document being read, or None
          seen,      \* texts accepted so far
          remaining, \* characters left
          spans,     \* the spans so far
          evidence   \* what the selection returns, or None

vars == <<taken, window, seen, remaining, spans, evidence>>

(***************************************************************************)
(* The pages a document with provenance is read in: the stored text agrees *)
(* with its hash, and the reader returns at most three consecutive pages   *)
(* of the same source around its own, all of them unchanged.  Any other    *)
(* document is read as it is, unless Marker wrote it without provenance.   *)
(***************************************************************************)
Assembles(d) ==
    \/ d.kind = "plain"
    \/ /\ d.kind = "framed"
       /\ Len(d.pages) <= 3
       /\ \E i \in DOMAIN d.pages : d.pages[i].number = d.center
       /\ \A i \in DOMAIN d.pages :
             /\ d.pages[i].intact
             /\ d.pages[i].source = d.pages[1].source
             /\ d.pages[i].number \in d.center - 1 .. d.center + 1
             /\ i > 1 => d.pages[i].number = d.pages[i - 1].number + 1

Reach == 2   \* sentences an anchor carries

NoAnchor == -10

Neutral(s) == ~s.anchored /\ ~s.opens

(***************************************************************************)
(* Spans whose formulas give one left side two formulas are all dropped;   *)
(* the others keep their places.                                           *)
(***************************************************************************)
Formulas(span) == UNION {s.formulas : s \in span.sentences}

Conflicting(all) ==
    {f[1] : f \in {g \in UNION {Formulas(all[i]) : i \in DOMAIN all} :
                     \E h \in UNION {Formulas(all[i]) : i \in DOMAIN all} :
                        h[1] = g[1] /\ h # g}}

WithoutConflicts(all) ==
    Restrict(all, {i \in DOMAIN all : \A f \in Formulas(all[i]) : f[1] \notin Conflicting(all)})

Covered(all) == UNION {UNION {s.members : s \in all[i].sentences} : i \in DOMAIN all}

(* Without support for every member the selection is empty (ResultOfAll:   *)
(* support asked of the contradictory spans too).                          *)
ResultOfAll(all) == IF Covered(all) = Members THEN WithoutConflicts(all) ELSE <<>>

Result(all) == IF Covered(WithoutConflicts(all)) = Members THEN WithoutConflicts(all) ELSE <<>>

Init == /\ taken = 0
        /\ window = None
        /\ seen = {}
        /\ remaining = MaxChars
        /\ spans = <<>>
        /\ evidence = None

-----------------------------------------------------------------------------
(* The next document: a table of contents or one whose provenance does not *)
(* hold is passed over.  Of a framed window the first and the last         *)
(* sentence are cut off by the page and are not used.                      *)
Take ==
    /\ evidence = None /\ window = None
    /\ taken < MaxDocuments /\ Len(spans) < MaxSources
    /\ taken' = taken + 1
    /\ \E d \in Documents :
         window' = IF d.kind = "contents" \/ ~Assembles(d) THEN None
                   ELSE [cut |-> d.kind = "framed", read |-> <<>>, kept |-> {}, anchor |-> NoAnchor]
    /\ UNCHANGED <<seen, remaining, spans, evidence>>

(***************************************************************************)
(* The anchor that is in force when a sentence is read, after a heading or *)
(* a blank line (none) and after a sentence that neither names the target  *)
(* nor continues (none; AnchorKept: the same one).                         *)
(***************************************************************************)
Continues(s, i) == s.opens /\ ~s.breaks /\ i - window.anchor <= Reach

AnchorKept(s, i) == IF s.breaks THEN NoAnchor ELSE window.anchor

AnchorAfter(s, i) ==
    IF s.breaks \/ ~(s.anchored \/ Continues(s, i)) THEN NoAnchor ELSE window.anchor

Cost(s) == s.size + (IF window.kept = {} THEN 0 ELSE 1)

Accepted(s, i) ==
    /\ s.anchored \/ Continues(s, i)
    /\ s.whole
    /\ s.text \in seen => s.formulas # {}
    /\ Cost(s) <= remaining

Read ==
    /\ window # None
    /\ Len(window.read) < MaxSentences
    /\ \E s \in Sentences :
         LET i == Len(window.read) + 1
             first == window.cut /\ i = 1
         IN IF ~first /\ Accepted(s, i)
            THEN /\ window' = [window EXCEPT !.read = Append(@, s), !.kept = @ \cup {i},
                                 !.anchor = IF s.anchored THEN i ELSE AnchorAfter(s, i)]
                 /\ seen' = seen \cup {s.text}
                 /\ remaining' = remaining - Cost(s)
            ELSE /\ window' = [window EXCEPT !.read = Append(@, s),
                                 !.anchor = IF first THEN @ ELSE AnchorAfter(s, i)]
                 /\ UNCHANGED <<seen, remaining>>
    /\ UNCHANGED <<taken, spans, evidence>>

(***************************************************************************)
(* The end of a window: after the cut-off last sentence, if there is one.  *)
(* The sentences kept become a span, unless their joined formulas turn out *)
(* malformed; what they used of the budget is not given back.              *)
(***************************************************************************)
Close ==
    /\ window # None
    /\ window' = None
    /\ \/ /\ window.kept # {}
          /\ spans' = Append(spans, [sentences |-> {window.read[i] : i \in window.kept},
                                     read |-> window.read, kept |-> window.kept])
       \/ spans' = spans
    /\ UNCHANGED <<taken, seen, remaining, evidence>>

Return ==
    /\ evidence = None /\ window = None
    /\ taken = MaxDocuments \/ Len(spans) = MaxSources
    /\ evidence' = Result(spans)
    /\ UNCHANGED <<taken, window, seen, remaining, spans>>

Next == Take \/ Read \/ Close \/ Return

Spec == Init /\ [][Next]_vars

-----------------------------------------------------------------------------
(***************************************************************************)
(* What a quiz is generated from supports it: every sentence names the     *)
(* target or continues, across nothing but sentences about it, one of the  *)
(* two sentences before it that was itself accepted and names the target   *)
(* ("Adjacency by itself never grants support"); no two formulas have one  *)
(* left side; every member of the target is named in what is left after    *)
(* the contradictions are gone; and the whole fits the prompt.             *)
(***************************************************************************)
Grounded(span, i) ==
    \/ span.read[i].anchored
    \/ \E j \in span.kept \cap (i - Reach .. i - 1) :
          /\ span.read[j].anchored
          /\ \A k \in j + 1 .. i : ~Neutral(span.read[k]) /\ ~span.read[k].breaks

EvidenceSupportsTheTarget ==
    evidence # None =>
       /\ \A n \in DOMAIN evidence : \A i \in evidence[n].kept : Grounded(evidence[n], i)
       /\ Conflicting(evidence) = {}
       /\ evidence # <<>> => Covered(evidence) = Members
       /\ Cardinality(DOMAIN evidence) <= MaxSources /\ remaining >= 0
=============================================================================
