-------------------------- MODULE Operations_proofs -------------------------
(***************************************************************************)
(* What the parts of Operations promise, proved for every value of their   *)
(* constants: of each part the invariant that keeps its promise and the    *)
(* proof that its steps preserve it, and at the end the theorems, which    *)
(* are about the parts as Operations runs them.                            *)
(***************************************************************************)
EXTENDS Operations, TLAPS, Integers, FiniteSetTheorems, SequenceTheorems

-----------------------------------------------------------------------------
(* Evidence: an anchor carries the sentences after it as long as they are  *)
(* about the target.                                                       *)
EvidenceSpanSet == [sentences : SUBSET Sentences, read : Seq(Sentences), kept : SUBSET Nat]

Windows == [cut : BOOLEAN, read : Seq(Sentences), kept : SUBSET Nat, anchor : Int]

(* What was kept is grounded, and an anchor in force is a sentence that    *)
(* was kept, with nothing after it that breaks its reach.                  *)
Carries(w) ==
    /\ w.kept \subseteq DOMAIN w.read
    /\ \A i \in w.kept : Evidence!Grounded(w, i)
    /\ w.anchor # Evidence!NoAnchor =>
          /\ w.anchor \in w.kept /\ w.read[w.anchor].anchored
          /\ \A k \in w.anchor + 1 .. Len(w.read) :
                ~Evidence!Neutral(w.read[k]) /\ ~w.read[k].breaks

Supports(chosen) ==
    /\ \A n \in DOMAIN chosen : \A i \in chosen[n].kept : Evidence!Grounded(chosen[n], i)
    /\ Evidence!Conflicting(chosen) = {}
    /\ chosen # <<>> => Evidence!Covered(chosen) = Members
    /\ Cardinality(DOMAIN chosen) <= MaxSources

EvidenceInv ==
    /\ evidenceRemaining \in Int /\ evidenceRemaining >= 0
    /\ evidenceSpans \in Seq(EvidenceSpanSet) /\ Len(evidenceSpans) <= MaxSources
    /\ \A n \in DOMAIN evidenceSpans : \A i \in evidenceSpans[n].kept : Evidence!Grounded(evidenceSpans[n], i)
    /\ evidenceWindow # None => evidenceWindow \in Windows /\ Carries(evidenceWindow) /\ Len(evidenceSpans) < MaxSources
    /\ evidenceEvidence # None => Supports(evidenceEvidence)

(* Spans without conflicts have none.                                      *)
LEMMA NoConflictIsLeft ==
    ASSUME NEW all
    PROVE  Evidence!Conflicting(Evidence!WithoutConflicts(all)) = {}
  <1> DEFINE left == Evidence!WithoutConflicts(all)
  <1>1. SUFFICES ASSUME NEW i \in DOMAIN left, NEW g \in Evidence!Formulas(left[i]),
                        NEW j \in DOMAIN left, NEW h \in Evidence!Formulas(left[j]),
                        h[1] = g[1], h # g
                 PROVE  FALSE
    <2>1. ASSUME NEW x \in Evidence!Conflicting(left) PROVE FALSE
      <3>1. PICK g \in UNION {Evidence!Formulas(left[i]) : i \in DOMAIN left} :
               \E h \in UNION {Evidence!Formulas(left[i]) : i \in DOMAIN left} : h[1] = g[1] /\ h # g
        BY <2>1 DEF Evidence!Conflicting
      <3>2. PICK h \in UNION {Evidence!Formulas(left[i]) : i \in DOMAIN left} : h[1] = g[1] /\ h # g
        BY <3>1
      <3>3. PICK i \in DOMAIN left : g \in Evidence!Formulas(left[i])
        BY <3>1
      <3>4. PICK j \in DOMAIN left : h \in Evidence!Formulas(left[j])
        BY <3>2
      <3> QED BY <1>1, <3>2, <3>3, <3>4
    <2> QED BY <2>1
  <1>2. /\ i \in DOMAIN all /\ left[i] = all[i]
        /\ \A f \in Evidence!Formulas(all[i]) : f[1] \notin Evidence!Conflicting(all)
    BY <1>1 DEF Evidence!WithoutConflicts, Evidence!Restrict
  <1>3. j \in DOMAIN all /\ left[j] = all[j]
    BY <1>1 DEF Evidence!WithoutConflicts, Evidence!Restrict
  <1>4. g \in Evidence!Formulas(all[i]) /\ h \in Evidence!Formulas(all[j])
    BY <1>1, <1>2, <1>3
  <1>5. g[1] \in Evidence!Conflicting(all)
    BY <1>1, <1>2, <1>3, <1>4 DEF Evidence!Conflicting
  <1> QED BY <1>2, <1>4, <1>5

(* What is returned supports the target.                                   *)
LEMMA EvidenceSupports ==
    ASSUME evidenceSpans \in Seq(EvidenceSpanSet), Len(evidenceSpans) <= MaxSources,
           \A n \in DOMAIN evidenceSpans : \A i \in evidenceSpans[n].kept : Evidence!Grounded(evidenceSpans[n], i)
    PROVE  Supports(Evidence!Result(evidenceSpans))
  <1> DEFINE left == Evidence!WithoutConflicts(evidenceSpans)
  <1>1. DOMAIN evidenceSpans = 1 .. Len(evidenceSpans) /\ Len(evidenceSpans) \in Nat
    OBVIOUS
  <1>2. DOMAIN left \subseteq DOMAIN evidenceSpans /\ \A n \in DOMAIN left : left[n] = evidenceSpans[n]
    BY DEF Evidence!WithoutConflicts, Evidence!Restrict
  <1>3. Evidence!Conflicting(left) = {}
    BY NoConflictIsLeft
  <1> HIDE DEF left
  <1>4. Cardinality(DOMAIN left) <= MaxSources
    <2>1. IsFiniteSet(1 .. Len(evidenceSpans)) /\ Cardinality(1 .. Len(evidenceSpans)) = Len(evidenceSpans)
      BY <1>1, FS_Interval
    <2>2. IsFiniteSet(DOMAIN left) /\ Cardinality(DOMAIN left) <= Len(evidenceSpans)
      BY <1>1, <1>2, <2>1, FS_Subset
    <2>3. Cardinality(DOMAIN left) \in Nat
      BY <2>2, FS_CardinalityType
    <2> QED BY <1>1, <2>2, <2>3, EvidenceAssumption
  <1>5. CASE Evidence!Covered(left) = Members
    <2>1. Evidence!Result(evidenceSpans) = left
      BY <1>5 DEF Evidence!Result, left
    <2> QED BY <1>2, <1>3, <1>4, <1>5, <2>1 DEF Supports
  <1>6. CASE Evidence!Covered(left) # Members
    <2>1. Evidence!Result(evidenceSpans) = <<>>
      BY <1>6 DEF Evidence!Result, left
    <2>2. DOMAIN <<>> = {} /\ Cardinality({}) = 0
      BY FS_EmptySet
    <2>3. Evidence!Conflicting(<<>>) = {}
      BY <2>2 DEF Evidence!Conflicting
    <2>4. Supports(<<>>)
      BY <2>2, <2>3, EvidenceAssumption DEF Supports
    <2> QED BY <2>1, <2>4
  <1> QED BY <1>5, <1>6

(* The count of a set is the library's.                                    *)
LEMMA EvidenceCounts == ASSUME NEW S PROVE Evidence!Cardinality(S) = Cardinality(S)
  BY DEF Evidence!Cardinality, Cardinality

(* The invariant keeps the promise.                                        *)
LEMMA EvidenceInvSuffices == EvidenceInv => Evidence!EvidenceSupportsTheTarget
  BY EvidenceCounts DEF EvidenceInv, Supports, Evidence!EvidenceSupportsTheTarget

(* At the start there is no window and no span.                            *)
LEMMA EvidenceStarts == Evidence!Init => EvidenceInv
  BY EvidenceAssumption DEF Evidence!Init, EvidenceInv

(* A window is opened only while there is room for its span.               *)
LEMMA TakeDocumentKeeps == ASSUME EvidenceInv, Evidence!Take PROVE EvidenceInv'
  <1>1. /\ evidenceEvidence = None /\ Len(evidenceSpans) < MaxSources
        /\ UNCHANGED <<evidenceSeen, evidenceRemaining, evidenceSpans, evidenceEvidence>>
    BY DEF Evidence!Take
  <1>2. PICK d \in Documents :
           evidenceWindow' = IF d.kind = "contents" \/ ~Evidence!Assembles(d) THEN None
                     ELSE [cut |-> d.kind = "framed", read |-> <<>>, kept |-> {}, anchor |-> Evidence!NoAnchor]
    BY DEF Evidence!Take
  <1> DEFINE opened == [cut |-> d.kind = "framed", read |-> <<>>, kept |-> {}, anchor |-> Evidence!NoAnchor]
  <1>3. opened \in Windows /\ Carries(opened)
    BY DEF Windows, Carries, Evidence!NoAnchor
  <1> HIDE DEF opened
  <1>4. evidenceWindow' = None \/ evidenceWindow' = opened
    BY <1>2 DEF opened
  <1>5. evidenceWindow' # None => evidenceWindow' \in Windows /\ Carries(evidenceWindow')
    BY <1>3, <1>4
  <1> QED BY <1>1, <1>5 DEF EvidenceInv, Carries

(* A sentence is read: the anchor still carries, or there is none.         *)
LEMMA ReadSentenceCarries ==
    ASSUME evidenceWindow \in Windows, Carries(evidenceWindow), NEW s \in Sentences, NEW keeps \in BOOLEAN,
           NEW anchor,
           keeps => s.anchored \/ Evidence!Continues(s, Len(evidenceWindow.read) + 1),
           \/ anchor = Evidence!NoAnchor
           \/ keeps /\ s.anchored /\ anchor = Len(evidenceWindow.read) + 1
           \/ /\ anchor = evidenceWindow.anchor /\ ~s.breaks
              /\ s.anchored \/ s.opens
    PROVE  LET w == [cut |-> evidenceWindow.cut, read |-> Append(evidenceWindow.read, s),
                     kept |-> IF keeps THEN evidenceWindow.kept \cup {Len(evidenceWindow.read) + 1} ELSE evidenceWindow.kept,
                     anchor |-> anchor]
           IN  w \in Windows /\ Carries(w)
  <1> DEFINE i == Len(evidenceWindow.read) + 1
             read == Append(evidenceWindow.read, s)
             kept == IF keeps THEN evidenceWindow.kept \cup {i} ELSE evidenceWindow.kept
             w == [cut |-> evidenceWindow.cut, read |-> read, kept |-> kept, anchor |-> anchor]
  <1>1. /\ evidenceWindow.read \in Seq(Sentences) /\ evidenceWindow.kept \subseteq 1 .. Len(evidenceWindow.read)
        /\ evidenceWindow.anchor \in Int /\ evidenceWindow.cut \in BOOLEAN /\ Len(evidenceWindow.read) \in Nat
    BY DEF Windows, Carries
  <1>2. /\ read \in Seq(Sentences) /\ Len(read) = i /\ DOMAIN read = 1 .. i /\ read[i] = s
        /\ \A k \in 1 .. i - 1 : read[k] = evidenceWindow.read[k]
    BY <1>1
  <1>3. kept \subseteq 1 .. i /\ i \in Nat /\ i \in 1 .. i
    BY <1>1
  <1>4. anchor \in Int
    BY <1>1 DEF Evidence!NoAnchor
  <1>5. w \in Windows
    BY <1>1, <1>2, <1>3, <1>4 DEF Windows
  <1> HIDE DEF i, read
  <1>6. ASSUME NEW j \in evidenceWindow.kept PROVE j \in kept /\ Evidence!Grounded(w, j)
    <2>1. Evidence!Grounded(evidenceWindow, j) /\ j \in 1 .. i - 1 /\ j \in kept
      BY <1>1 DEF Carries, i
    <2>2. CASE evidenceWindow.read[j].anchored
      BY <1>2, <2>1, <2>2 DEF Evidence!Grounded
    <2>3. CASE ~evidenceWindow.read[j].anchored
      <3>1. PICK m \in evidenceWindow.kept \cap (j - Evidence!Reach .. j - 1) :
               /\ evidenceWindow.read[m].anchored
               /\ \A k \in m + 1 .. j : ~Evidence!Neutral(evidenceWindow.read[k]) /\ ~evidenceWindow.read[k].breaks
        BY <2>1, <2>3 DEF Evidence!Grounded
      <3>2. m \in kept /\ m \in 1 .. i - 1 /\ m \in j - Evidence!Reach .. j - 1
        BY <1>1, <3>1 DEF i
      <3>3. \A k \in m + 1 .. j : k \in 1 .. i - 1
        BY <1>3, <2>1, <3>2
      <3>4. \A k \in m + 1 .. j : ~Evidence!Neutral(read[k]) /\ ~read[k].breaks
        BY <1>2, <3>1, <3>3
      <3>5. read[m].anchored
        BY <1>2, <3>1, <3>2
      <3>6. w.kept = kept /\ w.read = read
        OBVIOUS
      <3> HIDE DEF w, kept
      <3>7. Evidence!Grounded(w, j)
        BY <3>2, <3>4, <3>5, <3>6 DEF Evidence!Grounded
      <3> QED BY <2>1, <3>7
    <2> QED BY <2>2, <2>3
  <1>7. ASSUME keeps PROVE Evidence!Grounded(w, i)
    <2>1. CASE s.anchored
      BY <1>2, <2>1 DEF Evidence!Grounded
    <2>2. CASE ~s.anchored
      <3>1. s.opens /\ ~s.breaks /\ i - evidenceWindow.anchor <= Evidence!Reach
        BY <1>7, <2>2 DEF Evidence!Continues, i
      <3>2. evidenceWindow.anchor # Evidence!NoAnchor
        BY <1>3, <3>1 DEF Evidence!NoAnchor, Evidence!Reach
      <3> DEFINE m == evidenceWindow.anchor
      <3>3. /\ m \in evidenceWindow.kept /\ evidenceWindow.read[m].anchored
            /\ \A k \in m + 1 .. i - 1 : ~Evidence!Neutral(evidenceWindow.read[k]) /\ ~evidenceWindow.read[k].breaks
        BY <1>1, <3>2 DEF Carries, i
      <3>4. m \in 1 .. i - 1 /\ m \in i - Evidence!Reach .. i - 1
        BY <1>1, <1>3, <3>1, <3>3 DEF i, Evidence!Reach
      <3> HIDE DEF m
      <3>5. ASSUME NEW k \in m + 1 .. i PROVE ~Evidence!Neutral(read[k]) /\ ~read[k].breaks
        <4>1. CASE k = i
          BY <1>2, <3>1, <4>1 DEF Evidence!Neutral
        <4>2. CASE k # i
          <5>1. k \in m + 1 .. i - 1 /\ k \in 1 .. i - 1
            BY <1>3, <3>4, <4>2
          <5> QED BY <1>2, <3>3, <5>1
        <4> QED BY <4>1, <4>2
      <3>6. read[m].anchored /\ m \in kept
        BY <1>2, <3>3, <3>4
      <3>7. w.kept = kept /\ w.read = read
        OBVIOUS
      <3> HIDE DEF w, kept
      <3> QED BY <3>4, <3>5, <3>6, <3>7 DEF Evidence!Grounded
    <2> QED BY <2>1, <2>2
  <1>8. \A j \in kept : Evidence!Grounded(w, j)
    BY <1>6, <1>7
  <1>9. ASSUME anchor # Evidence!NoAnchor
        PROVE  /\ anchor \in kept /\ read[anchor].anchored
               /\ \A k \in anchor + 1 .. i : ~Evidence!Neutral(read[k]) /\ ~read[k].breaks
    <2>1. CASE keeps /\ s.anchored /\ anchor = i
      <3>1. anchor \in kept /\ read[anchor].anchored
        BY <1>2, <2>1
      <3>2. \A k \in anchor + 1 .. i : FALSE
        BY <1>3, <2>1
      <3> QED BY <3>1, <3>2
    <2>2. CASE anchor = evidenceWindow.anchor /\ ~s.breaks /\ (s.anchored \/ s.opens)
      <3>1. /\ anchor \in evidenceWindow.kept /\ evidenceWindow.read[anchor].anchored
            /\ \A k \in anchor + 1 .. i - 1 : ~Evidence!Neutral(evidenceWindow.read[k]) /\ ~evidenceWindow.read[k].breaks
        BY <1>1, <1>9, <2>2 DEF Carries, i
      <3>2. anchor \in 1 .. i - 1
        BY <1>1, <3>1 DEF i
      <3>3. ASSUME NEW k \in anchor + 1 .. i PROVE ~Evidence!Neutral(read[k]) /\ ~read[k].breaks
        <4>1. CASE k = i
          BY <1>2, <2>2, <4>1 DEF Evidence!Neutral
        <4>2. CASE k # i
          <5>1. k \in anchor + 1 .. i - 1 /\ k \in 1 .. i - 1
            BY <1>3, <3>2, <4>2
          <5> QED BY <1>2, <3>1, <5>1
        <4> QED BY <4>1, <4>2
      <3> QED BY <1>2, <3>1, <3>2, <3>3
    <2> QED BY <1>9, <2>1, <2>2 DEF i
  <1>10. Carries(w)
    <2>1. w.kept = kept /\ w.read = read /\ w.anchor = anchor
      OBVIOUS
    <2> HIDE DEF w, kept
    <2> QED BY <1>2, <1>3, <1>8, <1>9, <2>1 DEF Carries
  <1> QED BY <1>5, <1>10 DEF i, read

(* Reading a sentence costs no more than what remains, and what is kept of *)
(* a window stays grounded.                                                *)
LEMMA ReadSentenceKeeps == ASSUME EvidenceInv, Evidence!Read PROVE EvidenceInv'
  <1> DEFINE i == Len(evidenceWindow.read) + 1
  <1>1. /\ evidenceWindow # None /\ evidenceWindow \in Windows /\ Carries(evidenceWindow) /\ Len(evidenceSpans) < MaxSources
        /\ UNCHANGED <<evidenceTaken, evidenceSpans, evidenceEvidence>>
    BY DEF Evidence!Read, EvidenceInv
  <1>2. PICK s \in Sentences :
           LET first == evidenceWindow.cut /\ i = 1
           IN  IF ~first /\ Evidence!Accepted(s, i)
               THEN /\ evidenceWindow' = [evidenceWindow EXCEPT !.read = Append(@, s), !.kept = @ \cup {i},
                                    !.anchor = IF s.anchored THEN i ELSE Evidence!AnchorAfter(s, i)]
                    /\ evidenceSeen' = evidenceSeen \cup {s.text}
                    /\ evidenceRemaining' = evidenceRemaining - Evidence!Cost(s)
               ELSE /\ evidenceWindow' = [evidenceWindow EXCEPT !.read = Append(@, s),
                                    !.anchor = IF first THEN @ ELSE Evidence!AnchorAfter(s, i)]
                    /\ UNCHANGED <<evidenceSeen, evidenceRemaining>>
    BY DEF Evidence!Read
  <1> DEFINE first == evidenceWindow.cut /\ i = 1
             keeps == ~first /\ Evidence!Accepted(s, i)
             anchor == IF first THEN evidenceWindow.anchor
                       ELSE IF keeps /\ s.anchored THEN i ELSE Evidence!AnchorAfter(s, i)
             next == [cut |-> evidenceWindow.cut, read |-> Append(evidenceWindow.read, s),
                      kept |-> IF keeps THEN evidenceWindow.kept \cup {i} ELSE evidenceWindow.kept,
                      anchor |-> anchor]
  <1>3. evidenceWindow' = next
    <2>1. evidenceWindow = [cut |-> evidenceWindow.cut, read |-> evidenceWindow.read, kept |-> evidenceWindow.kept,
                    anchor |-> evidenceWindow.anchor]
      BY <1>1 DEF Windows
    <2>2. CASE keeps
      BY <1>2, <2>1, <2>2
    <2>3. CASE ~keeps
      BY <1>2, <2>1, <2>3
    <2> QED BY <2>2, <2>3
  <1>4. evidenceRemaining' \in Int /\ evidenceRemaining' >= 0
    <2>1. evidenceRemaining \in Int /\ evidenceRemaining >= 0
      BY DEF EvidenceInv
    <2>2. CASE keeps
      <3>1. Evidence!Cost(s) \in Int /\ Evidence!Cost(s) <= evidenceRemaining
        BY <2>2, EvidenceAssumption DEF Evidence!Cost, Evidence!Accepted
      <3>2. evidenceRemaining' = evidenceRemaining - Evidence!Cost(s)
        BY <1>2, <2>2
      <3> QED BY <2>1, <3>1, <3>2
    <2>3. CASE ~keeps
      BY <1>2, <2>1, <2>3
    <2> QED BY <2>2, <2>3
  <1>5. keeps => s.anchored \/ Evidence!Continues(s, i)
    BY DEF Evidence!Accepted
  <1>6. first => evidenceWindow.anchor = Evidence!NoAnchor
    <2>1. /\ evidenceWindow.read \in Seq(Sentences) /\ evidenceWindow.kept \subseteq DOMAIN evidenceWindow.read
          /\ evidenceWindow.anchor # Evidence!NoAnchor => evidenceWindow.anchor \in evidenceWindow.kept
      BY <1>1 DEF Windows, Carries
    <2> QED BY <2>1
  <1>7. \/ anchor = Evidence!NoAnchor
        \/ keeps /\ s.anchored /\ anchor = i
        \/ /\ anchor = evidenceWindow.anchor /\ ~s.breaks
           /\ s.anchored \/ s.opens
    BY <1>6 DEF Evidence!AnchorAfter, Evidence!Continues
  <1>8. keeps \in BOOLEAN
    OBVIOUS
  <1> HIDE DEF keeps, anchor, first
  <1>9. next \in Windows /\ Carries(next)
    BY <1>1, <1>5, <1>7, <1>8, ReadSentenceCarries
  <1> HIDE DEF next
  <1>10. evidenceWindow' \in Windows /\ Carries(evidenceWindow')
    BY <1>3, <1>9
  <1> QED BY <1>1, <1>4, <1>10 DEF EvidenceInv, Carries

(* The span of a closed window is as grounded as the window was.           *)
LEMMA CloseWindowKeeps == ASSUME EvidenceInv, Evidence!Close PROVE EvidenceInv'
  <1>1. /\ evidenceWindow \in Windows /\ Carries(evidenceWindow) /\ Len(evidenceSpans) < MaxSources
        /\ evidenceWindow' = None /\ UNCHANGED <<evidenceTaken, evidenceSeen, evidenceRemaining, evidenceEvidence>>
    BY DEF Evidence!Close, EvidenceInv
  <1>2. /\ evidenceSpans \in Seq(EvidenceSpanSet) /\ Len(evidenceSpans) \in Nat /\ DOMAIN evidenceSpans = 1 .. Len(evidenceSpans)
        /\ \A n \in DOMAIN evidenceSpans : \A i \in evidenceSpans[n].kept : Evidence!Grounded(evidenceSpans[n], i)
    BY DEF EvidenceInv
  <1> DEFINE span == [sentences |-> {evidenceWindow.read[i] : i \in evidenceWindow.kept},
                      read |-> evidenceWindow.read, kept |-> evidenceWindow.kept]
  <1>3. /\ span \in EvidenceSpanSet
        /\ \A i \in span.kept : Evidence!Grounded(span, i)
    <2>1. /\ evidenceWindow.read \in Seq(Sentences) /\ evidenceWindow.kept \subseteq DOMAIN evidenceWindow.read
          /\ \A i \in evidenceWindow.kept : Evidence!Grounded(evidenceWindow, i)
      BY <1>1 DEF Windows, Carries
    <2>2. evidenceWindow.kept \subseteq Nat /\ {evidenceWindow.read[i] : i \in evidenceWindow.kept} \subseteq Sentences
      BY <2>1
    <2>3. span.read = evidenceWindow.read /\ span.kept = evidenceWindow.kept /\ span \in EvidenceSpanSet
      BY <2>1, <2>2 DEF EvidenceSpanSet
    <2> HIDE DEF span
    <2> QED BY <2>1, <2>3 DEF Evidence!Grounded
  <1>4. evidenceSpans' = evidenceSpans \/ evidenceSpans' = Append(evidenceSpans, span)
    BY DEF Evidence!Close
  <1> HIDE DEF span
  <1>5. /\ evidenceSpans' \in Seq(EvidenceSpanSet) /\ Len(evidenceSpans') <= MaxSources
        /\ \A n \in DOMAIN evidenceSpans' : \A i \in evidenceSpans'[n].kept : Evidence!Grounded(evidenceSpans'[n], i)
    <2>1. CASE evidenceSpans' = evidenceSpans
      BY <1>1, <1>2, <2>1, EvidenceAssumption
    <2>2. CASE evidenceSpans' = Append(evidenceSpans, span)
      <3>1. /\ evidenceSpans' \in Seq(EvidenceSpanSet) /\ Len(evidenceSpans') = Len(evidenceSpans) + 1
            /\ DOMAIN evidenceSpans' = 1 .. Len(evidenceSpans) + 1 /\ evidenceSpans'[Len(evidenceSpans) + 1] = span
            /\ \A n \in 1 .. Len(evidenceSpans) : evidenceSpans'[n] = evidenceSpans[n]
        BY <1>2, <1>3, <2>2
      <3>2. \A n \in DOMAIN evidenceSpans' : n \in 1 .. Len(evidenceSpans) \/ n = Len(evidenceSpans) + 1
        BY <1>2, <3>1
      <3> QED BY <1>1, <1>2, <1>3, <3>1, <3>2, EvidenceAssumption
    <2> QED BY <1>4, <2>1, <2>2
  <1> QED BY <1>1, <1>5 DEF EvidenceInv

(* Every step of the selection preserves the invariant.                    *)
LEMMA EvidenceSteps == EvidenceInv /\ [Evidence!Next]_Evidence!vars => EvidenceInv'
  <1> SUFFICES ASSUME EvidenceInv, [Evidence!Next]_Evidence!vars PROVE EvidenceInv'
    OBVIOUS
  <1>1. CASE Evidence!Take
    BY <1>1, TakeDocumentKeeps
  <1>2. CASE Evidence!Read
    BY <1>2, ReadSentenceKeeps
  <1>3. CASE Evidence!Close
    BY <1>3, CloseWindowKeeps
  <1>4. CASE Evidence!Return
    <2>1. evidenceWindow = None /\ evidenceEvidence' = Evidence!Result(evidenceSpans) /\ UNCHANGED <<evidenceTaken, evidenceWindow, evidenceSeen, evidenceRemaining, evidenceSpans>>
      BY <1>4 DEF Evidence!Return
    <2>2. Supports(Evidence!Result(evidenceSpans))
      BY EvidenceSupports DEF EvidenceInv
    <2>3. Supports(evidenceEvidence')
      BY <2>1, <2>2
    <2> QED BY <2>1, <2>3 DEF EvidenceInv, Supports
  <1>5. CASE UNCHANGED Evidence!vars
    BY <1>5 DEF Evidence!vars, EvidenceInv, Carries, Supports
  <1> QED BY <1>1, <1>2, <1>3, <1>4, <1>5 DEF Evidence!Next

-----------------------------------------------------------------------------
(* Submissions of one assessment.                                          *)

(* The row goes through three versions, which determine its status.        *)
RowOf(version, opener, answers) ==
    [status |-> IF version = 1 THEN "ready" ELSE IF version = 2 THEN "in_progress" ELSE "submitted",
     opener |-> opener, version |-> version, answers |-> answers]

RowIsAVersion ==
    \/ submissionRow = RowOf(1, None, None)
    \/ \E o \in Requests : submissionRow = RowOf(2, o, None)
    \/ \E o \in Requests, a \in CompleteAnswers : submissionRow = RowOf(3, o, a)

(* A record is an earlier version of the row, but for the answers, which   *)
(* are read later and may be newer.                                        *)
IsEarlierVersion(rec) ==
    /\ rec.version \in 1..submissionRow.version
    /\ rec = RowOf(rec.version, rec.opener, rec.answers)
    /\ rec.opener = (IF rec.version = 1 THEN None ELSE submissionRow.opener)
    /\ rec.answers \in {None, submissionRow.answers}

RequestRecords ==
    [at : {"new", "row", "answers", "checked", "facts", "episode", "snapshot", "replied"},
     asks : {"nothing", "open", "get", "submit", "result"},
     answers : CompleteAnswers \cup {"incomplete", None},
     record : [status : {"none", "ready", "in_progress", "submitted"},
               opener : Requests \cup {None}, version : 0..3, answers : CompleteAnswers \cup {None}],
     reply : {"none", "questions", "result", "conflict", "invalid", "error"}]

(* What a request knows at each of its steps.                              *)
RequestIsSound(q) ==
    /\ q.at \notin {"new", "row"} => IsEarlierVersion(q.record)
    /\ q.at \notin {"new", "row", "answers"} /\ q.record.version = 3
          => q.record.answers = submissionRow.answers
    /\ q.at \in {"facts", "episode", "snapshot"} =>
          q.asks = "submit" /\ q.record.version = 3 /\ q.answers = submissionRow.answers
    /\ q.at \in {"episode", "snapshot"} => submissionEvidence.facts = submissionRow.answers
    /\ q.at = "snapshot" => submissionEvidence.episode = submissionRow.answers
    /\ q.reply # "none" => q.at = "replied"
    /\ q.asks = "submit" => q.answers # None
    /\ q.reply = "result" =>
          /\ q.record.version = 3
          /\ q.asks = "submit" => /\ q.answers = submissionRow.answers
                                  /\ submissionEvidence.facts = submissionRow.answers
                                  /\ submissionEvidence.episode = submissionRow.answers
                                  /\ submissionEvidence.snapshot
    /\ q.reply = "questions" /\ q.asks = "open" => q.record.version # 1

SubmissionInv ==
    /\ RowIsAVersion
    /\ submissionRequests \in [Requests -> RequestRecords]
    /\ submissionEvidence \in [facts : CompleteAnswers \cup {None}, episode : CompleteAnswers \cup {None},
                     snapshot : BOOLEAN]
    /\ submissionEvidence.facts \in {None, submissionRow.answers}
    /\ submissionEvidence.episode \in {None, submissionEvidence.facts}
    /\ \A r \in Requests : RequestIsSound(submissionRequests[r])

(* At the start nobody has read or written anything.                       *)
LEMMA SubmissionStarts ==
    ASSUME Submission!Init
    PROVE  SubmissionInv
  BY SubmissionAssumption DEF Submission!Init, SubmissionInv, RowIsAVersion, RowOf,
         RequestRecords, Submission!NoRecord, RequestIsSound

(* What the property says follows.                                         *)
LEMMA SubmissionInvSuffices ==
    ASSUME SubmissionInv
    PROVE  Submission!FirstSubmissionStands
  <1>1. submissionRow.answers # None <=> submissionRow.status = "submitted"
    BY SubmissionAssumption DEF SubmissionInv, RowIsAVersion, RowOf
  <1>2. ASSUME NEW r \in Requests, submissionRequests[r].reply = "result"
        PROVE  submissionRequests[r].record.answers = submissionRow.answers
               /\ submissionRow.answers # None
    <2>1. submissionRequests[r].record.version = 3 /\ submissionRequests[r].at = "replied"
      BY <1>2 DEF SubmissionInv, RequestIsSound
    <2>2. submissionRow.version \in {1, 2, 3}
          /\ (submissionRow.version = 3 => submissionRow.answers # None)
      BY SubmissionAssumption DEF SubmissionInv, RowIsAVersion, RowOf
    <2>3. 3 \in 1..submissionRow.version
      BY <2>1 DEF SubmissionInv, RequestIsSound, IsEarlierVersion
    <2> QED BY <2>1, <2>2, <2>3 DEF SubmissionInv, RequestIsSound
  <1>3. ASSUME NEW r \in Requests, submissionRequests[r].reply = "questions"
        PROVE  /\ submissionRequests[r].record.opener \in {None, submissionRow.opener}
               /\ submissionRequests[r].asks = "open" => submissionRequests[r].record.opener = submissionRow.opener
    BY <1>3 DEF SubmissionInv, RequestIsSound, IsEarlierVersion
  <1> QED BY <1>1, <1>2, <1>3 DEF Submission!FirstSubmissionStands, SubmissionInv, RequestIsSound

(* A step that leaves the row and the evidence alone moves one request.    *)
LEMMA RequestMoves ==
    ASSUME SubmissionInv, NEW r \in Requests, NEW q \in RequestRecords,
           Submission!Move(r, q), UNCHANGED <<submissionRow, submissionEvidence>>, RequestIsSound(q)
    PROVE  SubmissionInv'
  <1>1. submissionRequests' \in [Requests -> RequestRecords] /\ submissionRequests'[r] = q
        /\ \A p \in Requests \ {r} : submissionRequests'[p] = submissionRequests[p]
    BY DEF SubmissionInv, Submission!Move
  <1>2. ASSUME NEW p \in Requests PROVE RequestIsSound(submissionRequests[p])'
    BY <1>1, <1>2 DEF SubmissionInv, RequestIsSound, IsEarlierVersion, RowOf
  <1> QED BY <1>1, <1>2 DEF SubmissionInv, RowIsAVersion, RowOf

(* A request that answers leaves the row and the evidence alone; what it   *)
(* read entitles it to the answer.                                         *)
LEMMA RequestReplies ==
    ASSUME SubmissionInv, NEW r \in Requests, UNCHANGED <<submissionRow, submissionEvidence>>,
           NEW what \in {"questions", "result", "conflict", "invalid", "error"},
           Submission!Reply(r, what), submissionRequests[r].at \notin {"new", "row", "answers"},
           what = "result" =>
              /\ submissionRequests[r].record.version = 3 /\ submissionRequests[r].asks # "submit",
           what = "questions"
           /\ submissionRequests[r].asks = "open" => submissionRequests[r].record.version # 1
    PROVE  SubmissionInv'
  <1> DEFINE q == [submissionRequests[r] EXCEPT !.at = "replied", !.reply = what]
  <1>1. submissionRequests[r] \in RequestRecords /\ RequestIsSound(submissionRequests[r])
    BY DEF SubmissionInv
  <1>2. /\ q.at = "replied" /\ q.reply = what /\ q.asks = submissionRequests[r].asks
        /\ q.answers = submissionRequests[r].answers /\ q.record = submissionRequests[r].record
        /\ q \in RequestRecords
    BY <1>1 DEF RequestRecords
  <1>3. Submission!Move(r, q)
    BY DEF Submission!Reply
  <1> HIDE DEF q
  <1>4. RequestIsSound(q)
    BY <1>1, <1>2 DEF RequestIsSound
  <1> QED BY <1>2, <1>3, <1>4, RequestMoves

(* A read that is followed by the versioned update.                        *)
LEMMA RequestReads ==
    ASSUME SubmissionInv, NEW r \in Requests,
           Submission!Ask(r) \/ Submission!ReadRow(r) \/ Submission!ReadAnswers(r)
    PROVE  SubmissionInv'
  <1>1. submissionRequests[r] \in RequestRecords /\ RequestIsSound(submissionRequests[r])
    BY DEF SubmissionInv
  <1>2. CASE Submission!Ask(r)
    <2>1. PICK asks \in {"open", "get", "submit", "result"},
               answers \in CompleteAnswers \cup {"incomplete"} :
             Submission!Move(r, [submissionRequests[r] EXCEPT !.at = "row", !.asks = asks,
                                                    !.answers = answers])
      BY <1>2 DEF Submission!Ask, Submission!Incomplete
    <2> DEFINE q == [submissionRequests[r] EXCEPT !.at = "row", !.asks = asks, !.answers = answers]
    <2>2. /\ q.at = "row" /\ q.reply = submissionRequests[r].reply
             /\ submissionRequests[r].at = "new"
          /\ q \in RequestRecords /\ UNCHANGED <<submissionRow, submissionEvidence>>
             /\ q.answers # None
      BY <1>1, <1>2, SubmissionAssumption DEF RequestRecords, Submission!Ask, Submission!At
    <2> HIDE DEF q
    <2>3. RequestIsSound(q)
      BY <1>1, <2>2 DEF RequestIsSound
    <2> QED BY <2>1, <2>2, <2>3, RequestMoves DEF q
  <1>3. CASE Submission!ReadRow(r)
    <2> DEFINE q == [submissionRequests[r] EXCEPT !.at = "answers", !.record = [submissionRow EXCEPT !.answers = None]]
    <2>1. Submission!Move(r, q) /\ submissionRequests[r].at = "row"
          /\ UNCHANGED <<submissionRow, submissionEvidence>>
      BY <1>3 DEF Submission!ReadRow, Submission!At
    <2>2. q \in RequestRecords /\ q.at = "answers" /\ q.reply = submissionRequests[r].reply
          /\ q.record = [submissionRow EXCEPT !.answers = None]
          /\ q.asks = submissionRequests[r].asks /\ q.answers = submissionRequests[r].answers
      <3> DEFINE rec == [submissionRow EXCEPT !.answers = None]
      <3>1. rec \in [status : {"none", "ready", "in_progress", "submitted"},
                     opener : Requests \cup {None}, version : 0..3,
                     answers : CompleteAnswers \cup {None}]
        BY DEF SubmissionInv, RowIsAVersion, RowOf
      <3> HIDE DEF rec
      <3>2. q = [submissionRequests[r] EXCEPT !.at = "answers", !.record = rec]
        BY DEF rec
      <3>3. q \in RequestRecords /\ q.at = "answers" /\ q.reply = submissionRequests[r].reply
            /\ q.record = rec
            /\ q.asks = submissionRequests[r].asks /\ q.answers = submissionRequests[r].answers
        BY <1>1, <3>1, <3>2 DEF RequestRecords
      <3> QED BY <3>3 DEF rec
    <2>3. IsEarlierVersion([submissionRow EXCEPT !.answers = None])
      BY DEF IsEarlierVersion, SubmissionInv, RowIsAVersion, RowOf
    <2> HIDE DEF q
    <2>4. RequestIsSound(q)
      BY <1>1, <2>1, <2>2, <2>3 DEF RequestIsSound
    <2> QED BY <2>1, <2>2, <2>4, RequestMoves
  <1>4. CASE Submission!ReadAnswers(r)
    <2> DEFINE q == [submissionRequests[r] EXCEPT !.at = "checked", !.record.answers = submissionRow.answers]
    <2>1. Submission!Move(r, q) /\ submissionRequests[r].at = "answers"
          /\ UNCHANGED <<submissionRow, submissionEvidence>>
      BY <1>4 DEF Submission!ReadAnswers, Submission!At
    <2>2. submissionRow.answers \in CompleteAnswers \cup {None}
      BY DEF SubmissionInv, RowIsAVersion, RowOf
    <2>3. q \in RequestRecords /\ q.at = "checked" /\ q.reply = submissionRequests[r].reply
          /\ q.record = [submissionRequests[r].record EXCEPT !.answers = submissionRow.answers]
          /\ q.asks = submissionRequests[r].asks /\ q.answers = submissionRequests[r].answers
      BY <1>1, <2>1, <2>2 DEF RequestRecords
    <2>4. IsEarlierVersion(q.record) /\ q.record.answers = submissionRow.answers
      BY <1>1, <2>1, <2>3 DEF RequestIsSound, IsEarlierVersion, RowOf, RequestRecords
    <2> HIDE DEF q
    <2>5. RequestIsSound(q)
      BY <1>1, <2>1, <2>3, <2>4 DEF RequestIsSound
    <2> QED BY <2>1, <2>3, <2>5, RequestMoves
  <1> QED BY <1>2, <1>3, <1>4

(* get, result, what submit refuses, and a submission repeated.            *)
LEMMA RequestAnswers ==
    ASSUME SubmissionInv, NEW r \in Requests,
           Submission!Answer(r) \/ Submission!Check(r) \/ Submission!RecordingFails(r)
    PROVE  SubmissionInv'
  <1> DEFINE q == submissionRequests[r]
  <1>1. q \in RequestRecords /\ RequestIsSound(q) /\ UNCHANGED <<submissionRow, submissionEvidence>>
    BY DEF SubmissionInv, Submission!Answer, Submission!Check, Submission!RecordingFails
  <1>2. q.at \notin {"new", "row", "answers"}
    BY DEF Submission!Answer, Submission!Check, Submission!RecordingFails, Submission!At
  <1>3. /\ q.record.version \in {1, 2, 3}
        /\ q.record.status = "ready" <=> q.record.version = 1
        /\ q.record.status = "submitted" <=> q.record.version = 3
        /\ q.record.status \in {"ready", "in_progress", "submitted"}
    <2>1. IsEarlierVersion(q.record)
      BY <1>1, <1>2 DEF RequestIsSound
    <2>2. submissionRow.version \in {1, 2, 3}
      BY DEF SubmissionInv, RowIsAVersion, RowOf
    <2>3. q.record.version \in {1, 2, 3}
          /\ q.record = RowOf(q.record.version, q.record.opener, q.record.answers)
      BY <2>1, <2>2 DEF IsEarlierVersion
    <2>4. q.record.status = RowOf(q.record.version, q.record.opener, q.record.answers).status
      BY <2>3
    <2> QED BY <2>3, <2>4 DEF RowOf
  <1>4. CASE \E what \in {"questions", "result", "conflict", "invalid", "error"} :
                /\ Submission!Reply(r, what)
                /\ what = "result" => q.record.version = 3 /\ q.asks # "submit"
                /\ what = "questions" /\ q.asks = "open" => q.record.version # 1
    BY <1>1, <1>2, <1>4, RequestReplies
  <1>5. CASE Submission!Check(r) /\ Submission!Move(r, [q EXCEPT !.at = "facts"])
             /\ q.record.status = "submitted" /\ q.answers = q.record.answers
    <2> DEFINE p == [q EXCEPT !.at = "facts"]
    <2>1. q.asks = "submit" /\ q.at = "checked"
      BY <1>5 DEF Submission!Check, Submission!At
    <2>2. /\ p.at = "facts" /\ p.asks = "submit" /\ p.answers = q.answers
          /\ p.record = q.record /\ p.reply = q.reply /\ p \in RequestRecords
      BY <1>1, <2>1 DEF RequestRecords
    <2> HIDE DEF p
    <2>3. RequestIsSound(p)
      BY <1>1, <1>3, <1>5, <2>1, <2>2 DEF RequestIsSound
    <2> QED BY <1>1, <1>5, <2>2, <2>3, RequestMoves DEF p
  <1>6. CASE Submission!RecordingFails(r)
    BY <1>4, <1>6 DEF Submission!RecordingFails
  <1>7. CASE Submission!Answer(r)
    BY <1>3, <1>4, <1>7 DEF Submission!Answer
  <1>8. CASE Submission!Check(r)
    BY <1>4, <1>5, <1>8 DEF Submission!Check
  <1> QED BY <1>6, <1>7, <1>8

(* The versioned update: the only step that changes the row.               *)
LEMMA RowIsReplaced ==
    ASSUME SubmissionInv, NEW r \in Requests, Submission!Replace(r)
    PROVE  SubmissionInv'
  <1> DEFINE q == submissionRequests[r]
  <1>1. q \in RequestRecords /\ RequestIsSound(q) /\ q.at = "checked"
        /\ UNCHANGED submissionEvidence
        /\ IsEarlierVersion(q.record)
    BY DEF SubmissionInv, Submission!Replace, Submission!At, RequestIsSound
  <1>2. CASE Submission!Reply(r, "conflict") /\ UNCHANGED submissionRow
    BY <1>1, <1>2, RequestReplies
  <1>3. ASSUME NEW record, record \in Submission!Updates(r), submissionRow.version = q.record.version,
               Submission!Stored(r, record)
        PROVE  SubmissionInv'
    <2>1. q.record = RowOf(submissionRow.version, q.record.opener, q.record.answers)
          /\ q.record.status = RowOf(submissionRow.version, q.record.opener, q.record.answers).status
      BY <1>1, <1>3 DEF IsEarlierVersion
    <2>2. submissionRow.answers = None /\ q.record.answers = None
          /\ submissionRow.version \in {1, 2}
          /\ q.record = submissionRow
      <3>1. q.record.status # "submitted"
        BY <1>3 DEF Submission!Updates
      <3>2. submissionRow.version # 3
        BY <2>1, <3>1 DEF RowOf
      <3>3. submissionRow.version \in {1, 2} /\ submissionRow.answers = None
        BY <3>2 DEF SubmissionInv, RowIsAVersion, RowOf
      <3>4. q.record.answers = None
        BY <1>1, <3>3 DEF IsEarlierVersion
      <3>5. submissionRow = RowOf(submissionRow.version, IF submissionRow.version = 1 THEN None ELSE submissionRow.opener, None)
        BY <3>2 DEF SubmissionInv, RowIsAVersion, RowOf
      <3>6. q.record.opener = (IF submissionRow.version = 1 THEN None ELSE submissionRow.opener)
        BY <1>1, <1>3 DEF IsEarlierVersion
      <3> QED BY <2>1, <3>3, <3>4, <3>5, <3>6
    <2>3. submissionEvidence.facts = None /\ submissionEvidence.episode = None
      BY <2>2 DEF SubmissionInv
    <2>4. \/ /\ q.asks = "open" /\ submissionRow.version = 1 /\ record = RowOf(2, r, None)
          \/ /\ q.asks = "submit" /\ submissionRow.version = 2 /\ q.answers \in CompleteAnswers
             /\ submissionRow.opener \in Requests
                /\ record = RowOf(3, submissionRow.opener, q.answers)
      <3>1. CASE q.asks = "open" /\ q.record.status = "ready"
        <4>1. submissionRow.version = 1 /\ submissionRow = RowOf(1, None, None)
          BY <2>2, <3>1 DEF SubmissionInv, RowIsAVersion, RowOf
        <4>2. record = [submissionRow EXCEPT !.status = "in_progress", !.opener = r, !.version = @ + 1]
          BY <1>3, <2>2, <3>1 DEF Submission!Updates
        <4>3. record = RowOf(2, r, None)
          <5>1. RowOf(1, None, None) = [status |-> "ready", opener |-> None, version |-> 1,
                                        answers |-> None]
            BY DEF RowOf
          <5>2. RowOf(2, r, None) = [status |-> "in_progress", opener |-> r, version |-> 2,
                                     answers |-> None]
            BY DEF RowOf
          <5>3. submissionRow.version + 1 = 2 /\ submissionRow.answers = None
            BY <4>1, <5>1
          <5>4. record = [status |-> "in_progress", opener |-> r, version |-> submissionRow.version + 1,
                          answers |-> submissionRow.answers]
            BY <4>1, <4>2, <5>1
          <5> QED BY <5>2, <5>3, <5>4
        <4> QED BY <3>1, <4>1, <4>3
      <3>2. CASE q.asks = "submit" /\ q.record.status = "in_progress" /\ q.answers # "incomplete"
        <4>1. PICK o \in Requests : submissionRow = RowOf(2, o, None)
          BY <2>2, <3>2 DEF SubmissionInv, RowIsAVersion, RowOf
        <4>2. record = [submissionRow EXCEPT !.status = "submitted", !.answers = q.answers,
                                   !.version = @ + 1]
          BY <1>3, <2>2, <3>2 DEF Submission!Updates, Submission!Incomplete
        <4>3. q.answers \in CompleteAnswers
          BY <1>1, <3>2 DEF RequestIsSound, RequestRecords
        <4>4. record = RowOf(3, o, q.answers)
          <5>1. RowOf(2, o, None) = [status |-> "in_progress", opener |-> o, version |-> 2,
                                     answers |-> None]
            BY DEF RowOf
          <5>2. RowOf(3, o, q.answers) = [status |-> "submitted", opener |-> o, version |-> 3,
                                          answers |-> q.answers]
            BY DEF RowOf
          <5>3. submissionRow.version + 1 = 3 /\ submissionRow.opener = o
            BY <4>1, <5>1
          <5>4. record = [status |-> "submitted", opener |-> submissionRow.opener,
                          version |-> submissionRow.version + 1, answers |-> q.answers]
            BY <4>1, <4>2, <5>1
          <5> QED BY <5>2, <5>3, <5>4
        <4>5. submissionRow.version = 2 /\ submissionRow.opener = o
          BY <4>1 DEF RowOf
        <4> QED BY <3>2, <4>3, <4>4, <4>5
      <3> QED BY <1>3, <3>1, <3>2 DEF Submission!Updates, Submission!Incomplete
    <2> DEFINE p == submissionRequests'[r]
    <2>5. submissionRow' = record
          /\ (record = RowOf(2, r, None) \/ \E o \in Requests, a \in CompleteAnswers : record = RowOf(3, o, a))
      BY <1>3, <2>4 DEF Submission!Stored
    <2>6. RowIsAVersion'
      BY <2>5 DEF RowIsAVersion, RowOf
    <2>7. record \in [status : {"none", "ready", "in_progress", "submitted"},
                     opener : Requests \cup {None}, version : 0..3,
                     answers : CompleteAnswers \cup {None}]
      BY <2>5 DEF RowOf
    <2>8. /\ submissionRequests' \in [Requests -> RequestRecords]
          /\ \A o \in Requests \ {r} : submissionRequests'[o] = submissionRequests[o]
          /\ p.record = record /\ p.asks = q.asks /\ p.answers = q.answers
          /\ p.at = (IF q.asks = "submit" THEN "facts" ELSE "replied")
          /\ p.reply = (IF q.asks = "open" THEN "questions" ELSE q.reply)
      BY <1>1, <1>3, <2>7 DEF Submission!Stored, Submission!Move, RequestRecords, SubmissionInv
    <2>9. /\ record.version = submissionRow.version + 1
          /\ q.asks = "submit" => q.answers = record.answers
          /\ record.version = 3 => q.asks = "submit"
          /\ record.version = 2 => submissionRow.version = 1
          /\ record.version = 3 => submissionRow.opener = record.opener
      BY <2>4 DEF RowOf
    <2>10. IsEarlierVersion(record)'
      BY <2>5 DEF IsEarlierVersion, RowOf
    <2>11. ASSUME NEW o \in Requests PROVE RequestIsSound(submissionRequests[o])'
      <3>1. CASE o = r
        BY <1>1, <2>4, <2>5, <2>8, <2>9, <2>10, <3>1 DEF RequestIsSound
      <3>2. CASE o # r
        <4>1. submissionRequests'[o] = submissionRequests[o]
              /\ RequestIsSound(submissionRequests[o])
          BY <2>8, <3>2 DEF SubmissionInv
        <4>2. ASSUME IsEarlierVersion(submissionRequests[o].record)
              PROVE  IsEarlierVersion(submissionRequests[o].record)'
                     /\ submissionRequests[o].record.version # 3
          BY <2>2, <2>4, <2>5, <2>9, <4>1, <4>2 DEF IsEarlierVersion, RowOf
        <4> QED BY <1>1, <2>3, <4>1, <4>2 DEF RequestIsSound
      <3> QED BY <3>1, <3>2
    <2> QED BY <1>1, <2>3, <2>6, <2>8, <2>11 DEF SubmissionInv
  <1> QED BY <1>1, <1>2, <1>3 DEF Submission!Replace

(* The three transactions of the recorder.                                 *)
LEMMA EvidenceIsRecorded ==
    ASSUME SubmissionInv, NEW r \in Requests,
           Submission!RecordFacts(r) \/ Submission!RecordEpisode(r) \/ Submission!Project(r)
    PROVE  SubmissionInv'
  <1> DEFINE q == submissionRequests[r]
             p == submissionRequests'[r]
  <1>1. q \in RequestRecords /\ RequestIsSound(q) /\ UNCHANGED submissionRow
    BY DEF SubmissionInv, Submission!RecordFacts, Submission!RecordEpisode, Submission!Project
  <1>2. q.at \in {"facts", "episode", "snapshot"}
    BY DEF Submission!RecordFacts, Submission!RecordEpisode, Submission!Project, Submission!At
  <1>3. /\ q.record.answers = submissionRow.answers /\ q.record.version = 3 /\ q.asks = "submit"
        /\ q.answers = submissionRow.answers /\ q.reply = "none"
           /\ submissionRow.answers \in CompleteAnswers
    <2>1. /\ q.record.answers = submissionRow.answers /\ q.record.version = 3 /\ q.asks = "submit"
          /\ q.answers = submissionRow.answers /\ q.reply = "none" /\ q.answers # None
      BY <1>1, <1>2 DEF RequestIsSound, RequestRecords
    <2> QED BY <2>1 DEF SubmissionInv, RowIsAVersion, RowOf
  <1>4. ASSUME Submission!Reply(r, "error"), UNCHANGED submissionEvidence
        PROVE  SubmissionInv'
    BY <1>1, <1>2, <1>4, RequestReplies
  <1>5. ASSUME NEW step \in {"episode", "snapshot", "replied"}, NEW reply \in {"none", "result"},
               submissionRequests' = [submissionRequests EXCEPT ![r] = [q EXCEPT !.at = step, !.reply = reply]],
               submissionEvidence' \in [facts : CompleteAnswers \cup {None}, episode : CompleteAnswers \cup {None},
                              snapshot : BOOLEAN],
               /\ submissionEvidence'.facts = submissionRow.answers
               /\ submissionEvidence'.episode \in {submissionEvidence.episode, submissionRow.answers}
               /\ submissionEvidence.snapshot => submissionEvidence'.snapshot
               /\ step = "snapshot" => submissionEvidence'.episode = submissionRow.answers
               /\ step = "replied" <=> reply = "result"
               /\ reply = "result" => submissionEvidence'.episode = submissionRow.answers
                  /\ submissionEvidence'.snapshot
        PROVE  SubmissionInv'
    <2>1. /\ submissionRequests' \in [Requests -> RequestRecords]
          /\ \A o \in Requests \ {r} : submissionRequests'[o] = submissionRequests[o]
          /\ p.at = step /\ p.reply = reply /\ p.asks = q.asks /\ p.answers = q.answers
          /\ p.record = q.record
      BY <1>1, <1>5 DEF RequestRecords, SubmissionInv
    <2>2. \A rec : IsEarlierVersion(rec) => IsEarlierVersion(rec)'
      BY <1>1 DEF IsEarlierVersion, RowOf
    <2>3. ASSUME NEW o \in Requests PROVE RequestIsSound(submissionRequests[o])'
      <3>1. CASE o = r
        BY <1>1, <1>2, <1>3, <1>5, <2>1, <2>2, <3>1 DEF RequestIsSound
      <3>2. CASE o # r
        <4>1. submissionRequests'[o] = submissionRequests[o]
              /\ RequestIsSound(submissionRequests[o])
          BY <2>1, <3>2 DEF SubmissionInv
        <4>2. submissionEvidence.episode = submissionRow.answers => submissionEvidence'.episode = submissionRow.answers
          BY <1>5
        <4> QED BY <1>1, <1>5, <2>2, <4>1, <4>2 DEF RequestIsSound
      <3> QED BY <3>1, <3>2
    <2>4. RowIsAVersion'
      BY <1>1 DEF SubmissionInv, RowIsAVersion, RowOf
    <2>5. submissionEvidence.episode \in {None, submissionRow.answers}
      BY DEF SubmissionInv
    <2> QED BY <1>1, <1>5, <2>1, <2>3, <2>4, <2>5 DEF SubmissionInv
  <1>0. \A step : [q EXCEPT !.at = step, !.reply = "none"] = [q EXCEPT !.at = step]
    BY <1>1, <1>3 DEF RequestRecords
  <1>6. CASE Submission!RecordFacts(r)
    <2>1. CASE submissionEvidence.facts \in {None, q.record.answers}
      <3>1. submissionRequests' = [submissionRequests EXCEPT ![r] = [q EXCEPT !.at = "episode", !.reply = "none"]]
        BY <1>0, <1>6, <2>1 DEF Submission!RecordFacts, Submission!Move
      <3>2. submissionEvidence' = [submissionEvidence EXCEPT !.facts = submissionRow.answers]
        BY <1>3, <1>6, <2>1 DEF Submission!RecordFacts
      <3> QED BY <1>3, <1>5, <3>1, <3>2 DEF SubmissionInv
    <2>2. CASE submissionEvidence.facts \notin {None, q.record.answers}
      BY <1>4, <1>6, <2>2 DEF Submission!RecordFacts
    <2> QED BY <2>1, <2>2
  <1>7. CASE Submission!RecordEpisode(r)
    <2>1. submissionRequests' = [submissionRequests EXCEPT ![r] = [q EXCEPT !.at = "snapshot", !.reply = "none"]]
      BY <1>0, <1>7 DEF Submission!RecordEpisode, Submission!Move
    <2>2. submissionEvidence' = [submissionEvidence EXCEPT !.episode = submissionRow.answers]
          /\ submissionEvidence.facts = submissionRow.answers
      BY <1>1, <1>3, <1>7 DEF Submission!RecordEpisode, Submission!At, RequestIsSound
    <2> QED BY <1>3, <1>5, <2>1, <2>2 DEF SubmissionInv
  <1>8. CASE Submission!Project(r)
    <2>1. submissionRequests' = [submissionRequests EXCEPT ![r] = [q EXCEPT !.at = "replied", !.reply = "result"]]
      BY <1>1, <1>8 DEF Submission!Project, Submission!Reply, Submission!Move, SubmissionInv,
               RequestRecords
    <2>2. submissionEvidence' = [submissionEvidence EXCEPT !.snapshot = TRUE]
          /\ submissionEvidence.facts = submissionRow.answers
          /\ submissionEvidence.episode = submissionRow.answers
      BY <1>1, <1>3, <1>8 DEF Submission!Project, Submission!At, RequestIsSound
    <2> QED BY <1>3, <1>5, <2>1, <2>2 DEF SubmissionInv
  <1> QED BY <1>6, <1>7, <1>8

(* Every step keeps the invariant of the submissions.                      *)
LEMMA SubmissionSteps ==
    ASSUME SubmissionInv, [Submission!Next]_(Submission!vars)
    PROVE  SubmissionInv'
  <1>1. CASE Submission!Next
    BY <1>1, RequestReads, RequestAnswers, RowIsReplaced, EvidenceIsRecorded DEF Submission!Next
  <1>2. CASE UNCHANGED Submission!vars
    BY <1>2 DEF Submission!vars, SubmissionInv, RowIsAVersion, RowOf, RequestIsSound,
             IsEarlierVersion
  <1> QED BY <1>1, <1>2

-----------------------------------------------------------------------------
(* The title of one chat session.                                          *)

TitleFields == {"title", "deleted", "attempts", "pending", "source"}

TaskRecords ==
    [at : {"start", "asking", "done"}, message : Messages, seed : Messages, renamed : BOOLEAN]

(* At most one task is out for a title, and it knows if the student has    *)
(* given one since.                                                        *)
TitlesInv ==
    /\ titlesRow = [f \in TitleFields |-> titlesRow[f]]
    /\ titlesMessages \in Seq(Messages)
    /\ titlesTasks \in Seq(TaskRecords)
    /\ \A t \in 1 .. Len(titlesTasks) : titlesTasks[t].at # "done" =>
          /\ titlesPending
          /\ titlesRow.source \in Titles!Given => titlesTasks[t].renamed
    /\ \A t, u \in 1 .. Len(titlesTasks) : titlesTasks[t].at # "done"
       /\ titlesTasks[u].at # "done" => t = u

(* At the start the session has its default title and no task is out.      *)
LEMMA TitlesStart == Titles!Init => TitlesInv
  BY DEF Titles!Init, TitlesInv, TitleFields

(* A task moves, and the row with it; it is the only one if it was out.    *)
LEMMA TaskMoves ==
    ASSUME TitlesInv, NEW t \in 1 .. Len(titlesTasks), NEW task \in TaskRecords, titlesTasks[t].at # "done",
           titlesTasks' = [titlesTasks EXCEPT ![t] = task], UNCHANGED titlesMessages,
           titlesRow' = [f \in TitleFields |-> titlesRow'[f]],
           task.at # "done" => titlesPending'
           /\ (titlesRow'.source \in Titles!Given => task.renamed)
    PROVE  TitlesInv'
  <1>1. /\ titlesTasks' \in Seq(TaskRecords) /\ Len(titlesTasks') = Len(titlesTasks)
        /\ \A u \in 1 .. Len(titlesTasks) : titlesTasks'[u] = IF u = t THEN task ELSE titlesTasks[u]
    BY ExceptSeq DEF TitlesInv
  <1> QED BY <1>1 DEF TitlesInv

(* The two changes of a task's record, field by field.                     *)
LEMMA TouchedTasks ==
    ASSUME NEW task \in TaskRecords
    PROVE  /\ [task EXCEPT !.at = "done"] \in TaskRecords
           /\ [task EXCEPT !.at = "done"].at = "done"
           /\ [task EXCEPT !.renamed = TRUE] \in TaskRecords
           /\ [task EXCEPT !.renamed = TRUE].at = task.at
           /\ [task EXCEPT !.renamed = TRUE].renamed = TRUE
  BY DEF TaskRecords

(* Every step keeps the invariant of the titles and lets a given title     *)
(* stand.                                                                  *)
LEMMA TitlesSteps ==
    ASSUME TitlesInv, [Titles!Next]_Titles!vars
    PROVE  TitlesInv' /\ [Titles!GivenTitleStands]_Titles!vars
  <1>1. /\ DOMAIN titlesTasks = 1 .. Len(titlesTasks) /\ Len(titlesTasks) \in Nat
        /\ \A t \in 1 .. Len(titlesTasks) : titlesTasks[t] \in TaskRecords
    BY LenProperties DEF TitlesInv
  <1>2. CASE \E message \in Messages : Titles!Send(message)
    <2>1. PICK message \in Messages : Titles!Send(message)
      BY <1>2
    <2> DEFINE first == titlesMessages = <<>>
               task == [at |-> "start", message |-> message, seed |-> message, renamed |-> FALSE]
    <2>2. titlesMessages' = Append(titlesMessages, message) /\ titlesMessages' \in Seq(Messages)
          /\ ~titlesRow.deleted
      BY <2>1 DEF Titles!Send, TitlesInv
    <2>3. CASE /\ Titles!Wanted(first) /\ titlesRow' = Titles!Interim(message, first)
               /\ titlesTasks' = Append(titlesTasks, task) /\ titlesPending' = TRUE
      <3>1. titlesRow.source \notin Titles!Given /\ ~titlesPending
        BY <2>3 DEF Titles!Wanted
      <3>2. titlesRow' = [f \in TitleFields |-> titlesRow'[f]]
            /\ titlesRow'.source \in {titlesRow.source, "heuristic"}
        BY <2>3 DEF Titles!Interim, TitlesInv, TitleFields
      <3>3. /\ task \in TaskRecords
            /\ titlesTasks' \in Seq(TaskRecords) /\ Len(titlesTasks') = Len(titlesTasks) + 1
            /\ titlesTasks'[Len(titlesTasks) + 1] = task
            /\ \A t \in 1 .. Len(titlesTasks) : titlesTasks'[t] = titlesTasks[t]
        BY <2>3, AppendProperties DEF TitlesInv, TaskRecords
      <3>4. \A t \in 1 .. Len(titlesTasks) : titlesTasks[t].at = "done"
        BY <3>1 DEF TitlesInv
      <3>5. titlesRow'.source \notin Titles!Given
        BY <3>1, <3>2 DEF Titles!Given
      <3> HIDE DEF task
      <3>6. TitlesInv'
        BY <2>2, <2>3, <3>2, <3>3, <3>4, <3>5 DEF TitlesInv
      <3> QED BY <2>2, <3>1, <3>6 DEF Titles!GivenTitleStands
    <2>4. CASE UNCHANGED <<titlesRow, titlesTasks, titlesPending>>
      BY <2>2, <2>4 DEF TitlesInv, Titles!GivenTitleStands
    <2> QED BY <2>1, <2>3, <2>4 DEF Titles!Send
  <1>3. ASSUME NEW t \in DOMAIN titlesTasks, Titles!Ask(t)
        PROVE  TitlesInv' /\ titlesRow' = titlesRow
    <2> DEFINE seed == IF titlesMessages = <<>> THEN titlesTasks[t].seed ELSE Head(titlesMessages)
               task == [titlesTasks[t] EXCEPT !.at = "asking", !.seed = seed]
    <2>1. titlesTasks[t] \in TaskRecords /\ t \in 1 .. Len(titlesTasks)
      BY <1>1 DEF TitlesInv
    <2>2. seed \in Messages
      BY <2>1 DEF TitlesInv, TaskRecords
    <2>3. titlesTasks' = [titlesTasks EXCEPT ![t] = task]
          /\ UNCHANGED <<titlesRow, titlesMessages, titlesPending>>
          /\ titlesTasks[t].at = "start"
      BY <1>3 DEF Titles!Ask
    <2> HIDE DEF seed
    <2>4. task \in TaskRecords /\ task.renamed = titlesTasks[t].renamed
      BY <2>1, <2>2 DEF TaskRecords
    <2> HIDE DEF task
    <2> QED BY <2>1, <2>3, <2>4, TaskMoves DEF TitlesInv
  <1>4. ASSUME NEW t \in DOMAIN titlesTasks, Titles!Leave(t), titlesTasks[t].at # "done",
               titlesRow' = titlesRow \/ \E title, from : titlesRow' = Titles!Retitled(title, from)
        PROVE  TitlesInv' /\ Titles!GivenTitleStands
    <2> DEFINE task == [titlesTasks[t] EXCEPT !.at = "done"]
    <2>1. titlesTasks[t] \in TaskRecords /\ t \in 1 .. Len(titlesTasks)
      BY <1>1 DEF TitlesInv
    <2>2. titlesTasks' = [titlesTasks EXCEPT ![t] = task] /\ UNCHANGED titlesMessages
      BY <1>4 DEF Titles!Leave
    <2>3. task \in TaskRecords /\ task.at = "done"
      BY <2>1 DEF TaskRecords
    <2>4. titlesTasks'[t].at = "done"
      BY <2>1, <2>2, <2>3, ExceptSeq DEF TitlesInv
    <2>5. titlesRow' = [f \in TitleFields |-> titlesRow'[f]]
          /\ (titlesRow.deleted => titlesRow' = titlesRow)
      BY <1>4 DEF Titles!Retitled, TitlesInv, TitleFields
    <2> HIDE DEF task
    <2>6. TitlesInv'
      BY <1>4, <2>1, <2>2, <2>3, <2>5, TaskMoves
    <2>7. titlesRow.source \in Titles!Given => titlesTasks[t].renamed
      BY <1>4, <2>1 DEF TitlesInv
    <2> QED BY <1>4, <2>4, <2>5, <2>6, <2>7 DEF Titles!GivenTitleStands
  <1>5. ASSUME NEW t \in DOMAIN titlesTasks, Titles!Finish(t) \/ Titles!FinishBadly(t)
        PROVE  TitlesInv' /\ Titles!GivenTitleStands
    <2>1. titlesTasks[t].at # "done" /\ Titles!Leave(t)
      BY <1>5 DEF Titles!Finish, Titles!FinishBadly
    <2>2. titlesRow' = titlesRow \/ \E title, from : titlesRow' = Titles!Retitled(title, from)
      BY <1>5 DEF Titles!Finish, Titles!FinishBadly
    <2> QED BY <1>4, <2>1, <2>2
  <1>6. ASSUME NEW title \in Manual \cup {Default}, Titles!Rename(title)
        PROVE  TitlesInv' /\ Titles!GivenTitleStands
    <2>1. ~titlesRow.deleted /\ Titles!GivenTitleStands
      BY <1>6 DEF Titles!GivenTitleStands, Titles!Rename
    <2>2. /\ titlesRow' = [titlesRow EXCEPT !.title = title, !.source = "manual"]
          /\ titlesTasks' = [t \in DOMAIN titlesTasks |-> [titlesTasks[t] EXCEPT !.renamed = TRUE]]
          /\ UNCHANGED <<titlesMessages, titlesPending>>
      BY <1>6 DEF Titles!Rename
    <2>3. titlesRow' = [f \in TitleFields |-> titlesRow'[f]]
      BY <2>2 DEF TitlesInv, TitleFields
    <2>4. \A t \in 1 .. Len(titlesTasks) : [titlesTasks[t] EXCEPT !.renamed = TRUE] \in TaskRecords
      BY <1>1, TouchedTasks
    <2>5. titlesTasks' \in [1 .. Len(titlesTasks) -> TaskRecords] /\ Len(titlesTasks) \in Nat
      BY <1>1, <2>2, <2>4 DEF TitlesInv
    <2>6. titlesTasks' \in Seq(TaskRecords) /\ Len(titlesTasks') = Len(titlesTasks)
      BY <2>5, SeqDef
    <2>7. \A t \in 1 .. Len(titlesTasks) : titlesTasks'[t].at = titlesTasks[t].at
          /\ titlesTasks'[t].renamed
      BY <1>1, <2>2, TouchedTasks
    <2>8. TitlesInv'
      <3>1. ASSUME NEW t \in 1 .. Len(titlesTasks'), titlesTasks'[t].at # "done"
            PROVE  titlesPending' /\ titlesTasks'[t].renamed
        <4>1. titlesTasks[t].at # "done" /\ t \in 1 .. Len(titlesTasks) /\ titlesTasks'[t].renamed
          BY <2>6, <2>7, <3>1
        <4>2. titlesPending
          BY <4>1 DEF TitlesInv
        <4> QED BY <2>2, <4>1, <4>2
      <3>2. ASSUME NEW t \in 1 .. Len(titlesTasks'), NEW u \in 1 .. Len(titlesTasks'),
                   titlesTasks'[t].at # "done", titlesTasks'[u].at # "done"
            PROVE  t = u
        BY <2>6, <2>7, <3>2 DEF TitlesInv
      <3>3. titlesMessages' \in Seq(Messages)
        BY <2>2 DEF TitlesInv
      <3> QED BY <2>3, <2>6, <3>1, <3>2, <3>3 DEF TitlesInv
    <2> QED BY <2>1, <2>8
  <1>7. CASE Titles!Delete
    BY <1>7, EmptySeq DEF Titles!Delete, Titles!GivenTitleStands, TitlesInv, TitleFields
  <1>8. CASE Titles!ClearMessages
    BY <1>8, EmptySeq DEF Titles!ClearMessages, Titles!GivenTitleStands, TitlesInv
  <1>9. CASE Titles!Restart
    <2>1. /\ titlesTasks' = [t \in DOMAIN titlesTasks |-> [titlesTasks[t] EXCEPT !.at = "done"]]
          /\ UNCHANGED <<titlesRow, titlesMessages>>
      BY <1>9 DEF Titles!Restart
    <2>2. \A t \in 1 .. Len(titlesTasks) : [titlesTasks[t] EXCEPT !.at = "done"] \in TaskRecords
      BY <1>1, TouchedTasks
    <2>3. titlesTasks' \in [1 .. Len(titlesTasks) -> TaskRecords] /\ Len(titlesTasks) \in Nat
      BY <1>1, <2>1, <2>2 DEF TitlesInv
    <2>4. titlesTasks' \in Seq(TaskRecords) /\ Len(titlesTasks') = Len(titlesTasks)
      BY <2>3, SeqDef
    <2>5. \A t \in 1 .. Len(titlesTasks) : titlesTasks'[t].at = "done"
      BY <1>1, <2>1, TouchedTasks
    <2> QED BY <2>1, <2>4, <2>5 DEF TitlesInv, Titles!GivenTitleStands
  <1>10. CASE UNCHANGED Titles!vars
    BY <1>10 DEF Titles!vars, TitlesInv
  <1> QED BY <1>2, <1>3, <1>5, <1>6, <1>7, <1>8, <1>9, <1>10
          DEF Titles!Next, Titles!GivenTitleStands

-----------------------------------------------------------------------------
(* The import of the sessions that the file store kept.                    *)

(* Putting the planned messages that are missing after those that are      *)
(* there keeps both histories as beginnings when they agree where both are.*)
LEMMA FillingKeepsBoth ==
    ASSUME NEW S, NEW s \in Seq(S), NEW t \in Seq(S),
           \A i \in DOMAIN t \cap DOMAIN s : s[i] = t[i]
    PROVE  LET filled == s \o SubSeq(t, Len(s) + 1, Len(t))
           IN  /\ filled \in Seq(S)
               /\ Backfill!Begins(s, filled) /\ Backfill!Begins(t, filled)
  <1> DEFINE a == Len(s)
             b == Len(t)
             rest == SubSeq(t, a + 1, b)
             c == Len(rest)
             filled == s \o rest
  <1>1. /\ a \in Nat /\ b \in Nat
        /\ DOMAIN s = 1 .. a /\ DOMAIN t = 1 .. b
    BY LenProperties
  <1>2. \A i \in a + 1 .. b : t[i] \in S
    BY <1>1, LenProperties
  <1>3. a + 1 \in Int /\ b \in Int
    BY <1>1
  <1> HIDE DEF a, b
  <1>4. /\ rest \in Seq(S)
        /\ c = IF a + 1 <= b THEN b - (a + 1) + 1 ELSE 0
        /\ \A i \in 1 .. b - (a + 1) + 1 : rest[i] = t[(a + 1) + i - 1]
    BY <1>2, <1>3, SubSeqProperties
  <1> HIDE DEF rest
  <1>5. /\ filled \in Seq(S) /\ Len(filled) = a + c
        /\ \A i \in 1 .. a + c : filled[i] = IF i <= a THEN s[i] ELSE rest[i - a]
    BY <1>4, ConcatProperties DEF a
  <1> HIDE DEF c, filled
  <1>6. c \in Nat /\ b <= a + c /\ (b > a => c = b - a)
    <2>1. CASE a + 1 <= b
      BY <1>1, <1>4, <2>1
    <2>2. CASE ~(a + 1 <= b)
      BY <1>1, <1>4, <2>2
    <2> QED BY <2>1, <2>2
  <1>7. \A i \in 1 .. a : filled[i] = s[i]
    BY <1>1, <1>5, <1>6
  <1>8. ASSUME NEW i \in 1 .. b PROVE filled[i] = t[i]
    <2>1. CASE i <= a
      BY <1>1, <1>7, <2>1
    <2>2. CASE i > a
      <3>1. i - a \in 1 .. b - (a + 1) + 1 /\ i \in 1 .. a + c /\ (a + 1) + (i - a) - 1 = i
        BY <1>1, <1>6, <2>2
      <3>2. rest[i - a] = t[i]
        BY <1>4, <3>1
      <3>3. filled[i] = rest[i - a]
        BY <1>1, <1>5, <2>2, <3>1
      <3> QED BY <3>2, <3>3
    <2> QED BY <1>1, <2>1, <2>2
  <1>9. a <= Len(filled) /\ b <= Len(filled)
    BY <1>1, <1>5, <1>6
  <1>10. Backfill!Begins(s, filled)
    BY <1>1, <1>7, <1>9 DEF Backfill!Begins, a
  <1>11. Backfill!Begins(t, filled)
    BY <1>1, <1>8, <1>9 DEF Backfill!Begins, b
  <1> QED BY <1>5, <1>10, <1>11 DEF filled, rest, a, b

StoredMessages == {"file", "database"} \X Nat

RowFieldsOfSessions == {"state", "stamp", "messages"}

IsSession(r) == r = [f \in RowFieldsOfSessions |-> r[f]] /\ r.messages \in Seq(StoredMessages)

IsFile(f) ==
    /\ f = [x \in {"listed", "readable", "messages"} |-> f[x]]
    /\ f.messages \in Seq(StoredMessages)

BackfillInv ==
    /\ backfillFiles = [s \in Sessions |-> backfillFiles[s]]
       /\ \A s \in Sessions : IsFile(backfillFiles[s])
    /\ backfillRows = [s \in Sessions |-> backfillRows[s]]
       /\ \A s \in Sessions : IsSession(backfillRows[s])
    /\ backfillPlan = [f \in {"at", "sessions", "deleted"} |-> backfillPlan[f]]
    /\ \A s \in DOMAIN backfillPlan.sessions :
          s \in Sessions /\ backfillPlan.sessions[s].state = "active"
          /\ IsSession(backfillPlan.sessions[s])

(* At the start the database is empty and nothing is planned.              *)
LEMMA BackfillStarts == Backfill!Init => BackfillInv
  <1> SUFFICES ASSUME Backfill!Init PROVE BackfillInv
    OBVIOUS
  <1>1. \A s \in Sessions : IsFile(backfillFiles[s])
    <2>1. <<Backfill!Message("file", 1)>> \in Seq(StoredMessages) /\ <<>> \in Seq(StoredMessages)
      BY DEF Backfill!Message, StoredMessages
    <2>2. ASSUME NEW l \in BOOLEAN, NEW r \in BOOLEAN, NEW m \in Seq(StoredMessages)
          PROVE  IsFile([listed |-> l, readable |-> r, messages |-> m])
      BY DEF IsFile
    <2>3. ASSUME NEW s \in Sessions
          PROVE  \E l \in BOOLEAN, r \in BOOLEAN, m \in {<<>>, <<Backfill!Message("file", 1)>>} :
                    backfillFiles[s] = [listed |-> l, readable |-> r, messages |-> m]
      BY DEF Backfill!Init
    <2> QED BY <2>1, <2>2, <2>3
  <1>2. IsSession(Backfill!NoRow)
    BY DEF Backfill!NoRow, IsSession, RowFieldsOfSessions
  <1>3. backfillPlan = [f \in {"at", "sessions", "deleted"} |-> backfillPlan[f]]
        /\ DOMAIN backfillPlan.sessions = {}
    BY DEF Backfill!Init, Backfill!NoPlan
  <1> QED BY <1>1, <1>2, <1>3 DEF Backfill!Init, BackfillInv

(* An import that is applied: what was there stays in front.               *)
LEMMA ImportsAdd ==
    ASSUME BackfillInv, Backfill!Apply
    PROVE  BackfillInv' /\ Backfill!ImportAdds
  <1> DEFINE added(s) == [backfillPlan.sessions[s] EXCEPT
                             !.messages = Backfill!Filled(backfillRows[s].messages, @)]
  <1>1. /\ Backfill!Conflicts = {} /\ backfillTombs' = Backfill!Buried
        /\ backfillRows' = [s \in Sessions |-> IF s \in Backfill!Imported THEN added(s) ELSE backfillRows[s]]
        /\ backfillPlan' = [backfillPlan EXCEPT !.at = "applied"]
           /\ UNCHANGED <<backfillFiles, backfillDeleted>>
    BY DEF Backfill!Apply
  <1>2. ASSUME NEW s \in Backfill!Imported
        PROVE  /\ IsSession(added(s)) /\ added(s).state = "active"
               /\ added(s).stamp = backfillPlan.sessions[s].stamp
               /\ Backfill!Begins(backfillRows[s].messages, added(s).messages)
               /\ Backfill!Begins(backfillPlan.sessions[s].messages, added(s).messages)
    <2> DEFINE there == backfillRows[s].messages
               planned == backfillPlan.sessions[s].messages
               rest == SubSeq(planned, Len(there) + 1, Len(planned))
               filled == there \o rest
    <2>1. /\ s \in Sessions /\ IsSession(backfillPlan.sessions[s]) /\ IsSession(backfillRows[s])
          /\ backfillPlan.sessions[s].state = "active"
      BY DEF BackfillInv, Backfill!Imported
    <2>2. there \in Seq(StoredMessages) /\ planned \in Seq(StoredMessages)
      BY <2>1 DEF IsSession
    <2>3. Len(there) \in Nat /\ Len(planned) \in Nat
          /\ DOMAIN there = 1 .. Len(there) /\ DOMAIN planned = 1 .. Len(planned)
      BY <2>2, LenProperties
    <2>4. \A i \in DOMAIN planned \cap DOMAIN there : there[i] = planned[i]
      BY <1>1 DEF Backfill!Conflicts, Backfill!SameMessages
    <2> HIDE DEF there, planned
    <2>5. /\ filled \in Seq(StoredMessages)
          /\ Backfill!Begins(there, filled) /\ Backfill!Begins(planned, filled)
      BY <2>2, <2>3, <2>4, FillingKeepsBoth
    <2> HIDE DEF rest, filled
    <2>12. added(s) = [backfillPlan.sessions[s] EXCEPT !.messages = filled]
      BY DEF Backfill!Filled, there, planned, rest, filled
    <2>13. /\ added(s).state = "active" /\ added(s).stamp = backfillPlan.sessions[s].stamp
           /\ added(s).messages = filled
           /\ added(s) = [f \in RowFieldsOfSessions |-> added(s)[f]]
      BY <2>1, <2>12 DEF IsSession, RowFieldsOfSessions
    <2> QED BY <2>5, <2>13 DEF IsSession, there, planned
  <1>3. ASSUME NEW s \in Sessions, s \notin Backfill!Imported
        PROVE  backfillRows'[s] = backfillRows[s]
               /\ Backfill!Begins(backfillRows[s].messages, backfillRows[s].messages)
    <2>1. backfillRows[s].messages \in Seq(StoredMessages)
      BY DEF BackfillInv, IsSession
    <2>2. Len(backfillRows[s].messages) \in Nat
      BY <2>1, LenProperties
    <2> QED BY <1>1, <1>3, <2>2 DEF Backfill!Begins
  <1>4. ASSUME NEW s \in Backfill!Imported
        PROVE  /\ s \in Sessions /\ backfillRows'[s] = added(s)
               /\ \/ backfillRows[s].state = "absent"
                  \/ backfillRows[s].state = "active"
                     /\ backfillRows[s].stamp = backfillPlan.sessions[s].stamp
    <2>1. s \in Sessions /\ backfillPlan.sessions[s].state = "active" /\ Backfill!SameRow(s)
      BY <1>1 DEF BackfillInv, Backfill!Imported, Backfill!Conflicts
    <2> QED BY <1>1, <2>1 DEF Backfill!SameRow
  <1> HIDE DEF added
  <1>5. \A s \in Sessions : IsSession(backfillRows'[s])
    BY <1>2, <1>3, <1>4 DEF BackfillInv
  <1>6. BackfillInv'
    BY <1>1, <1>5 DEF BackfillInv
  <1>7. \A s \in DOMAIN backfillPlan.sessions : s \notin backfillTombs' => s \in Backfill!Imported
    BY <1>1 DEF Backfill!Imported
  <1>8. Backfill!ImportAdds
    BY <1>2, <1>3, <1>4, <1>7 DEF Backfill!ImportAdds
  <1> QED BY <1>6, <1>8

(* Every step keeps the shapes; only Apply can apply a plan.               *)
LEMMA BackfillSteps ==
    ASSUME BackfillInv, [Backfill!Next]_Backfill!vars
    PROVE  BackfillInv' /\ [Backfill!ImportAdds]_Backfill!vars
  <1>1. CASE Backfill!Apply
    BY <1>1, ImportsAdd
  <1>2. CASE Backfill!Plan
    <2>1. \A s \in Sessions : IsSession([state |-> "active", stamp |-> Backfill!Stamp(s),
                                         messages |-> Backfill!History(s)])
      BY EmptySeq DEF BackfillInv, IsFile, IsSession, RowFieldsOfSessions, Backfill!History
    <2>2. Backfill!Planned \subseteq Sessions
      BY DEF Backfill!Planned
    <2>3. backfillPlan' = [at |-> "planned", deleted |-> backfillDeleted,
                   sessions |-> [s \in Backfill!Planned |->
                       [state |-> "active", stamp |-> Backfill!Stamp(s),
                        messages |-> Backfill!History(s)]]]
          /\ UNCHANGED <<backfillFiles, backfillRows>> /\ backfillPlan.at = "idle"
      BY <1>2 DEF Backfill!Plan
    <2>4. BackfillInv'
      BY <2>1, <2>2, <2>3 DEF BackfillInv
    <2> QED BY <2>3, <2>4 DEF Backfill!ImportAdds
  <1>3. CASE Backfill!Refuse \/ Backfill!Abandon
    <2>1. /\ backfillPlan' \in {Backfill!NoPlan, [backfillPlan EXCEPT !.at = "refused"]}
             /\ UNCHANGED <<backfillFiles, backfillRows>>
      BY <1>3 DEF Backfill!Refuse, Backfill!Abandon
    <2>2. backfillPlan'.at # "applied" /\ BackfillInv'
      BY <2>1 DEF BackfillInv, Backfill!NoPlan
    <2> QED BY <2>2 DEF Backfill!ImportAdds
  <1>4. ASSUME NEW s \in Sessions,
               \/ Backfill!WriteFile(s) \/ Backfill!Continue(s) \/ Backfill!Rename(s)
               \/ Backfill!Clear(s) \/ Backfill!Delete(s)
               \/ \E i \in DOMAIN backfillRows[s].messages : Backfill!DeleteMessage(s, i)
        PROVE  BackfillInv' /\ UNCHANGED backfillPlan
    <2>1. UNCHANGED backfillPlan
      BY <1>4 DEF Backfill!WriteFile, Backfill!Continue, Backfill!Rename, Backfill!Clear,
                  Backfill!Delete, Backfill!DeleteMessage
    <2>2. IsFile(backfillFiles[s]) /\ IsSession(backfillRows[s])
      BY DEF BackfillInv
    <2>3. ASSUME NEW r, backfillRows' = [backfillRows EXCEPT ![s] = r], IsSession(r), UNCHANGED backfillFiles
          PROVE  BackfillInv'
      BY <2>1, <2>3 DEF BackfillInv
    <2>4. ASSUME NEW f, backfillFiles' = [backfillFiles EXCEPT ![s] = f], IsFile(f), UNCHANGED backfillRows
          PROVE  BackfillInv'
      BY <2>1, <2>4 DEF BackfillInv
    <2>5. CASE Backfill!WriteFile(s)
      <3>1. CASE backfillFiles' = [backfillFiles EXCEPT ![s].messages =
                             Append(@, Backfill!Message("file", Len(@) + 1))]
        <4> DEFINE f == [backfillFiles[s] EXCEPT !.messages =
                            Append(@, Backfill!Message("file", Len(@) + 1))]
               m == backfillFiles[s].messages
        <4>1. m \in Seq(StoredMessages)
              /\ backfillFiles[s] = [x \in {"listed", "readable", "messages"} |-> backfillFiles[s][x]]
          BY <2>2 DEF IsFile
        <4>2. Len(m) + 1 \in Nat
          BY <4>1, LenProperties
        <4>3. Append(m, Backfill!Message("file", Len(m) + 1)) \in Seq(StoredMessages)
          BY <4>1, <4>2, AppendProperties DEF Backfill!Message, StoredMessages
        <4>4. /\ f.messages = Append(m, Backfill!Message("file", Len(m) + 1))
              /\ f = [x \in {"listed", "readable", "messages"} |-> f[x]]
          BY <4>1
        <4>5. IsFile(f)
          BY <4>3, <4>4 DEF IsFile
        <4> QED BY <2>4, <2>5, <3>1, <4>5 DEF Backfill!WriteFile
      <3>2. CASE backfillFiles' = [backfillFiles EXCEPT ![s].readable = ~@]
        <4> DEFINE f == [backfillFiles[s] EXCEPT !.readable = ~@]
        <4>1. IsFile(f)
          BY <2>2 DEF IsFile
        <4> QED BY <2>4, <2>5, <3>2, <4>1 DEF Backfill!WriteFile
      <3>3. CASE UNCHANGED backfillFiles
        BY <2>1, <2>5, <3>3 DEF Backfill!WriteFile, BackfillInv
      <3> QED BY <2>5, <3>1, <3>2, <3>3 DEF Backfill!WriteFile
    <2>6. ASSUME NEW stamp, NEW state, NEW m \in Seq(StoredMessages)
          PROVE  /\ IsSession([backfillRows[s] EXCEPT !.stamp = stamp, !.messages = m])
                 /\ IsSession([backfillRows[s] EXCEPT !.messages = m])
                 /\ IsSession([backfillRows[s] EXCEPT !.stamp = stamp])
                 /\ IsSession([state |-> state, stamp |-> stamp, messages |-> m])
      BY <2>2 DEF IsSession, RowFieldsOfSessions
    <2>7. CASE Backfill!Continue(s)
      <3> DEFINE m == Append(backfillRows[s].messages, Backfill!Message("database", Len(backfillRows[s].messages) + 1))
      <3>1. m \in Seq(StoredMessages)
        BY <2>2 DEF IsSession, Backfill!Message, StoredMessages
      <3>2. backfillRows' = [backfillRows EXCEPT ![s] = [backfillRows[s] EXCEPT !.stamp = <<"live">>, !.messages = m]]
            /\ UNCHANGED backfillFiles
        BY <2>7 DEF Backfill!Continue
      <3> HIDE DEF m
      <3> QED BY <2>1, <2>3, <2>6, <3>1, <3>2
    <2>8. CASE Backfill!Rename(s)
      <3>1. backfillRows' = [backfillRows EXCEPT ![s] = [backfillRows[s] EXCEPT !.stamp = <<"live">>]] /\ UNCHANGED backfillFiles
        BY <2>8 DEF Backfill!Rename
      <3> QED BY <2>1, <2>2, <2>3, <2>6, <3>1 DEF IsSession
    <2>9. CASE Backfill!Clear(s)
      <3>1. backfillRows' = [backfillRows EXCEPT ![s] = [backfillRows[s] EXCEPT !.stamp = <<"live">>, !.messages = <<>>]]
            /\ UNCHANGED backfillFiles
        BY <2>9 DEF Backfill!Clear
      <3> QED BY <2>1, <2>3, <2>6, <3>1, EmptySeq
    <2>10. CASE Backfill!Delete(s)
      BY <2>1, <2>3, <2>6, <2>10, EmptySeq DEF Backfill!Delete
    <2>11. CASE \E i \in DOMAIN backfillRows[s].messages : Backfill!DeleteMessage(s, i)
      <3> DEFINE old == backfillRows[s].messages
                 left(i) == SubSeq(old, 1, i - 1) \o SubSeq(old, i + 1, Len(old))
      <3>1. PICK i \in DOMAIN old :
               /\ backfillRows' = [backfillRows EXCEPT ![s].messages =
                                      SubSeq(@, 1, i - 1) \o SubSeq(@, i + 1, Len(@))]
               /\ UNCHANGED backfillFiles
        BY <2>11 DEF Backfill!DeleteMessage
      <3>2. old \in Seq(StoredMessages)
        BY <2>2 DEF IsSession
      <3>3. i \in 1 .. Len(old) /\ Len(old) \in Nat
        BY <3>1, <3>2, LenProperties
      <3>4. SubSeq(old, 1, i - 1) \in Seq(StoredMessages)
            /\ SubSeq(old, i + 1, Len(old)) \in Seq(StoredMessages)
        <4>1. \A j \in 1 .. i - 1 : old[j] \in StoredMessages
          BY <3>2, <3>3, LenProperties
        <4>2. \A j \in i + 1 .. Len(old) : old[j] \in StoredMessages
          BY <3>2, <3>3, LenProperties
        <4> QED BY <3>3, <4>1, <4>2, SubSeqProperties
      <3>5. left(i) \in Seq(StoredMessages)
        BY <3>4, ConcatProperties
      <3>6. backfillRows' = [backfillRows EXCEPT ![s] = [backfillRows[s] EXCEPT !.messages = left(i)]]
        BY <3>1
      <3> QED BY <2>1, <2>3, <2>6, <3>1, <3>5, <3>6
    <2> QED BY <1>4, <2>1, <2>5, <2>7, <2>8, <2>9, <2>10, <2>11
  <1>5. CASE UNCHANGED Backfill!vars
    BY <1>5 DEF Backfill!vars, BackfillInv
  <1> QED BY <1>1, <1>2, <1>3, <1>4, <1>5 DEF Backfill!Next, Backfill!ImportAdds

-----------------------------------------------------------------------------
(* A set of natural numbers has a least element, since the intervals below *)
(* its elements are well ordered by inclusion.                             *)
LEMMA LeastExists ==
    ASSUME NEW S \in SUBSET Nat, S # {}
    PROVE  \E x \in S : \A y \in S : x <= y
  <1> DEFINE Below == {0 .. x : x \in S}
  <1>1. Below \in SUBSET FiniteSubsetsOf(Nat) /\ Below # {}
    <2>1. ASSUME NEW x \in S PROVE 0 .. x \in FiniteSubsetsOf(Nat)
      <3>1. IsFiniteSet(0 .. x) /\ 0 .. x \subseteq Nat
        BY FS_Interval
      <3> QED BY <3>1 DEF FiniteSubsetsOf
    <2> QED BY <2>1
  <1>2. PICK B \in Below : \A C \in Below : ~(<<C, B>> \in StrictSubsetOrdering(Nat))
    BY <1>1, WFMin, FS_StrictSubsetOrderingWellFounded
  <1>3. PICK x \in S : B = 0 .. x
    BY <1>2
  <1>4. ASSUME NEW y \in S PROVE x <= y
    <2>1. SUFFICES ASSUME y < x PROVE FALSE
      OBVIOUS
    <2>2. 0 .. y \subseteq 0 .. x /\ x \in 0 .. x /\ x \notin 0 .. y
      BY <2>1
    <2>3. <<0 .. y, B>> \in StrictSubsetOrdering(Nat)
      BY <1>3, <2>2 DEF StrictSubsetOrdering
    <2> QED BY <1>2, <2>3
  <1> QED BY <1>4

(* Migrations of one database.                                             *)

(* The migration that comes next is a pending one.                         *)
LEMMA NextMigration ==
    ASSUME NEW S \in SUBSET Nat, S # {}
    PROVE  Schema!Min(S) \in S
  BY LeastExists DEF Schema!Min

CallerRecords ==
    [at : {"idle", "plan", "planLegacy", "apply", "applyLegacy", "backfill", "ready", "failed"},
     pending : SUBSET Versions]

(* A plan that is not carried out yet covers whatever is not recorded, and *)
(* the old table, once found absent or renamed, is not found again.        *)
SoundUnder(s, c) ==
    /\ c.at \in {"apply", "applyLegacy"} => Versions \ c.pending \subseteq s.recorded
    /\ c.at = "apply" => c.pending # {}
    /\ c.at \in {"backfill", "ready"} => s.recorded = Versions
    /\ c.at \in {"plan", "apply", "backfill", "ready"} => s.legacy # "payload"
    /\ c.at \in {"planLegacy", "applyLegacy"} => s.legacy # "none"

MigrationInv ==
    /\ schemaSchema \in [effects : [Versions -> {0, 1}], recorded : SUBSET Versions,
                   legacy : {"payload", "none", "renamed"}]
    /\ schemaRows \in [Payloads -> {"absent", "copied", "edited"}]
    /\ schemaCallers \in [Callers -> CallerRecords]
    /\ \A v \in Versions : schemaSchema.effects[v] = (IF v \in schemaSchema.recorded THEN 1 ELSE 0)
    /\ schemaSchema.legacy = "renamed" => \A p \in Payloads : schemaRows[p] # "absent"
    /\ \A p \in schemaEdited : p \in Payloads /\ schemaRows[p] = "edited"
    /\ \A c \in Callers : SoundUnder(schemaSchema, schemaCallers[c])

(* At the start no migration has run and none is recorded.                 *)
LEMMA MigrationStarts == Schema!Init => MigrationInv
  <1> SUFFICES ASSUME Schema!Init PROVE MigrationInv
    OBVIOUS
  <1>1. PICK legacy \in {"payload", "none"} :
           schemaSchema = [effects |-> [v \in Versions |-> 0], recorded |-> {}, legacy |-> legacy]
    BY DEF Schema!Init
  <1> QED BY <1>1 DEF Schema!Init, MigrationInv, Schema!Nowhere, CallerRecords, SoundUnder

(* Other callers only see the record grow and the old table go.            *)
LEMMA CallersStaySound ==
    ASSUME MigrationInv, NEW c \in Callers, NEW d \in CallerRecords,
           schemaCallers' = [schemaCallers EXCEPT ![c] = d], SoundUnder(schemaSchema', d),
           schemaSchema.recorded \subseteq schemaSchema'.recorded, schemaSchema'.recorded \subseteq Versions,
           schemaSchema.legacy # "none" => schemaSchema'.legacy # "none",
           schemaSchema.legacy # "payload" => schemaSchema'.legacy # "payload"
    PROVE  /\ schemaCallers' \in [Callers -> CallerRecords]
           /\ \A o \in Callers : SoundUnder(schemaSchema', schemaCallers'[o])
  <1>1. ASSUME NEW o \in Callers PROVE SoundUnder(schemaSchema', schemaCallers'[o])
    BY DEF MigrationInv, SoundUnder
  <1> QED BY <1>1 DEF MigrationInv

(* Whoever has failed or given up has no plan.                             *)
LEMMA Fallen ==
    ASSUME NEW s, NEW c \in {[at |-> "failed", pending |-> {}], [at |-> "idle", pending |-> {}]}
    PROVE  c \in CallerRecords /\ SoundUnder(s, c)
  BY DEF CallerRecords, SoundUnder

(* Steps that touch neither the schema nor the rows.                       *)
LEMMA PlansAreSound ==
    ASSUME MigrationInv, NEW c \in Callers, UNCHANGED <<schemaSchema, schemaRows, schemaEdited>>,
           \/ Schema!LookForLegacy(c) \/ Schema!Plan(c) \/ Schema!Fault(c) \/ Schema!TryAgain(c)
           \/ Schema!Fails(c)
    PROVE  MigrationInv'
  <1> DEFINE d == schemaCallers'[c]
  <1>1. /\ schemaCallers' = [schemaCallers EXCEPT ![c] = d] /\ d \in CallerRecords
           /\ SoundUnder(schemaSchema', d)
    <2>1. schemaCallers[c] \in CallerRecords /\ SoundUnder(schemaSchema, schemaCallers[c])
      BY DEF MigrationInv
    <2>2. CASE Schema!LookForLegacy(c)
      <3> DEFINE step == IF schemaSchema.legacy = "payload" THEN "planLegacy" ELSE "plan"
      <3>1. schemaCallers' = [schemaCallers EXCEPT ![c] = [schemaCallers[c] EXCEPT !.at = step]]
        BY <2>2 DEF Schema!LookForLegacy, Schema!Go
      <3>2. d = [schemaCallers[c] EXCEPT !.at = step]
        BY <3>1 DEF MigrationInv
      <3>3. d.at = step /\ d \in CallerRecords
        BY <2>1, <3>2 DEF CallerRecords
      <3>4. SoundUnder(schemaSchema', d)
        <4> HIDE DEF d
        <4> QED BY <3>3 DEF SoundUnder
      <3> QED BY <3>1, <3>2, <3>3, <3>4
    <2>3. CASE Schema!Plan(c)
      <3> DEFINE unapplied == Versions \ schemaSchema.recorded
                 e == [pending |-> unapplied,
                       at |-> IF schemaCallers[c].at = "planLegacy" THEN "applyLegacy"
                              ELSE IF unapplied = {} THEN "backfill" ELSE "apply"]
      <3>1. schemaCallers' = [schemaCallers EXCEPT ![c] = e]
            /\ schemaCallers[c].at \in {"plan", "planLegacy"}
        BY <2>3 DEF Schema!Plan
      <3>2. d = e
        BY <3>1 DEF MigrationInv
      <3>3. e \in CallerRecords
        BY DEF CallerRecords
      <3>4. SoundUnder(schemaSchema', e)
        BY <2>1, <3>1 DEF SoundUnder, MigrationInv
      <3> QED BY <3>1, <3>2, <3>3, <3>4
    <2>4. CASE Schema!Fault(c) \/ Schema!TryAgain(c) \/ Schema!Fails(c)
      <3>1. PICK e \in {[at |-> "failed", pending |-> {}], [at |-> "idle", pending |-> {}]} :
               schemaCallers' = [schemaCallers EXCEPT ![c] = e]
        BY <2>4 DEF Schema!Fault, Schema!TryAgain, Schema!Fails, Schema!Nowhere
      <3>2. d = e
        BY <3>1 DEF MigrationInv
      <3> QED BY <3>1, <3>2, Fallen
    <2> QED BY <2>2, <2>3, <2>4
  <1>2. /\ schemaCallers' \in [Callers -> CallerRecords]
        /\ \A o \in Callers : SoundUnder(schemaSchema', schemaCallers'[o])
    BY <1>1, CallersStaySound DEF MigrationInv
  <1> QED BY <1>2 DEF MigrationInv

(* Applying migrations that are not recorded runs each of them once.       *)
LEMMA MigrationsAreApplied ==
    ASSUME MigrationInv, NEW versions \in SUBSET Versions, versions \cap schemaSchema.recorded = {}
    PROVE  /\ Schema!Applied(versions).effects \in [Versions -> {0, 1}]
           /\ Schema!Applied(versions).recorded = schemaSchema.recorded \cup versions
           /\ Schema!Applied(versions).legacy = schemaSchema.legacy
           /\ Schema!Applied(versions) \in
                [effects : [Versions -> {0, 1}], recorded : SUBSET Versions,
                 legacy : {"payload", "none", "renamed"}]
           /\ \A v \in Versions : Schema!Applied(versions).effects[v] =
                 (IF v \in schemaSchema.recorded \cup versions THEN 1 ELSE 0)
  <1> DEFINE e == [v \in Versions |-> IF v \in versions THEN schemaSchema.effects[v] + 1
                                      ELSE schemaSchema.effects[v]]
  <1>1. Schema!Applied(versions) = [effects |-> e, recorded |-> schemaSchema.recorded \cup versions,
                                    legacy |-> schemaSchema.legacy]
    <2>1. schemaSchema = [effects |-> schemaSchema.effects, recorded |-> schemaSchema.recorded,
                    legacy |-> schemaSchema.legacy]
      BY DEF MigrationInv
    <2>2. Schema!Applied(versions) = [schemaSchema EXCEPT !.effects = e, !.recorded = @ \cup versions]
      BY DEF MigrationInv, Schema!Applied
    <2> HIDE DEF e
    <2> QED BY <2>1, <2>2
  <1>2. \A v \in Versions : e[v] = (IF v \in schemaSchema.recorded \cup versions THEN 1 ELSE 0)
    BY DEF MigrationInv
  <1>3. e \in [Versions -> {0, 1}]
    BY <1>2
  <1> HIDE DEF e
  <1> QED BY <1>1, <1>2, <1>3 DEF MigrationInv

(* One migration of the plan is applied and recorded in one transaction.   *)
LEMMA NextIsApplied ==
    ASSUME MigrationInv, NEW c \in Callers, Schema!ApplyNext(c)
    PROVE  MigrationInv'
  <1> DEFINE unapplied == schemaCallers[c].pending
             v == Schema!Min(unapplied)
  <1>1. /\ schemaCallers[c].at = "apply" /\ unapplied \in SUBSET Versions /\ unapplied # {}
        /\ Versions \ unapplied \subseteq schemaSchema.recorded /\ schemaSchema.legacy # "payload"
        /\ UNCHANGED <<schemaRows, schemaEdited>>
    BY DEF MigrationInv, CallerRecords, SoundUnder, Schema!ApplyNext
  <1>2. v \in unapplied /\ v \in Versions
    BY <1>1, NextMigration, MigrationAssumption
  <1>3. CASE v \in schemaSchema.recorded
    BY <1>1, <1>3, PlansAreSound DEF Schema!ApplyNext
  <1>4. CASE v \notin schemaSchema.recorded
    <2> DEFINE d == [pending |-> unapplied \ {v},
                     at |-> IF unapplied = {v} THEN "backfill" ELSE "apply"]
    <2>1. schemaSchema' = Schema!Applied({v}) /\ schemaCallers' = [schemaCallers EXCEPT ![c] = d]
      BY <1>4 DEF Schema!ApplyNext, Schema!Done
    <2>2. /\ schemaSchema'.recorded = schemaSchema.recorded \cup {v}
          /\ schemaSchema'.legacy = schemaSchema.legacy
          /\ schemaSchema' \in [effects : [Versions -> {0, 1}], recorded : SUBSET Versions,
                          legacy : {"payload", "none", "renamed"}]
          /\ \A w \in Versions : schemaSchema'.effects[w] = (IF w \in schemaSchema'.recorded THEN 1 ELSE 0)
      BY <1>2, <1>4, <2>1, MigrationsAreApplied
    <2>3. d \in CallerRecords /\ SoundUnder(schemaSchema', d)
      <3>1. d \in CallerRecords
        BY <1>1 DEF CallerRecords
      <3>2. unapplied = {v} => schemaSchema'.recorded = Versions
        BY <1>1, <2>2
      <3>3. Versions \ (unapplied \ {v}) \subseteq schemaSchema'.recorded
        BY <1>1, <2>2
      <3>4. unapplied # {v} => unapplied \ {v} # {}
        BY <1>2
      <3> QED BY <1>1, <2>2, <3>1, <3>2, <3>3, <3>4 DEF SoundUnder
    <2>4. /\ schemaCallers' \in [Callers -> CallerRecords]
          /\ \A o \in Callers : SoundUnder(schemaSchema', schemaCallers'[o])
      <3>1. /\ schemaSchema.recorded \subseteq schemaSchema'.recorded
               /\ schemaSchema'.recorded \subseteq Versions
            /\ schemaSchema'.legacy = schemaSchema.legacy
        BY <2>2
      <3>2. schemaCallers' = [schemaCallers EXCEPT ![c] = d]
        BY <2>1
      <3> HIDE DEF d
      <3> QED BY <2>3, <3>1, <3>2, CallersStaySound
    <2> QED BY <1>1, <2>2, <2>4 DEF MigrationInv
  <1> QED BY <1>3, <1>4

(* The legacy tables are renamed together with all the migrations of the   *)
(* plan.                                                                   *)
LEMMA LegacyIsApplied ==
    ASSUME MigrationInv, NEW c \in Callers, Schema!ApplyLegacy(c)
    PROVE  MigrationInv'
  <1> DEFINE unapplied == schemaCallers[c].pending
             d == [schemaCallers[c] EXCEPT !.at = "ready"]
  <1>1. /\ unapplied \in SUBSET Versions /\ Versions \ unapplied \subseteq schemaSchema.recorded
        /\ schemaSchema.legacy # "none" /\ schemaEdited' = schemaEdited
        /\ schemaCallers[c] \in CallerRecords
    BY DEF MigrationInv, CallerRecords, SoundUnder, Schema!ApplyLegacy
  <1>2. CASE schemaSchema.legacy = "renamed" \/ unapplied \cap schemaSchema.recorded # {}
    BY <1>2, PlansAreSound DEF Schema!ApplyLegacy
  <1>3. CASE schemaSchema.legacy # "renamed" /\ unapplied \cap schemaSchema.recorded = {}
    <2>1. /\ schemaSchema' = [Schema!Applied(unapplied) EXCEPT !.legacy = "renamed"]
          /\ schemaRows' = Schema!Backfilled
          /\ schemaCallers' = [schemaCallers EXCEPT ![c] = d]
      BY <1>3 DEF Schema!ApplyLegacy, Schema!Go
    <2>2. /\ schemaSchema'.recorded = Versions
          /\ schemaSchema'.legacy = "renamed"
          /\ schemaSchema' \in [effects : [Versions -> {0, 1}], recorded : SUBSET Versions,
                          legacy : {"payload", "none", "renamed"}]
          /\ \A w \in Versions : schemaSchema'.effects[w] = (IF w \in schemaSchema'.recorded THEN 1 ELSE 0)
      <3> DEFINE s == Schema!Applied(unapplied)
      <3>1. /\ s \in [effects : [Versions -> {0, 1}], recorded : SUBSET Versions,
                      legacy : {"payload", "none", "renamed"}]
            /\ s.recorded = schemaSchema.recorded \cup unapplied
            /\ \A w \in Versions : s.effects[w] = (IF w \in s.recorded THEN 1 ELSE 0)
        BY <1>1, <1>3, MigrationsAreApplied
      <3>2. s.recorded = Versions
        BY <1>1, <3>1 DEF MigrationInv
      <3> HIDE DEF s
      <3>3. schemaSchema' = [s EXCEPT !.legacy = "renamed"]
        BY <2>1 DEF s
      <3> QED BY <3>1, <3>2, <3>3
    <2>3. d \in CallerRecords /\ d.at = "ready"
      BY <1>1 DEF CallerRecords
    <2>4. SoundUnder(schemaSchema', d)
      BY <2>2, <2>3 DEF SoundUnder
    <2>5. /\ schemaCallers' \in [Callers -> CallerRecords]
          /\ \A o \in Callers : SoundUnder(schemaSchema', schemaCallers'[o])
      <3>1. schemaSchema.recorded \subseteq schemaSchema'.recorded
            /\ schemaSchema'.recorded \subseteq Versions
        BY <2>2 DEF MigrationInv
      <3>2. schemaSchema'.legacy = "renamed"
        BY <2>2
      <3>3. schemaCallers' = [schemaCallers EXCEPT ![c] = d]
        BY <2>1
      <3> HIDE DEF d
      <3> QED BY <2>3, <2>4, <3>1, <3>2, <3>3, CallersStaySound
    <2>6. /\ schemaRows' \in [Payloads -> {"absent", "copied", "edited"}]
          /\ \A p \in Payloads : schemaRows'[p] # "absent"
             /\ (schemaRows[p] = "edited" => schemaRows'[p] = "edited")
      BY <2>1 DEF MigrationInv, Schema!Backfilled
    <2> QED BY <1>1, <2>2, <2>5, <2>6 DEF MigrationInv
  <1> QED BY <1>2, <1>3

(* The rows are filled from the renamed tables, or the application serves. *)
LEMMA ServiceIsSound ==
    ASSUME MigrationInv, NEW c \in Callers, Schema!Backfill(c) \/ Schema!Serve(c)
    PROVE  MigrationInv'
  <1>1. schemaCallers[c] \in CallerRecords /\ SoundUnder(schemaSchema, schemaCallers[c])
        /\ schemaSchema' = schemaSchema
    BY DEF MigrationInv, Schema!Backfill, Schema!Serve
  <1>2. CASE Schema!Backfill(c)
    <2> DEFINE d == [schemaCallers[c] EXCEPT !.at = "ready"]
    <2>1. schemaCallers' = [schemaCallers EXCEPT ![c] = d] /\ schemaCallers[c].at = "backfill"
          /\ schemaEdited' = schemaEdited
             /\ schemaRows' = (IF schemaSchema.legacy = "renamed" THEN Schema!Backfilled ELSE schemaRows)
      BY <1>2 DEF Schema!Backfill, Schema!Go
    <2>2. d \in CallerRecords /\ d.at = "ready"
      BY <1>1 DEF CallerRecords
    <2>3. SoundUnder(schemaSchema', d)
      BY <1>1, <2>1, <2>2 DEF SoundUnder
    <2>4. /\ schemaCallers' \in [Callers -> CallerRecords]
          /\ \A o \in Callers : SoundUnder(schemaSchema', schemaCallers'[o])
      BY <1>1, <2>1, <2>2, <2>3, CallersStaySound DEF MigrationInv
    <2>5. /\ schemaRows' \in [Payloads -> {"absent", "copied", "edited"}]
          /\ \A p \in Payloads : (schemaRows[p] = "edited" => schemaRows'[p] = "edited")
                                   /\ (schemaRows[p] # "absent" => schemaRows'[p] # "absent")
      BY <2>1 DEF MigrationInv, Schema!Backfilled
    <2> QED BY <1>1, <2>1, <2>4, <2>5 DEF MigrationInv
  <1>3. CASE Schema!Serve(c)
    <2>1. schemaCallers' = [schemaCallers EXCEPT ![c] = [at |-> "idle", pending |-> {}]]
      BY <1>3 DEF Schema!Serve, Schema!Nowhere
    <2>2. /\ schemaCallers' \in [Callers -> CallerRecords]
          /\ \A o \in Callers : SoundUnder(schemaSchema', schemaCallers'[o])
      BY <1>1, <2>1, Fallen, CallersStaySound DEF MigrationInv
    <2>3. /\ schemaRows' \in [Payloads -> {"absent", "copied", "edited"}]
          /\ \A p \in schemaEdited' : p \in Payloads /\ schemaRows'[p] = "edited"
          /\ \A p \in Payloads : schemaRows[p] # "absent" => schemaRows'[p] # "absent"
      BY <1>3 DEF Schema!Serve, MigrationInv
    <2> QED BY <1>1, <2>2, <2>3 DEF MigrationInv
  <1> QED BY <1>2, <1>3

(* Every step keeps the invariant.                                         *)
LEMMA MigrationSteps ==
    ASSUME MigrationInv, [Schema!Next]_Schema!vars
    PROVE  MigrationInv'
  <1>1. CASE UNCHANGED Schema!vars
    BY <1>1 DEF Schema!vars, MigrationInv, SoundUnder
  <1>2. ASSUME NEW c \in Callers,
               \/ Schema!LookForLegacy(c) \/ Schema!Plan(c) \/ Schema!Fault(c) \/ Schema!TryAgain(c)
        PROVE  MigrationInv'
    BY <1>2, PlansAreSound
       DEF Schema!LookForLegacy, Schema!Plan, Schema!Fault, Schema!TryAgain
  <1> QED BY <1>1, <1>2, NextIsApplied, LegacyIsApplied, ServiceIsSound DEF Schema!Next

(* The invariant implies what is promised.                                 *)
LEMMA MigrationInvSuffices == MigrationInv => Schema!MigrationsApplyOnce
  BY DEF MigrationInv, SoundUnder, Schema!MigrationsApplyOnce

-----------------------------------------------------------------------------
(* Backup, rotation and restore of the runtime's files.                    *)

States == Nat \cup {Absent}

(* copied holds the states the first paths had in h, each read no earlier  *)
(* than the one before it.                                                 *)
WereLive(h, copied, since, until) ==
    /\ since \in 1 .. Len(h) /\ until \in 1 .. Len(h)
    /\ \E moment \in [1 .. Len(copied) -> since .. until] :
          /\ \A p \in 1 .. Len(copied) : h[moment[p]][p] = copied[p]
          /\ \A p, q \in 1 .. Len(copied) : p < q => moment[p] <= moment[q]

ArchiveRecords ==
    [manifest : Seq(States), held : Nat, strict : BOOLEAN, since : Nat, until : Nat]

ArchiveIsSound(h, a) ==
    /\ Len(a.manifest) = NPaths
    /\ WereLive(h, a.manifest, a.since, a.until)
    /\ a.strict => \A p \in 1 .. NPaths : a.manifest[p] # Absent

BackupTypes ==
    /\ backupHistory \in Seq([1 .. NPaths -> States]) /\ Len(backupHistory) > 0
    /\ backupArchives \in Seq(ArchiveRecords)
    /\ backupCommand \in [at : {"idle", "copying", "writing", "extracted"}, strict : BOOLEAN,
                    copied : Seq(States), since : Nat, source : Seq(ArchiveRecords)]

BackupInv ==
    /\ BackupTypes
    /\ \A i \in 1 .. Len(backupArchives) : ArchiveIsSound(backupHistory, backupArchives[i])
    /\ backupCommand.at = "copying" =>
          /\ Len(backupCommand.copied) <= NPaths
          /\ WereLive(backupHistory, backupCommand.copied, backupCommand.since, Len(backupHistory))
    /\ backupCommand.at = "writing" => Len(backupArchives) > 0
    /\ backupCommand.at = "extracted" =>
          Len(backupCommand.source) = 1 /\ ArchiveIsSound(backupHistory, backupCommand.source[1])
    /\ backupTarget # <<>> =>
          \E a \in ArchiveRecords :
             /\ ArchiveIsSound(backupHistory, a) /\ backupTarget[1].archive = a
             /\ \A p \in 1 .. NPaths : backupTarget[1].payload[p] = a.manifest[p]

(* At the start there is one moment and no archive.                        *)
LEMMA BackupStarts ==
    ASSUME Backup!Init
    PROVE  BackupInv
  <1>1. PICK there \in SUBSET (1 .. NPaths) :
           backupHistory = <<[p \in 1 .. NPaths |-> IF p \in there THEN 0 ELSE Absent]>>
    BY DEF Backup!Init, Backup!Paths
  <1>2. backupHistory \in Seq([1 .. NPaths -> States]) /\ Len(backupHistory) = 1
    BY <1>1 DEF States
  <1>3. backupArchives = <<>> /\ backupCommand = Backup!Idle /\ backupTarget = <<>>
    BY DEF Backup!Init, Backup!NoTarget
  <1>4. BackupTypes
    BY <1>2, <1>3 DEF BackupTypes, Backup!Idle
  <1> QED BY <1>3, <1>4 DEF BackupInv, Backup!Idle

(* What was live stays so when the history goes on.                        *)
LEMMA StaysLive ==
    ASSUME NEW S, NEW h \in Seq(S), NEW x \in S, NEW copied, Len(copied) \in Nat, NEW since, NEW until,
           WereLive(h, copied, since, until)
    PROVE  WereLive(Append(h, x), copied, since, until)
  <1> DEFINE g == Append(h, x)
  <1>1. Len(g) = Len(h) + 1 /\ \A i \in 1 .. Len(h) : g[i] = h[i]
    OBVIOUS
  <1>2. PICK moment \in [1 .. Len(copied) -> since .. until] :
           /\ \A p \in 1 .. Len(copied) : h[moment[p]][p] = copied[p]
           /\ \A p, q \in 1 .. Len(copied) : p < q => moment[p] <= moment[q]
    BY DEF WereLive
  <1>3. since \in 1 .. Len(h) /\ until \in 1 .. Len(h)
    BY DEF WereLive
  <1> HIDE DEF g
  <1>4. ASSUME NEW p \in 1 .. Len(copied) PROVE g[moment[p]][p] = copied[p]
    <2>1. moment[p] \in 1 .. Len(h)
      BY <1>2, <1>3
    <2> QED BY <1>1, <1>2, <2>1
  <1>5. since \in 1 .. Len(g) /\ until \in 1 .. Len(g)
    BY <1>1, <1>3
  <1> QED BY <1>2, <1>4, <1>5 DEF WereLive, g

(* Before the first path is copied.                                        *)
LEMMA NothingWasLive ==
    ASSUME NEW h, Len(h) \in Nat \ {0}, NEW copied, Len(copied) = 0
    PROVE  WereLive(h, copied, Len(h), Len(h))
  <1> DEFINE none == [p \in 1 .. Len(copied) |-> Len(h)]
  <1>1. none \in [1 .. Len(copied) -> Len(h) .. Len(h)]
    OBVIOUS
  <1>2. 1 .. Len(copied) = {} /\ Len(h) \in 1 .. Len(h)
    OBVIOUS
  <1> HIDE DEF none
  <1> QED BY <1>1, <1>2 DEF WereLive

(* One more path is copied, now.                                           *)
LEMMA OneMoreIsLive ==
    ASSUME NEW S, NEW h \in Seq(S), Len(h) > 0, NEW copied \in Seq(States), NEW x \in States,
           NEW since, WereLive(h, copied, since, Len(h)), x = h[Len(h)][Len(copied) + 1]
    PROVE  WereLive(h, Append(copied, x), since, Len(h))
  <1> DEFINE n == Len(copied)
             more == Append(copied, x)
  <1>1. PICK moment \in [1 .. n -> since .. Len(h)] :
           /\ \A p \in 1 .. n : h[moment[p]][p] = copied[p]
           /\ \A p, q \in 1 .. n : p < q => moment[p] <= moment[q]
    BY DEF WereLive
  <1>2. since \in 1 .. Len(h) /\ Len(h) \in 1 .. Len(h)
    BY DEF WereLive
  <1> DEFINE longer == [p \in 1 .. n + 1 |-> IF p = n + 1 THEN Len(h) ELSE moment[p]]
  <1>3. Len(more) = n + 1 /\ more[n + 1] = x /\ \A p \in 1 .. n : more[p] = copied[p]
    OBVIOUS
  <1>4. n \in Nat
    OBVIOUS
  <1> HIDE DEF n, more
  <1>5. longer \in [1 .. n + 1 -> since .. Len(h)]
    BY <1>1, <1>2, <1>4
  <1>6. \A p \in 1 .. n + 1 : h[longer[p]][p] = more[p]
    BY <1>1, <1>3, <1>4 DEF n
  <1>7. \A p, q \in 1 .. n + 1 : p < q => longer[p] <= longer[q]
    BY <1>1, <1>2, <1>4
  <1> HIDE DEF longer
  <1>8. WereLive(h, more, since, Len(h))
    BY <1>2, <1>3, <1>5, <1>6, <1>7 DEF WereLive
  <1> QED BY <1>8 DEF more

(* Every step keeps the invariant of the backups.                          *)
LEMMA BackupsAreSound ==
    ASSUME BackupInv, [Backup!Next]_Backup!vars
    PROVE  BackupInv'
  <1>1. BackupTypes
    BY DEF BackupInv
  <1>2. CASE \E p \in Backup!Paths : Backup!Write(p)
    <2>1. PICK x \in [1 .. NPaths -> States] : backupHistory' = Append(backupHistory, x)
      <3>1. PICK p \in 1 .. NPaths, contents \in {Len(backupHistory), Absent} :
               backupHistory' = Append(backupHistory, [backupHistory[Len(backupHistory)] EXCEPT ![p] = contents])
        BY <1>2 DEF Backup!Paths, Backup!Write, Backup!Now, Backup!Live
      <3>2. backupHistory[Len(backupHistory)] \in [1 .. NPaths -> States] /\ contents \in States
        BY <1>1, <3>1 DEF BackupTypes, States
      <3> QED BY <3>1, <3>2
    <2>2. UNCHANGED <<backupArchives, backupCommand, backupTarget>>
      BY <1>2 DEF Backup!Write
    <2>3. BackupTypes'
      BY <1>1, <2>1, <2>2 DEF BackupTypes
    <2>4. ASSUME NEW a \in ArchiveRecords, ArchiveIsSound(backupHistory, a)
          PROVE  ArchiveIsSound(backupHistory', a)
      BY <1>1, <2>1, <2>4, StaysLive, BackupAssumption DEF BackupTypes, ArchiveIsSound
    <2>5. backupCommand.at = "copying" => WereLive(backupHistory', backupCommand.copied, backupCommand.since, Len(backupHistory'))
      <3> SUFFICES ASSUME backupCommand.at = "copying"
                   PROVE  WereLive(backupHistory', backupCommand.copied, backupCommand.since, Len(backupHistory'))
        OBVIOUS
      <3>1. WereLive(backupHistory', backupCommand.copied, backupCommand.since, Len(backupHistory))
        <4>1. WereLive(backupHistory, backupCommand.copied, backupCommand.since, Len(backupHistory))
          BY DEF BackupInv
        <4>2. Len(backupCommand.copied) \in Nat /\ backupHistory \in Seq([1 .. NPaths -> States])
          BY <1>1 DEF BackupTypes
        <4> QED BY <2>1, <4>1, <4>2, StaysLive
      <3>2. Len(backupHistory') = Len(backupHistory) + 1
        BY <1>1, <2>1 DEF BackupTypes
      <3>3. PICK moment \in [1 .. Len(backupCommand.copied) -> backupCommand.since .. Len(backupHistory)] :
               /\ \A p \in 1 .. Len(backupCommand.copied) : backupHistory'[moment[p]][p] = backupCommand.copied[p]
               /\ \A p, q \in 1 .. Len(backupCommand.copied) : p < q => moment[p] <= moment[q]
        BY <3>1 DEF WereLive
      <3>4. moment \in [1 .. Len(backupCommand.copied) -> backupCommand.since .. Len(backupHistory')]
        BY <1>1, <3>2, <3>3 DEF BackupTypes
      <3>5. backupCommand.since \in 1 .. Len(backupHistory')
            /\ Len(backupHistory') \in 1 .. Len(backupHistory')
        BY <1>1, <3>1, <3>2 DEF WereLive, BackupTypes
      <3> QED BY <3>3, <3>4, <3>5 DEF WereLive
    <2> QED BY <1>1, <2>2, <2>3, <2>4, <2>5 DEF BackupInv, BackupTypes
  <1>3. CASE Backup!StartBackup
    <2>1. PICK strict \in BOOLEAN :
             backupCommand' = [Backup!Idle EXCEPT !.at = "copying", !.strict = strict,
                                            !.since = Len(backupHistory)]
      BY <1>3 DEF Backup!StartBackup, Backup!Now
    <2>2. Len(backupHistory) \in Nat \ {0}
      BY <1>1 DEF BackupTypes
    <2>3. backupCommand' = [at |-> "copying", strict |-> strict, copied |-> <<>>,
                      since |-> Len(backupHistory), source |-> <<>>]
      BY <2>1 DEF Backup!Idle
    <2>4. WereLive(backupHistory, <<>>, Len(backupHistory), Len(backupHistory))
      <3>1. Len(<<>>) = 0
        OBVIOUS
      <3> QED BY <2>2, <3>1, NothingWasLive
    <2>5. UNCHANGED <<backupHistory, backupArchives, backupTarget>>
      BY <1>3 DEF Backup!StartBackup
    <2>6. BackupTypes'
      BY <1>1, <2>2, <2>3, <2>5 DEF BackupTypes
    <2> QED BY <2>3, <2>4, <2>5, <2>6, BackupAssumption DEF BackupInv
  <1>4. CASE Backup!CopySource
    <2> DEFINE x == backupHistory[Len(backupHistory)][Len(backupCommand.copied) + 1]
    <2>1. /\ backupCommand.at = "copying" /\ Len(backupCommand.copied) < NPaths
          /\ backupCommand' = [backupCommand EXCEPT !.copied = Append(@, x)]
          /\ UNCHANGED <<backupHistory, backupArchives, backupTarget>>
      BY <1>4 DEF Backup!CopySource, Backup!Live, Backup!Now
    <2>2. Len(backupCommand.copied) + 1 \in 1 .. NPaths
          /\ backupHistory[Len(backupHistory)] \in [1 .. NPaths -> States]
      BY <1>1, <2>1, BackupAssumption DEF BackupTypes
    <2>3. x \in States
      BY <2>2
    <2> HIDE DEF x
    <2>4. /\ backupCommand'.at = "copying"
             /\ backupCommand'.copied = Append(backupCommand.copied, x)
          /\ backupCommand'.since = backupCommand.since
      BY <1>1, <2>1 DEF BackupTypes
    <2>5. BackupTypes'
      <3>1. Append(backupCommand.copied, x) \in Seq(States)
        BY <1>1, <2>3 DEF BackupTypes
      <3> QED BY <1>1, <2>1, <3>1 DEF BackupTypes
    <2>6. WereLive(backupHistory, Append(backupCommand.copied, x), backupCommand.since, Len(backupHistory))
      BY <1>1, <2>1, <2>3, OneMoreIsLive DEF BackupInv, BackupTypes, x
    <2>7. Len(backupCommand'.copied) <= NPaths
      BY <1>1, <2>1, <2>3, <2>4, BackupAssumption DEF BackupTypes
    <2> QED BY <2>1, <2>4, <2>5, <2>6, <2>7 DEF BackupInv
  <1>5. ASSUME backupCommand' = Backup!Idle, UNCHANGED <<backupHistory, backupArchives, backupTarget>>
        PROVE  BackupInv'
    BY <1>1, <1>5 DEF BackupInv, BackupTypes, Backup!Idle
  <1>6. CASE Backup!OpenArchive
    <2> DEFINE a == [manifest |-> backupCommand.copied, held |-> 0, strict |-> backupCommand.strict,
                     since |-> backupCommand.since, until |-> Len(backupHistory)]
    <2>1. /\ backupCommand.at = "copying" /\ Len(backupCommand.copied) = NPaths
          /\ ~Backup!MissesRequired /\ backupCommand' = [backupCommand EXCEPT !.at = "writing"]
          /\ backupArchives' = Append(backupArchives, a)
             /\ UNCHANGED <<backupHistory, backupTarget>>
      BY <1>6 DEF Backup!OpenArchive, Backup!Archive, Backup!Now
    <2>2. a \in ArchiveRecords
      BY <1>1 DEF BackupTypes, ArchiveRecords
    <2>3. ArchiveIsSound(backupHistory, a)
      BY <1>1, <2>1 DEF BackupInv, BackupTypes, ArchiveIsSound, Backup!MissesRequired, Backup!Paths
    <2>4. BackupTypes' /\ backupCommand'.at = "writing"
      <3>1. backupArchives' \in Seq(ArchiveRecords)
        BY <1>1, <2>1, <2>2 DEF BackupTypes
      <3> QED BY <1>1, <2>1, <3>1 DEF BackupTypes
    <2> HIDE DEF a
    <2>5. ASSUME NEW i \in 1 .. Len(backupArchives') PROVE ArchiveIsSound(backupHistory, backupArchives'[i])
      BY <1>1, <2>1, <2>2, <2>3 DEF BackupInv, BackupTypes
    <2>6. Len(backupArchives') > 0
      BY <1>1, <2>1, <2>2 DEF BackupTypes
    <2> QED BY <2>1, <2>4, <2>5, <2>6 DEF BackupInv
  <1>7. CASE Backup!AddPayload
    <2>1. PICK held : backupArchives' = [backupArchives EXCEPT ![Len(backupArchives)].held = held]
                      /\ held = backupArchives[Len(backupArchives)].held + 1
      BY <1>7 DEF Backup!AddPayload
    <2>2. backupCommand' \in {Backup!Idle, backupCommand}
          /\ UNCHANGED <<backupHistory, backupTarget>> /\ backupCommand.at = "writing"
      BY <1>7 DEF Backup!AddPayload
    <2>3. Len(backupArchives) \in 1 .. Len(backupArchives)
          /\ backupArchives[Len(backupArchives)] \in ArchiveRecords
      BY <1>1, <2>2 DEF BackupInv, BackupTypes
    <2> DEFINE n == Len(backupArchives)
               a == [backupArchives[n] EXCEPT !.held = held]
    <2>7. backupArchives' = [backupArchives EXCEPT ![n] = a]
      BY <2>1
    <2>8. /\ a \in ArchiveRecords
          /\ a.manifest = backupArchives[n].manifest /\ a.since = backupArchives[n].since
          /\ a.until = backupArchives[n].until /\ a.strict = backupArchives[n].strict
      <3>1. backupArchives[n] \in ArchiveRecords
        BY <2>3
      <3>2. held \in Nat
        BY <2>1, <3>1 DEF ArchiveRecords
      <3> QED BY <3>1, <3>2 DEF ArchiveRecords
    <2> HIDE DEF a
    <2>4. Len(backupArchives') = Len(backupArchives) /\ backupArchives' \in Seq(ArchiveRecords)
      BY <1>1, <2>3, <2>7, <2>8, ExceptSeq DEF BackupTypes
    <2>5. ASSUME NEW i \in 1 .. Len(backupArchives)
          PROVE  ArchiveIsSound(backupHistory, backupArchives'[i])
      <3>1. backupArchives[i] \in ArchiveRecords
        BY <1>1 DEF BackupTypes
      <3>2. /\ backupArchives'[i].manifest = backupArchives[i].manifest
               /\ backupArchives'[i].since = backupArchives[i].since
            /\ backupArchives'[i].until = backupArchives[i].until
               /\ backupArchives'[i].strict = backupArchives[i].strict
        BY <1>1, <2>3, <2>7, <2>8, ExceptSeq DEF BackupTypes
      <3> QED BY <3>2 DEF BackupInv, ArchiveIsSound
    <2>6. BackupTypes' /\ backupCommand'.at \in {"idle", "writing"}
      <3>1. Backup!Idle \in [at : {"idle", "copying", "writing", "extracted"}, strict : BOOLEAN,
                             copied : Seq(States), since : Nat, source : Seq(ArchiveRecords)]
            /\ Backup!Idle.at = "idle"
        BY DEF Backup!Idle
      <3> QED BY <1>1, <2>2, <2>4, <3>1 DEF BackupTypes
    <2> QED BY <2>2, <2>3, <2>4, <2>5, <2>6 DEF BackupInv
  <1>8. CASE Backup!StartRestore
    <2>1. PICK i \in 1 .. Len(backupArchives) :
             backupCommand' = [Backup!Idle EXCEPT !.at = "extracted", !.source = <<backupArchives[i]>>]
      <3>1. DOMAIN backupArchives = 1 .. Len(backupArchives)
        BY <1>1, LenProperties DEF BackupTypes
      <3> QED BY <1>8, <3>1 DEF Backup!StartRestore
    <2>2. backupCommand' = [at |-> "extracted", strict |-> FALSE, copied |-> <<>>, since |-> 1,
                      source |-> <<backupArchives[i]>>]
      BY <2>1 DEF Backup!Idle
    <2>3. backupArchives[i] \in ArchiveRecords /\ ArchiveIsSound(backupHistory, backupArchives[i])
      BY <1>1 DEF BackupInv, BackupTypes
    <2>4. UNCHANGED <<backupHistory, backupArchives, backupTarget>>
      BY <1>8 DEF Backup!StartRestore
    <2>5. BackupTypes'
      BY <1>1, <2>2, <2>3, <2>4 DEF BackupTypes
    <2> QED BY <2>2, <2>3, <2>4, <2>5 DEF BackupInv
  <1>9. CASE Backup!Restore
    <2> DEFINE a == backupCommand.source[1]
    <2>1. /\ backupCommand.at = "extracted" /\ Backup!Verified(a)
          /\ backupTarget' = <<[payload |-> [p \in Backup!Paths |-> IF p <= a.held THEN a.manifest[p] ELSE Absent],
                          archive |-> a]>>
          /\ backupCommand' = Backup!Idle /\ UNCHANGED <<backupHistory, backupArchives>>
      BY <1>9 DEF Backup!Restore
    <2>2. a \in ArchiveRecords /\ ArchiveIsSound(backupHistory, a)
      BY <1>1, <2>1 DEF BackupInv, BackupTypes
    <2>3. backupTarget'[1].archive = a
          /\ \A p \in 1 .. NPaths : backupTarget'[1].payload[p] = a.manifest[p]
      BY <2>1 DEF Backup!Verified, Backup!Paths
    <2>4. BackupTypes' /\ backupCommand'.at = "idle"
      BY <1>1, <2>1 DEF BackupTypes, Backup!Idle
    <2> HIDE DEF a
    <2> QED BY <2>1, <2>2, <2>3, <2>4 DEF BackupInv
  <1>10. CASE Backup!Prune
    <2>1. PICK n \in 1 .. Len(backupArchives) - 1 : backupArchives' = SubSeq(backupArchives, n + 1, Len(backupArchives))
      BY <1>10 DEF Backup!Prune
    <2>2. UNCHANGED <<backupHistory, backupCommand, backupTarget>> /\ backupCommand.at = "idle"
      BY <1>10 DEF Backup!Prune
    <2>3. \A i \in n + 1 .. Len(backupArchives) : backupArchives[i] \in ArchiveRecords
      BY <1>1 DEF BackupTypes
    <2>4. Len(backupArchives) \in Nat
      BY <1>1 DEF BackupTypes
    <2>5. /\ backupArchives' \in Seq(ArchiveRecords)
             /\ Len(backupArchives') = Len(backupArchives) - n
          /\ \A i \in 1 .. Len(backupArchives) - n : backupArchives'[i] = backupArchives[n + i]
      BY <2>1, <2>3, <2>4, SubSeqProperties
    <2>6. BackupTypes'
      BY <1>1, <2>2, <2>5 DEF BackupTypes
    <2>7. \A i \in 1 .. Len(backupArchives') : ArchiveIsSound(backupHistory, backupArchives'[i])
      BY <2>4, <2>5 DEF BackupInv
    <2> QED BY <2>2, <2>6, <2>7 DEF BackupInv
  <1>11. CASE UNCHANGED Backup!vars
    BY <1>1, <1>11 DEF BackupInv, BackupTypes, Backup!vars
  <1> QED BY <1>2, <1>3, <1>4, <1>5, <1>6, <1>7, <1>8, <1>9, <1>10, <1>11
          DEF Backup!Next, Backup!RefuseBackup, Backup!RefuseArchive, Backup!Stop

(* The invariant implies what is promised.                                 *)
LEMMA BackupInvSuffices == BackupInv => Backup!RestoredStateWasLive
  <1> SUFFICES ASSUME BackupInv, backupTarget # <<>>
               PROVE  LET archive == backupTarget[1].archive
                          payload == backupTarget[1].payload
                          times == archive.since .. archive.until
                      IN  /\ \E moment \in [1 .. NPaths -> times] :
                                /\ \A p \in 1 .. NPaths : backupHistory[moment[p]][p] = payload[p]
                                /\ \A p, q \in 1 .. NPaths : p < q => moment[p] <= moment[q]
                          /\ archive.strict => \A p \in 1 .. NPaths : payload[p] # Absent
    BY DEF Backup!RestoredStateWasLive, Backup!NoTarget, Backup!Paths
  <1>1. PICK a \in ArchiveRecords :
           /\ ArchiveIsSound(backupHistory, a) /\ backupTarget[1].archive = a
           /\ \A p \in 1 .. NPaths : backupTarget[1].payload[p] = a.manifest[p]
    BY DEF BackupInv
  <1>2. PICK moment \in [1 .. NPaths -> a.since .. a.until] :
           /\ \A p \in 1 .. NPaths : backupHistory[moment[p]][p] = a.manifest[p]
           /\ \A p, q \in 1 .. NPaths : p < q => moment[p] <= moment[q]
    BY <1>1 DEF ArchiveIsSound, WereLive
  <1>3. a.strict => \A p \in 1 .. NPaths : a.manifest[p] # Absent
    BY <1>1 DEF ArchiveIsSound
  <1>4. \A p \in 1 .. NPaths : backupHistory[moment[p]][p] = backupTarget[1].payload[p]
    BY <1>1, <1>2
  <1>5. backupTarget[1].archive.strict => \A p \in 1 .. NPaths : backupTarget[1].payload[p] # Absent
    BY <1>1, <1>3
  <1>6. moment \in [1 .. NPaths -> backupTarget[1].archive.since .. backupTarget[1].archive.until]
    BY <1>1, <1>2
  <1> QED BY <1>2, <1>4, <1>5, <1>6

-----------------------------------------------------------------------------
(* One import job of a course's source file.                               *)

(* No artifact is not the content of a file.                               *)
(* What is in front of the stage a runner is in was left by this runner:   *)
(* its output is what inspect saw, or what extract read, and is not read   *)
(* again after that.                                                       *)
Left(stage, text) ==
    /\ \A s \in 1 .. stage - 1 : importJob.stages[s] = "completed" /\ importArtifact[s] \in Contents
    /\ stage > Import!Inspect => importArtifact[Import!Inspect] = importJob.hash
       /\ text \in Contents
    /\ stage > Import!Extract => importArtifact[Import!Extract] = text
    /\ stage > Import!Chunk => importArtifact[Import!Chunk] = text

RunnerIsSound(me) ==
    /\ me.at \notin {"idle", "finish"} => me.stage \in Import!Stages /\ Left(me.stage, me.output)
    /\ me.at \notin {"idle", "finish", "mark"} =>
          importJob.status = "processing" /\ importJob.current = me.stage
    /\ me.at = "mark" => importJob.status = "processing"
    /\ me.at \in {"write", "complete"} =>
          /\ me.output \in Contents
          /\ me.stage = Import!Inspect => me.output = importJob.hash
          /\ me.stage = Import!IndexReady => me.output \notin Empty
    /\ me.at = "complete" => importArtifact[me.stage] = me.output
    /\ me.at = "finish" =>
          /\ importJob.status = "processing" /\ me.stage = 5 /\ Left(5, me.output)
          /\ importArtifact[Import!IndexReady] = me.output /\ me.output \notin Empty

JobRecords ==
    [status : {"queued", "processing", "failed", "index_ready"}, hash : Contents,
     current : Import!Stages \cup {None},
     stages : [Import!Stages -> {"pending", "running", "completed", "failed"}]]

RunnerRecords ==
    [at : {"idle", "mark", "handle", "write", "complete", "fail", "finish"},
     stage : 1 .. 5, output : Contents \cup {None}]

ImportTypes ==
    /\ importSource \in Contents
    /\ importJob \in JobRecords
    /\ importArtifact \in [Import!Stages -> Contents \cup {None}]
    /\ importRunner \in RunnerRecords

ImportInv ==
    /\ ImportTypes
    /\ RunnerIsSound(importRunner)
    /\ Import!ImportIsWhole
    /\ importRunner.at # "idle" => importJob.status = "processing"

(* At the start no job has run.                                            *)
LEMMA ImportStarts == Import!Init => ImportInv
  BY ImportAssumption DEF JobRecords, RunnerRecords, Import!Init, ImportInv, ImportTypes,
           RunnerIsSound,
         Import!ImportIsWhole, Import!Nobody, Import!Stages, Import!Inspect

JobFields == {"status", "hash", "current", "stages"}

(* The three ways a runner saves that a stage has changed.                 *)
LEMMA SavedJobs ==
    ASSUME NEW j \in JobRecords, NEW s \in Import!Stages,
           NEW t \in {"pending", "running", "completed", "failed"}
    PROVE  LET stages == [j.stages EXCEPT ![s] = t]
               a == [j EXCEPT !.stages[s] = t, !.current = s]
               b == [j EXCEPT !.stages[s] = t]
               c == [j EXCEPT !.stages[s] = t, !.status = "failed"]
           IN  /\ a \in JobRecords /\ b \in JobRecords /\ c \in JobRecords
               /\ a.status = j.status /\ a.hash = j.hash /\ a.current = s /\ a.stages = stages
               /\ b.status = j.status /\ b.hash = j.hash /\ b.current = j.current
                  /\ b.stages = stages
               /\ c.status = "failed" /\ c.hash = j.hash /\ c.current = j.current
                  /\ c.stages = stages
  <1> DEFINE stages == [j.stages EXCEPT ![s] = t]
             a == [j EXCEPT !.stages[s] = t, !.current = s]
             b == [j EXCEPT !.stages[s] = t]
             c == [j EXCEPT !.stages[s] = t, !.status = "failed"]
  <1>1. /\ a.status = j.status /\ a.hash = j.hash /\ a.current = s /\ a.stages = stages
        /\ b.status = j.status /\ b.hash = j.hash /\ b.current = j.current /\ b.stages = stages
        /\ c.status = "failed" /\ c.hash = j.hash /\ c.current = j.current /\ c.stages = stages
    BY DEF JobRecords
  <1>2. /\ a = [f \in JobFields |-> a[f]]
        /\ b = [f \in JobFields |-> b[f]]
        /\ c = [f \in JobFields |-> c[f]]
    BY DEF JobRecords, JobFields
  <1>3. stages \in [Import!Stages -> {"pending", "running", "completed", "failed"}]
    BY DEF JobRecords
  <1>4. /\ j.status \in {"queued", "processing", "failed", "index_ready"}
        /\ j.hash \in Contents /\ j.current \in Import!Stages \cup {None}
    BY DEF JobRecords
  <1> HIDE DEF a, b, c, stages
  <1>5. a \in JobRecords
    BY <1>1, <1>2, <1>3, <1>4 DEF JobFields, JobRecords
  <1>6. b \in JobRecords
    BY <1>1, <1>2, <1>3, <1>4 DEF JobFields, JobRecords
  <1>7. c \in JobRecords
    BY <1>1, <1>2, <1>3, <1>4 DEF JobFields, JobRecords
  <1> QED BY <1>1, <1>5, <1>6, <1>7 DEF a, b, c, stages

(* Every step keeps the types.                                             *)
LEMMA ImportIsTyped ==
    ASSUME ImportInv, [Import!Next]_Import!vars
    PROVE  ImportTypes'
  <1> USE DEF ImportTypes, Import!Save
  <1>1. ImportTypes
    BY DEF ImportInv
  <1>2. importRunner.at \notin {"idle", "finish"} => importRunner.stage \in Import!Stages
    BY DEF ImportInv, RunnerIsSound
  <1>3. CASE Import!Begin
    BY <1>1, <1>3 DEF Import!Begin, JobRecords, RunnerRecords, Import!Nobody, Import!Stages,
             Import!Inspect
  <1>4. CASE Import!MarkRunning
    <2>1. importJob' \in JobRecords
      BY <1>1, <1>2, <1>4, SavedJobs DEF Import!MarkRunning
    <2>2. importRunner' \in RunnerRecords
      BY <1>1, <1>4 DEF Import!MarkRunning, RunnerRecords
    <2> QED BY <1>1, <1>4, <2>1, <2>2 DEF Import!MarkRunning
  <1>5. CASE Import!Handle
    <2>1. importRunner' \in RunnerRecords
      BY <1>1, <1>5 DEF Import!Handle, RunnerRecords
    <2> QED BY <1>1, <1>5, <2>1 DEF Import!Handle
  <1>6. CASE Import!WriteArtifact
    <2>1. importRunner' \in RunnerRecords /\ importRunner.output \in Contents \cup {None}
      BY <1>1, <1>6 DEF Import!WriteArtifact, RunnerRecords
    <2> QED BY <1>1, <1>6, <2>1 DEF Import!WriteArtifact
  <1>7. CASE Import!Complete
    <2>1. importJob' \in JobRecords
      BY <1>1, <1>2, <1>7, SavedJobs DEF Import!Complete
    <2>2. importRunner.stage + 1 \in 1 .. 5
      BY <1>1, <1>2, <1>7 DEF Import!Complete, Import!Stages
    <2>3. \E at \in {"finish", "mark"} :
             importRunner' = [importRunner EXCEPT !.stage = importRunner.stage + 1, !.at = at]
      BY <1>7 DEF Import!Complete
    <2>4. importRunner' \in RunnerRecords
      BY <1>1, <2>2, <2>3 DEF RunnerRecords
    <2> QED BY <1>1, <1>7, <2>1, <2>4 DEF Import!Complete
  <1>8. CASE Import!Fail
    <2>1. importJob' \in JobRecords
      BY <1>1, <1>2, <1>8, SavedJobs DEF Import!Fail
    <2>2. importRunner' \in RunnerRecords
      BY <1>8 DEF Import!Fail, RunnerRecords, Import!Nobody, Import!Inspect
    <2> QED BY <1>1, <1>8, <2>1, <2>2 DEF Import!Fail
  <1>9. CASE Import!Finish
    <2>1. importJob' \in JobRecords
      <3>1. importJob' = [f \in JobFields |-> importJob'[f]]
        BY <1>1, <1>9 DEF Import!Finish, JobRecords, JobFields
      <3>2. /\ importJob'.status = "index_ready" /\ importJob'.current = Import!IndexReady
            /\ importJob'.hash = importJob.hash /\ importJob'.stages = importJob.stages
        BY <1>1, <1>9 DEF Import!Finish, JobRecords
      <3>3. Import!IndexReady \in Import!Stages
        BY DEF Import!IndexReady, Import!Stages
      <3> QED BY <1>1, <3>1, <3>2, <3>3 DEF JobRecords, JobFields
    <2>2. importRunner' \in RunnerRecords
      BY <1>9 DEF Import!Finish, RunnerRecords, Import!Nobody, Import!Inspect
    <2> QED BY <1>1, <1>9, <2>1, <2>2 DEF Import!Finish
  <1>10. CASE Import!Stop
    <2>1. importRunner' \in RunnerRecords
      BY <1>10 DEF Import!Stop, RunnerRecords, Import!Nobody, Import!Inspect
    <2> QED BY <1>1, <1>10, <2>1 DEF Import!Stop
  <1>11. CASE Import!Edit
    BY <1>1, <1>11 DEF Import!Edit
  <1>12. CASE UNCHANGED Import!vars
    BY <1>1, <1>12 DEF Import!vars
  <1> QED BY <1>3, <1>4, <1>5, <1>6, <1>7, <1>8, <1>9, <1>10, <1>11, <1>12 DEF Import!Next

(* Every step keeps the invariant of the import.                           *)
LEMMA ImportSteps ==
    ASSUME ImportInv, [Import!Next]_Import!vars
    PROVE  ImportInv'
  <1> USE ImportAssumption DEF ImportTypes, JobRecords, RunnerRecords, Import!Nobody, Import!Stages,
           Import!Inspect, Import!Extract,
          Import!Chunk, Import!IndexReady, Import!Save
  <1>1. ImportTypes /\ RunnerIsSound(importRunner) /\ Import!ImportIsWhole
        /\ (importRunner.at # "idle" => importJob.status = "processing")
    BY DEF ImportInv
  <1>2. ASSUME Import!Begin
        PROVE  RunnerIsSound(importRunner)' /\ Import!ImportIsWhole'
               /\ (importRunner'.at # "idle" => importJob'.status = "processing")
    <2>1. RunnerIsSound(importRunner)'
      BY <1>1, <1>2, SMTT(30) DEF Import!Begin, RunnerIsSound, Left
    <2>2. Import!ImportIsWhole'
      BY <1>1, <1>2, SMTT(30) DEF Import!Begin, RunnerIsSound, Left, Import!ImportIsWhole
    <2>3. importRunner'.at # "idle" => importJob'.status = "processing"
      BY <1>1, <1>2 DEF Import!Begin, RunnerIsSound
    <2> QED BY <2>1, <2>2, <2>3
  <1>3. ASSUME Import!MarkRunning
        PROVE  RunnerIsSound(importRunner)' /\ Import!ImportIsWhole'
               /\ (importRunner'.at # "idle" => importJob'.status = "processing")
    <2>1. RunnerIsSound(importRunner)'
      BY <1>1, <1>3, SMTT(30) DEF Import!MarkRunning, RunnerIsSound, Left
    <2>2. Import!ImportIsWhole'
      BY <1>1, <1>3, SMTT(30) DEF Import!MarkRunning, RunnerIsSound, Left, Import!ImportIsWhole
    <2>3. importRunner'.at # "idle" => importJob'.status = "processing"
      BY <1>1, <1>3 DEF Import!MarkRunning, RunnerIsSound
    <2> QED BY <2>1, <2>2, <2>3
  <1>4. ASSUME Import!Handle
        PROVE  RunnerIsSound(importRunner)' /\ Import!ImportIsWhole'
               /\ (importRunner'.at # "idle" => importJob'.status = "processing")
    <2>1. RunnerIsSound(importRunner)'
      <3>1. CASE Import!Succeeds
        <4>1. /\ importRunner'.at = "write" /\ importRunner'.stage = importRunner.stage
              /\ importRunner'.output = IF importRunner.stage \in {1, 2} THEN importSource ELSE importRunner.output
          BY <1>1, <1>4, <3>1 DEF Import!Handle
        <4>2. /\ importRunner.at = "handle" /\ UNCHANGED <<importSource, importJob, importArtifact>>
              /\ importRunner.stage \in 1 .. 4 /\ Left(importRunner.stage, importRunner.output)
              /\ importJob.status = "processing" /\ importJob.current = importRunner.stage
          BY <1>1, <1>4 DEF Import!Handle, RunnerIsSound
        <4>3. importRunner.stage > 1 => importRunner.output \in Contents
          BY <4>2 DEF Left
        <4>4. /\ importRunner'.output \in Contents
              /\ importRunner.stage = 1 => importRunner'.output = importJob.hash
              /\ importRunner.stage = 4 => importRunner'.output \notin Empty
              /\ importRunner.stage > 2 => importRunner'.output = importRunner.output
          <5>1. CASE importRunner.stage = 1
            BY <1>1, <3>1, <4>1, <5>1 DEF Import!Succeeds
          <5>2. CASE importRunner.stage = 2
            BY <1>1, <4>1, <5>2
          <5>3. CASE importRunner.stage = 3
            BY <4>1, <4>3, <5>3
          <5>4. CASE importRunner.stage = 4
            BY <3>1, <4>1, <4>3, <5>4 DEF Import!Succeeds
          <5> QED BY <4>2, <5>1, <5>2, <5>3, <5>4
        <4>5. Left(importRunner.stage, importRunner.output)'
              /\ importRunner'.stage = importRunner.stage
          BY <4>1, <4>2, <4>4 DEF Left
        <4> QED BY <4>1, <4>2, <4>4, <4>5 DEF RunnerIsSound
      <3>2. CASE ~Import!Succeeds
        <4>1. /\ importRunner'.at = "fail" /\ importRunner'.stage = importRunner.stage
              /\ importRunner'.output = importRunner.output
          BY <1>1, <1>4, <3>2 DEF Import!Handle
        <4> QED BY <1>1, <1>4, <4>1 DEF Import!Handle, RunnerIsSound, Left
      <3> QED BY <3>1, <3>2
    <2>2. Import!ImportIsWhole'
      BY <1>1, <1>4, SMTT(30) DEF Import!Handle, RunnerIsSound, Left, Import!ImportIsWhole
    <2>3. importRunner'.at # "idle" => importJob'.status = "processing"
      BY <1>1, <1>4 DEF Import!Handle, RunnerIsSound
    <2> QED BY <2>1, <2>2, <2>3
  <1>5. ASSUME Import!WriteArtifact
        PROVE  RunnerIsSound(importRunner)' /\ Import!ImportIsWhole'
               /\ (importRunner'.at # "idle" => importJob'.status = "processing")
    <2>1. RunnerIsSound(importRunner)'
      BY <1>1, <1>5, SMTT(30) DEF Import!WriteArtifact, RunnerIsSound, Left
    <2>2. Import!ImportIsWhole'
      BY <1>1, <1>5, SMTT(30) DEF Import!WriteArtifact, RunnerIsSound, Left, Import!ImportIsWhole
    <2>3. importRunner'.at # "idle" => importJob'.status = "processing"
      BY <1>1, <1>5 DEF Import!WriteArtifact, RunnerIsSound
    <2> QED BY <2>1, <2>2, <2>3
  <1>6. ASSUME Import!Complete
        PROVE  RunnerIsSound(importRunner)' /\ Import!ImportIsWhole'
               /\ (importRunner'.at # "idle" => importJob'.status = "processing")
    <2>1. RunnerIsSound(importRunner)'
      BY <1>1, <1>6, SMTT(30) DEF Import!Complete, RunnerIsSound, Left
    <2>2. Import!ImportIsWhole'
      BY <1>1, <1>6, SMTT(30) DEF Import!Complete, RunnerIsSound, Left, Import!ImportIsWhole
    <2>3. importRunner'.at # "idle" => importJob'.status = "processing"
      BY <1>1, <1>6 DEF Import!Complete, RunnerIsSound
    <2> QED BY <2>1, <2>2, <2>3
  <1>7. ASSUME Import!Fail
        PROVE  RunnerIsSound(importRunner)' /\ Import!ImportIsWhole'
               /\ (importRunner'.at # "idle" => importJob'.status = "processing")
    <2>1. RunnerIsSound(importRunner)'
      BY <1>1, <1>7, SMTT(30) DEF Import!Fail, RunnerIsSound, Left
    <2>2. Import!ImportIsWhole'
      BY <1>1, <1>7, SMTT(30) DEF Import!Fail, RunnerIsSound, Left, Import!ImportIsWhole
    <2>3. importRunner'.at # "idle" => importJob'.status = "processing"
      BY <1>1, <1>7 DEF Import!Fail, RunnerIsSound
    <2> QED BY <2>1, <2>2, <2>3
  <1>8. ASSUME Import!Finish
        PROVE  RunnerIsSound(importRunner)' /\ Import!ImportIsWhole'
               /\ (importRunner'.at # "idle" => importJob'.status = "processing")
    <2>1. RunnerIsSound(importRunner)'
      BY <1>1, <1>8, SMTT(30) DEF Import!Finish, RunnerIsSound, Left
    <2>2. Import!ImportIsWhole'
      BY <1>1, <1>8, SMTT(30) DEF Import!Finish, RunnerIsSound, Left, Import!ImportIsWhole
    <2>3. importRunner'.at # "idle" => importJob'.status = "processing"
      BY <1>1, <1>8 DEF Import!Finish, RunnerIsSound
    <2> QED BY <2>1, <2>2, <2>3
  <1>9. ASSUME Import!Stop
        PROVE  RunnerIsSound(importRunner)' /\ Import!ImportIsWhole'
               /\ (importRunner'.at # "idle" => importJob'.status = "processing")
    <2>1. RunnerIsSound(importRunner)'
      BY <1>1, <1>9, SMTT(30) DEF Import!Stop, RunnerIsSound, Left
    <2>2. Import!ImportIsWhole'
      BY <1>1, <1>9, SMTT(30) DEF Import!Stop, RunnerIsSound, Left, Import!ImportIsWhole
    <2>3. importRunner'.at # "idle" => importJob'.status = "processing"
      BY <1>1, <1>9 DEF Import!Stop, RunnerIsSound
    <2> QED BY <2>1, <2>2, <2>3
  <1>10. ASSUME Import!Edit
        PROVE  RunnerIsSound(importRunner)' /\ Import!ImportIsWhole'
               /\ (importRunner'.at # "idle" => importJob'.status = "processing")
    <2>1. RunnerIsSound(importRunner)'
      BY <1>1, <1>10, SMTT(30) DEF Import!Edit, RunnerIsSound, Left
    <2>2. Import!ImportIsWhole'
      BY <1>1, <1>10, SMTT(30) DEF Import!Edit, RunnerIsSound, Left, Import!ImportIsWhole
    <2>3. importRunner'.at # "idle" => importJob'.status = "processing"
      BY <1>1, <1>10 DEF Import!Edit, RunnerIsSound
    <2> QED BY <2>1, <2>2, <2>3
  <1>11. CASE UNCHANGED Import!vars
    BY <1>1, <1>11 DEF Import!vars, ImportInv, RunnerIsSound, Left, Import!ImportIsWhole
  <1> QED BY ImportIsTyped, <1>2, <1>3, <1>4, <1>5, <1>6, <1>7, <1>8, <1>9, <1>10, <1>11
           DEF Import!Next, ImportInv

(* The invariant implies what is promised.                                 *)
LEMMA ImportInvSuffices == ImportInv => Import!ImportIsWhole
  BY DEF ImportInv

-----------------------------------------------------------------------------
(* A course's index on its way to students.                                *)

ParsedChunks == UNION Parses

BuilderRecords ==
    [at : {"idle", "ingest", "count", "readback", "bundle", "halfBundle", "manifest",
           "halfManifest"},
     parse : Parses \cup {{}}, known : SUBSET ParsedChunks, left : SUBSET ParsedChunks, added : Nat,
     failed : BOOLEAN, count : Nat]

PromoterRecords ==
    [at : {"idle", "bundle", "rows", "rename"}, revision : Parses \cup {{}},
     bundle : Parses \cup {{}}]

(* The rows only grow, and a builder goes on to the bundle and the manifest *)
(* only if all chunks of its parse are among them.                          *)
BuilderIsSound(me, rows) ==
    /\ me.known \subseteq rows
    /\ me.at = "ingest" /\ ~me.failed => me.parse \ me.left \subseteq me.known
    /\ me.at \in {"count", "readback"} /\ ~me.failed => me.parse \subseteq rows
    /\ me.at \in {"bundle", "halfBundle", "manifest", "halfManifest"} =>
          me.parse \in Parses /\ me.parse \subseteq rows
    /\ me.at # "idle" => me.parse \in Parses

(* A bundle as large as the revision is the revision, if both are in rows  *)
(* that are no more than the bundle.                                       *)
PromoterIsSound(me, rows) ==
    /\ me.at # "idle" => me.revision \in Parses /\ me.revision \subseteq rows
    /\ me.at = "rows" => /\ me.bundle \in Parses
                         /\ Cardinality(me.bundle) = Cardinality(me.revision)
    /\ me.at = "rename" => me.bundle = me.revision

FileIsSound(file, rows) ==
    file \in {None, Torn} \/ (file \in Parses /\ file \subseteq rows)

ReleaseInv ==
    /\ releaseCandidate = [rows |-> releaseCandidate.rows, hashes |-> releaseCandidate.hashes,
                    bundle |-> releaseCandidate.bundle, manifest |-> releaseCandidate.manifest]
    /\ releaseCandidate.rows \subseteq ParsedChunks /\ IsFiniteSet(releaseCandidate.rows)
    /\ releaseCandidate.hashes \subseteq releaseCandidate.rows
    /\ FileIsSound(releaseCandidate.bundle, releaseCandidate.rows)
       /\ FileIsSound(releaseCandidate.manifest, releaseCandidate.rows)
    /\ releaseBuilder \in [Builders -> BuilderRecords]
    /\ releasePromoter \in [Publishers -> PromoterRecords]
    /\ \A b \in Builders : BuilderIsSound(releaseBuilder[b], releaseCandidate.rows)
    /\ \A p \in Publishers : PromoterIsSound(releasePromoter[p], releaseCandidate.rows)
    /\ releaseOutput = None \/ releaseOutput.rows = releaseOutput.revision

(* The count of a set is the library's.                                    *)
LEMMA ReleaseCounts == ASSUME NEW S PROVE Release!Cardinality(S) = Cardinality(S)
  BY DEF Release!Cardinality, Cardinality

(* At the start the candidate is empty.                                    *)
LEMMA ReleaseStarts == Release!Init => ReleaseInv
  BY FS_EmptySet DEF Release!Init, ReleaseInv, FileIsSound, BuilderRecords, PromoterRecords,
           BuilderIsSound,
         PromoterIsSound, Release!Resting, Release!Away

(* A builder's step that leaves the candidate's files alone but for more   *)
(* rows, and hashes of rows.                                               *)
LEMMA BuilderMoves ==
    ASSUME ReleaseInv, NEW b \in Builders, NEW me \in BuilderRecords, Release!Build(b, me),
           NEW rows, NEW hashes, NEW bundle, NEW manifest,
           releaseCandidate' = [rows |-> rows, hashes |-> hashes, bundle |-> bundle, manifest |-> manifest],
           releaseCandidate.rows \subseteq rows, rows \subseteq ParsedChunks, IsFiniteSet(rows), hashes \subseteq rows,
           FileIsSound(bundle, rows), FileIsSound(manifest, rows),
           BuilderIsSound(me, rows), UNCHANGED <<releaseOutput, releasePromoter>>
    PROVE  ReleaseInv'
  <1>1. releaseBuilder' \in [Builders -> BuilderRecords] /\ releaseBuilder'[b] = me
        /\ \A c \in Builders \ {b} : releaseBuilder'[c] = releaseBuilder[c]
    BY DEF ReleaseInv, Release!Build
  <1> QED BY <1>1 DEF ReleaseInv, BuilderIsSound, PromoterIsSound

(* The steps of a builder on the rows.                                     *)
LEMMA BuildersAreSound ==
    ASSUME ReleaseInv, NEW b \in Builders,
           \/ Release!StartBuild(b) \/ Release!IngestBatch(b) \/ Release!SaveHashes(b)
           \/ Release!Count(b) \/ Release!ReadBack(b) \/ Release!StopBuild(b)
    PROVE  ReleaseInv'
  <1> DEFINE me == releaseBuilder[b]
  <1>1. /\ me \in BuilderRecords /\ BuilderIsSound(me, releaseCandidate.rows)
        /\ releaseCandidate = [rows |-> releaseCandidate.rows, hashes |-> releaseCandidate.hashes,
                        bundle |-> releaseCandidate.bundle, manifest |-> releaseCandidate.manifest]
        /\ releaseCandidate.rows \subseteq ParsedChunks /\ IsFiniteSet(releaseCandidate.rows)
        /\ releaseCandidate.hashes \subseteq releaseCandidate.rows
        /\ FileIsSound(releaseCandidate.bundle, releaseCandidate.rows)
           /\ FileIsSound(releaseCandidate.manifest, releaseCandidate.rows)
    BY DEF ReleaseInv
  <1>2. CASE Release!StartBuild(b)
    <2>1. PICK parse \in Parses :
             Release!Build(b, [Release!Resting EXCEPT !.at = "ingest", !.parse = parse,
                                  !.left = parse, !.known = releaseCandidate.hashes])
      BY <1>2 DEF Release!StartBuild
    <2> DEFINE q == [Release!Resting EXCEPT !.at = "ingest", !.parse = parse,
                        !.left = parse, !.known = releaseCandidate.hashes]
    <2>2. UNCHANGED <<releaseCandidate, releaseOutput, releasePromoter>>
      BY <1>2 DEF Release!StartBuild
    <2>3. /\ q.at = "ingest" /\ q.parse = parse /\ q.left = parse
          /\ q.known = releaseCandidate.hashes /\ q \in BuilderRecords
      BY <1>1 DEF Release!Resting, BuilderRecords, ParsedChunks
    <2> HIDE DEF q
    <2>4. BuilderIsSound(q, releaseCandidate'.rows)
      BY <1>1, <2>2, <2>3 DEF BuilderIsSound
    <2> QED BY <1>1, <2>1, <2>2, <2>3, <2>4, BuilderMoves DEF FileIsSound, q
  <1>3. CASE Release!IngestBatch(b)
    <2>1. PICK c \in me.left \ me.known :
             \/ /\ releaseCandidate' = [releaseCandidate EXCEPT !.rows = @ \cup {c}]
                /\ Release!Build(b, [me EXCEPT !.left = @ \ {c}, !.known = @ \cup {c},
                                               !.added = @ + 1])
             \/ /\ releaseCandidate' \in {releaseCandidate, [releaseCandidate EXCEPT !.rows = @ \cup {c}]}
                /\ Release!Build(b, [me EXCEPT !.left = @ \ {c}, !.failed = TRUE])
      BY <1>3 DEF Release!IngestBatch
    <2>2. c \in ParsedChunks /\ UNCHANGED <<releaseOutput, releasePromoter>> /\ me.at = "ingest"
      BY <1>1, <1>3 DEF BuilderRecords, Release!IngestBatch
    <2>3. PICK rows \in {releaseCandidate.rows, releaseCandidate.rows \cup {c}} :
             releaseCandidate' = [rows |-> rows, hashes |-> releaseCandidate.hashes,
                           bundle |-> releaseCandidate.bundle, manifest |-> releaseCandidate.manifest]
      BY <1>1, <2>1
    <2> IsFiniteSet(rows)
      BY <1>1, FS_AddElement
    <2>4. CASE /\ releaseCandidate' = [releaseCandidate EXCEPT !.rows = @ \cup {c}]
               /\ Release!Build(b, [me EXCEPT !.left = @ \ {c}, !.known = @ \cup {c},
                                              !.added = @ + 1])
      <3> DEFINE q == [me EXCEPT !.left = @ \ {c}, !.known = @ \cup {c}, !.added = @ + 1]
      <3> DEFINE fields == {"at", "parse", "known", "left", "added", "failed", "count"}
      <3>4. /\ q.at = me.at /\ q.parse = me.parse /\ q.failed = me.failed
            /\ q.left = me.left \ {c} /\ q.known = me.known \cup {c}
            /\ q.added = me.added + 1 /\ q.count = me.count /\ q = [f \in fields |-> q[f]]
        BY <1>1 DEF BuilderRecords
      <3>2. releaseCandidate'.rows = releaseCandidate.rows \cup {c}
        BY <1>1, <2>4
      <3> HIDE DEF q
      <3>1. q \in BuilderRecords
        BY <1>1, <2>2, <3>4 DEF BuilderRecords
      <3>3. BuilderIsSound(q, releaseCandidate'.rows)
        BY <1>1, <2>2, <3>4, <3>2 DEF BuilderIsSound
      <3> QED BY <1>1, <2>2, <2>3, <2>4, <3>1, <3>3, BuilderMoves DEF FileIsSound, q
    <2>5. CASE Release!Build(b, [me EXCEPT !.left = @ \ {c}, !.failed = TRUE])
      <3> DEFINE q == [me EXCEPT !.left = @ \ {c}, !.failed = TRUE]
      <3>1. /\ q \in BuilderRecords /\ q.at = me.at /\ q.parse = me.parse /\ q.failed = TRUE
            /\ q.known = me.known
        BY <1>1, <2>2 DEF BuilderRecords
      <3> HIDE DEF q
      <3>2. BuilderIsSound(q, releaseCandidate'.rows)
        BY <1>1, <2>2, <2>3, <3>1 DEF BuilderIsSound
      <3> QED BY <1>1, <2>2, <2>3, <2>5, <3>1, <3>2, BuilderMoves DEF FileIsSound, q
    <2> QED BY <2>1, <2>4, <2>5
  <1>4. CASE Release!SaveHashes(b)
    <2> DEFINE q == [me EXCEPT !.at = "count"]
    <2>1. /\ q \in BuilderRecords /\ q.at = "count" /\ q.parse = me.parse
          /\ q.failed = me.failed /\ q.known = me.known
      BY <1>1 DEF BuilderRecords
    <2>2. releaseCandidate' = [rows |-> releaseCandidate.rows, hashes |-> me.known,
                        bundle |-> releaseCandidate.bundle, manifest |-> releaseCandidate.manifest]
      BY <1>1, <1>4 DEF Release!SaveHashes
    <2>3. Release!Build(b, q) /\ UNCHANGED <<releaseOutput, releasePromoter>>
      BY <1>4 DEF Release!SaveHashes
    <2> HIDE DEF q
    <2>4. BuilderIsSound(q, releaseCandidate'.rows)
      BY <1>1, <1>4, <2>1, <2>2 DEF BuilderIsSound, Release!SaveHashes
    <2>5. me.known \subseteq releaseCandidate.rows
      BY <1>1 DEF BuilderIsSound
    <2> QED BY <1>1, <2>1, <2>2, <2>3, <2>4, <2>5, BuilderMoves DEF FileIsSound
  <1>5. CASE Release!Count(b)
    <2> DEFINE q == [me EXCEPT !.at = "readback", !.count = Cardinality(releaseCandidate.rows)]
    <2>1. Cardinality(releaseCandidate.rows) \in Nat
      BY <1>1, FS_CardinalityType
    <2>2. /\ q \in BuilderRecords /\ q.at = "readback" /\ q.parse = me.parse
          /\ q.failed = me.failed /\ q.known = me.known
      BY <1>1, <2>1 DEF BuilderRecords
    <2>3. Release!Build(b, q) /\ UNCHANGED <<releaseCandidate, releaseOutput, releasePromoter>>
      BY <1>5, ReleaseCounts DEF Release!Count
    <2> HIDE DEF q
    <2>4. BuilderIsSound(q, releaseCandidate'.rows)
      BY <1>1, <1>5, <2>2, <2>3 DEF BuilderIsSound, Release!Count
    <2> QED BY <1>1, <2>2, <2>3, <2>4, BuilderMoves DEF FileIsSound
  <1>6. Release!Resting \in BuilderRecords
        /\ BuilderIsSound(Release!Resting, releaseCandidate'.rows)
    BY DEF Release!Resting, BuilderRecords, BuilderIsSound
  <1>7. CASE Release!ReadBack(b)
    <2>1. me.at = "readback" /\ UNCHANGED <<releaseCandidate, releaseOutput, releasePromoter>>
      BY <1>7 DEF Release!ReadBack
    <2>2. CASE Release!Build(b, Release!Resting)
      BY <1>1, <1>6, <2>1, <2>2, BuilderMoves DEF FileIsSound
    <2>3. CASE Release!Build(b, [me EXCEPT !.at = "bundle"]) /\ ~me.failed
      <3> DEFINE q == [me EXCEPT !.at = "bundle"]
      <3>1. /\ q \in BuilderRecords /\ q.at = "bundle" /\ q.parse = me.parse
            /\ q.failed = me.failed /\ q.known = me.known
        BY <1>1 DEF BuilderRecords
      <3> HIDE DEF q
      <3>2. BuilderIsSound(q, releaseCandidate'.rows)
        BY <1>1, <2>1, <2>3, <3>1 DEF BuilderIsSound
      <3> QED BY <1>1, <2>1, <2>3, <3>1, <3>2, BuilderMoves DEF FileIsSound, q
    <2> QED BY <1>7, <2>2, <2>3 DEF Release!ReadBack
  <1>8. CASE Release!StopBuild(b)
    <2>1. PICK hashes \in {releaseCandidate.hashes, {}} :
             releaseCandidate' = [rows |-> releaseCandidate.rows, hashes |-> hashes,
                           bundle |-> releaseCandidate.bundle, manifest |-> releaseCandidate.manifest]
      BY <1>1, <1>8 DEF Release!StopBuild
    <2>2. Release!Build(b, Release!Resting) /\ UNCHANGED <<releaseOutput, releasePromoter>>
      BY <1>8 DEF Release!StopBuild
    <2> QED BY <1>1, <1>6, <2>1, <2>2, BuilderMoves DEF FileIsSound
  <1> QED BY <1>2, <1>3, <1>4, <1>5, <1>7, <1>8

(* The two files: torn, then whole.                                        *)
LEMMA FilesAreSound ==
    ASSUME ReleaseInv, NEW b \in Builders, Release!WriteBundle(b) \/ Release!WriteManifest(b)
    PROVE  ReleaseInv'
  <1> DEFINE me == releaseBuilder[b]
  <1>1. /\ me \in BuilderRecords /\ BuilderIsSound(me, releaseCandidate.rows)
        /\ releaseCandidate = [rows |-> releaseCandidate.rows, hashes |-> releaseCandidate.hashes,
                        bundle |-> releaseCandidate.bundle, manifest |-> releaseCandidate.manifest]
        /\ releaseCandidate.rows \subseteq ParsedChunks /\ IsFiniteSet(releaseCandidate.rows)
        /\ releaseCandidate.hashes \subseteq releaseCandidate.rows
        /\ FileIsSound(releaseCandidate.bundle, releaseCandidate.rows)
           /\ FileIsSound(releaseCandidate.manifest, releaseCandidate.rows)
    BY DEF ReleaseInv
  <1>2. UNCHANGED <<releaseOutput, releasePromoter>>
    BY DEF Release!WriteBundle, Release!WriteManifest, Release!Fill
  <1>3. ASSUME NEW at \in {"halfBundle", "manifest", "halfManifest"},
               me.at \in {"bundle", "halfBundle", "manifest"},
               releaseCandidate'.rows = releaseCandidate.rows
        PROVE  /\ [me EXCEPT !.at = at] \in BuilderRecords
               /\ BuilderIsSound([me EXCEPT !.at = at], releaseCandidate'.rows)
    <2> DEFINE q == [me EXCEPT !.at = at]
    <2>1. /\ q \in BuilderRecords /\ q.at = at /\ q.parse = me.parse
          /\ q.failed = me.failed /\ q.known = me.known
      BY <1>1 DEF BuilderRecords
    <2> HIDE DEF q
    <2>2. BuilderIsSound(q, releaseCandidate'.rows)
      BY <1>1, <1>3, <2>1 DEF BuilderIsSound
    <2> QED BY <2>1, <2>2 DEF q
  <1>4. Release!Resting \in BuilderRecords
        /\ BuilderIsSound(Release!Resting, releaseCandidate'.rows)
    BY DEF Release!Resting, BuilderRecords, BuilderIsSound
  <1>5. me.at \in {"halfBundle", "halfManifest"} => FileIsSound(me.parse, releaseCandidate.rows)
    BY <1>1 DEF BuilderIsSound, FileIsSound
  <1>6. CASE Release!WriteBundle(b)
    <2>1. ASSUME NEW bundle, NEW at \in {"halfBundle", "manifest"},
                 me.at \in {"bundle", "halfBundle"}, FileIsSound(bundle, releaseCandidate.rows),
                 releaseCandidate' = [releaseCandidate EXCEPT !["bundle"] = bundle],
                 Release!Build(b, [me EXCEPT !.at = at])
          PROVE  ReleaseInv'
      <3>1. releaseCandidate' = [rows |-> releaseCandidate.rows, hashes |-> releaseCandidate.hashes,
                          bundle |-> bundle, manifest |-> releaseCandidate.manifest]
        BY <1>1, <2>1
      <3> QED BY <1>1, <1>2, <1>3, <2>1, <3>1, BuilderMoves
    <2>2. FileIsSound(Torn, releaseCandidate.rows)
      BY DEF FileIsSound
    <2> QED BY <1>5, <1>6, <2>1, <2>2 DEF Release!WriteBundle, Release!Fill
  <1>7. CASE Release!WriteManifest(b)
    <2>1. ASSUME NEW manifest, FileIsSound(manifest, releaseCandidate.rows),
                 releaseCandidate' = [releaseCandidate EXCEPT !["manifest"] = manifest],
                 \/ me.at = "manifest" /\ Release!Build(b, [me EXCEPT !.at = "halfManifest"])
                 \/ Release!Build(b, Release!Resting)
          PROVE  ReleaseInv'
      <3>1. releaseCandidate' = [rows |-> releaseCandidate.rows, hashes |-> releaseCandidate.hashes,
                          bundle |-> releaseCandidate.bundle, manifest |-> manifest]
        BY <1>1, <2>1
      <3>2. CASE me.at = "manifest" /\ Release!Build(b, [me EXCEPT !.at = "halfManifest"])
        BY <1>1, <1>2, <1>3, <2>1, <3>1, <3>2, BuilderMoves
      <3>3. CASE Release!Build(b, Release!Resting)
        BY <1>1, <1>2, <1>4, <2>1, <3>1, <3>3, BuilderMoves
      <3> QED BY <2>1, <3>2, <3>3
    <2>2. FileIsSound(Torn, releaseCandidate.rows)
      BY DEF FileIsSound
    <2> QED BY <1>5, <1>7, <2>1, <2>2 DEF Release!WriteManifest, Release!Fill
  <1> QED BY <1>6, <1>7

(* A promoter goes on, reading or writing its output.                      *)
LEMMA PromoterMoves ==
    ASSUME ReleaseInv, NEW p \in Publishers, NEW me \in PromoterRecords, Release!Promote(p, me),
           PromoterIsSound(me, releaseCandidate.rows), UNCHANGED <<releaseCandidate, releaseBuilder>>,
           releaseOutput' = None \/ releaseOutput'.rows = releaseOutput'.revision
    PROVE  ReleaseInv'
  <1>1. releasePromoter' \in [Publishers -> PromoterRecords] /\ releasePromoter'[p] = me
        /\ \A q \in Publishers \ {p} : releasePromoter'[q] = releasePromoter[q]
    BY DEF ReleaseInv, Release!Promote
  <1> QED BY <1>1 DEF ReleaseInv, BuilderIsSound, PromoterIsSound, FileIsSound

(* The steps of a promoter.                                                *)
LEMMA PromotersAreSound ==
    ASSUME ReleaseInv, NEW p \in Publishers,
           \/ Release!StartPromotion(p) \/ Release!ReadBundle(p) \/ Release!CopyRows(p)
           \/ Release!Rename(p) \/ Release!StopPromotion(p)
    PROVE  ReleaseInv'
  <1> DEFINE me == releasePromoter[p]
  <1>1. me \in PromoterRecords /\ PromoterIsSound(me, releaseCandidate.rows)
    BY DEF ReleaseInv
  <1>2. Release!Away \in PromoterRecords /\ PromoterIsSound(Release!Away, releaseCandidate.rows)
    BY DEF Release!Away, PromoterRecords, PromoterIsSound
  <1>3. FileIsSound(releaseCandidate.bundle, releaseCandidate.rows)
        /\ FileIsSound(releaseCandidate.manifest, releaseCandidate.rows)
        /\ (releaseOutput = None \/ releaseOutput.rows = releaseOutput.revision)
    BY DEF ReleaseInv
  <1>4. CASE Release!StartPromotion(p)
    <2> DEFINE q == [Release!Away EXCEPT !.at = "bundle", !.revision = releaseCandidate.manifest]
    <2>1. releaseCandidate.manifest \in Parses
          /\ releaseCandidate.manifest \subseteq releaseCandidate.rows
      BY <1>3, <1>4 DEF Release!StartPromotion, Release!Whole, FileIsSound
    <2>2. q \in PromoterRecords /\ q.at = "bundle" /\ q.revision = releaseCandidate.manifest
      BY <2>1 DEF Release!Away, PromoterRecords
    <2>3. q \in PromoterRecords /\ PromoterIsSound(q, releaseCandidate.rows)
      BY <2>1, <2>2 DEF PromoterIsSound
    <2> QED BY <1>3, <1>4, <2>3, PromoterMoves DEF Release!StartPromotion
  <1>5. CASE Release!ReadBundle(p)
    <2>1. UNCHANGED <<releaseCandidate, releaseOutput, releaseBuilder>>
      BY <1>5 DEF Release!ReadBundle
    <2>2. CASE Release!Promote(p, Release!Away)
      BY <1>2, <1>3, <2>1, <2>2, PromoterMoves
    <2>3. CASE /\ Release!Whole(releaseCandidate.bundle)
               /\ Cardinality(releaseCandidate.bundle) = Cardinality(me.revision)
               /\ Release!Promote(p, [me EXCEPT !.at = "rows", !.bundle = releaseCandidate.bundle])
      <3> DEFINE q == [me EXCEPT !.at = "rows", !.bundle = releaseCandidate.bundle]
      <3>1. releaseCandidate.bundle \in Parses
        BY <1>3, <2>3 DEF Release!Whole, FileIsSound
      <3>2. /\ q \in PromoterRecords /\ q.at = "rows" /\ q.bundle = releaseCandidate.bundle
            /\ q.revision = me.revision
        BY <1>1, <3>1 DEF PromoterRecords
      <3> HIDE DEF q
      <3>3. PromoterIsSound(q, releaseCandidate.rows)
        BY <1>1, <1>5, <2>3, <3>1, <3>2 DEF PromoterIsSound, Release!ReadBundle
      <3> QED BY <1>3, <2>1, <2>3, <3>2, <3>3, PromoterMoves DEF q
    <2> QED BY <1>5, <2>2, <2>3, ReleaseCounts DEF Release!ReadBundle
  <1>6. CASE Release!CopyRows(p)
    <2>1. UNCHANGED <<releaseCandidate, releaseOutput, releaseBuilder>> /\ me.at = "rows"
      BY <1>6 DEF Release!CopyRows
    <2>2. CASE Release!Promote(p, Release!Away)
      BY <1>2, <1>3, <2>1, <2>2, PromoterMoves
    <2>3. CASE releaseCandidate.rows = me.bundle /\ Release!Promote(p, [me EXCEPT !.at = "rename"])
      <3> DEFINE q == [me EXCEPT !.at = "rename"]
      <3>1. me.bundle = me.revision /\ me.revision \in Parses
        BY <1>1, <2>1, <2>3, FS_Subset, ReleaseAssumption DEF PromoterIsSound
      <3>2. /\ q \in PromoterRecords /\ q.at = "rename" /\ q.bundle = me.bundle
            /\ q.revision = me.revision
        BY <1>1 DEF PromoterRecords
      <3> HIDE DEF q
      <3>3. PromoterIsSound(q, releaseCandidate.rows)
        BY <1>1, <2>1, <3>1, <3>2 DEF PromoterIsSound
      <3> QED BY <1>3, <2>1, <2>3, <3>2, <3>3, PromoterMoves DEF q
    <2> QED BY <1>6, <2>2, <2>3 DEF Release!CopyRows
  <1>7. CASE Release!Rename(p)
    <2>1. me.bundle = me.revision
      BY <1>1, <1>7 DEF PromoterIsSound, Release!Rename
    <2>2. releaseOutput' = None \/ releaseOutput'.rows = releaseOutput'.revision
      BY <1>3, <1>7, <2>1 DEF Release!Rename
    <2> QED BY <1>2, <1>7, <2>2, PromoterMoves DEF Release!Rename
  <1>8. CASE Release!StopPromotion(p)
    BY <1>2, <1>3, <1>8, PromoterMoves DEF Release!StopPromotion
  <1> QED BY <1>4, <1>5, <1>6, <1>7, <1>8

(* Every step keeps the invariant.                                         *)
LEMMA ReleaseSteps ==
    ASSUME ReleaseInv, [Release!Next]_Release!vars
    PROVE  ReleaseInv'
  <1>1. CASE UNCHANGED Release!vars
    BY <1>1 DEF Release!vars, ReleaseInv, BuilderIsSound, PromoterIsSound, FileIsSound
  <1>2. CASE Release!Bind
    BY <1>2 DEF Release!Bind, ReleaseInv, BuilderIsSound, PromoterIsSound, FileIsSound
  <1> QED BY <1>1, <1>2, BuildersAreSound, FilesAreSound, PromotersAreSound DEF Release!Next

(* The invariant implies what is promised.                                 *)
LEMMA ReleaseInvSuffices == ReleaseInv => Release!ReleaseIsSealed
  BY DEF ReleaseInv, Release!ReleaseIsSealed, Release!Opens

-----------------------------------------------------------------------------
(* The promotion of the frozen retrieval index.                            *)

RunFields == {"at", "bundle", "manifest", "rows", "written", "next", "calm"}

Reproduces(chunks, bundle) == \A c \in chunks : c.text \in BundleTexts[bundle.pages]

Frozen(f) == f.bundle.hash = ExpectedBundle /\ f.manifest.hash = ExpectedManifest

(* What a run knows of the files it has read, where f is what they are now: *)
(* they are still as they were if no file was exchanged.                    *)
RunIsSound(me, f) ==
    /\ me = [x \in RunFields |-> me[x]]
    /\ me.at # "idle" /\ me.calm => Frozen(f)
    /\ me.at \in {"rows", "write", "rename"} /\ me.calm => me.bundle.hash = ExpectedBundle
    /\ me.at \in {"read", "rows"} => me.written = {}
    /\ me.at \in {"write", "rename"} =>
          me.rows = Promotion!Ids(me.bundle) /\ Reproduces(me.written, me.bundle)
    /\ me.at = "rename" =>
          /\ Promotion!Cardinality(me.written) = me.manifest.count
          /\ {c.id : c \in me.written} = me.rows
          /\ me.calm => /\ me.manifest.bundle = ExpectedBundle
                        /\ me.manifest.index = ExpectedManifest

FilesAreFiles == promotionFiles = [x \in {"bundle", "manifest", "rows", "pages"} |-> promotionFiles[x]]

PromotionInv ==
    /\ FilesAreFiles
    /\ promotionPromoter = [p \in Promoters |-> promotionPromoter[p]]
    /\ \A p \in Promoters : RunIsSound(promotionPromoter[p], promotionFiles)
    /\ Promotion!PromotedIndexIsWhole

(* At the start nobody promotes.                                           *)
LEMMA PromotionStarts == Promotion!Init => PromotionInv
  <1> SUFFICES ASSUME Promotion!Init PROVE PromotionInv
    OBVIOUS
  <1>1. RunIsSound(Promotion!Resting, promotionFiles)
    BY DEF RunIsSound, RunFields, Promotion!Resting
  <1>2. FilesAreFiles
    BY DEF Promotion!Init, FilesAreFiles
  <1>3. promotionPromoter = [p \in Promoters |-> Promotion!Resting] /\ promotionOutput = None
    BY DEF Promotion!Init
  <1>4. Promotion!PromotedIndexIsWhole
    BY <1>3 DEF Promotion!PromotedIndexIsWhole
  <1> HIDE DEF Promotion!Resting
  <1> QED BY <1>1, <1>2, <1>3, <1>4 DEF PromotionInv

(* A promoter goes on with another record.                                 *)
LEMMA RunMoves ==
    ASSUME PromotionInv, NEW p \in Promoters, NEW me, Promotion!Go(p, me),
           RunIsSound(me, promotionFiles), UNCHANGED promotionFiles, Promotion!PromotedIndexIsWhole'
    PROVE  PromotionInv'
  <1>1. /\ promotionPromoter'[p] = me
        /\ \A q \in Promoters \ {p} : promotionPromoter'[q] = promotionPromoter[q]
        /\ promotionPromoter' = [q \in Promoters |-> promotionPromoter'[q]]
    BY DEF PromotionInv, Promotion!Go
  <1>2. ASSUME NEW q \in Promoters PROVE RunIsSound(promotionPromoter'[q], promotionFiles')
    BY <1>1 DEF PromotionInv
  <1>3. FilesAreFiles'
    BY DEF PromotionInv, FilesAreFiles
  <1> QED BY <1>1, <1>2, <1>3 DEF PromotionInv

(* The steps of a promoter.                                                *)
LEMMA RunsAreSound ==
    ASSUME PromotionInv, NEW p \in Promoters,
           \/ Promotion!Check(p) \/ Promotion!ReadFiles(p) \/ Promotion!ReadRows(p)
           \/ Promotion!AddBatch(p) \/ Promotion!Verify(p) \/ Promotion!Rename(p)
           \/ Promotion!Stop(p)
    PROVE  PromotionInv'
  <1> DEFINE me == promotionPromoter[p]
  <1>1. RunIsSound(me, promotionFiles) /\ Promotion!PromotedIndexIsWhole /\ FilesAreFiles
    BY DEF PromotionInv
  <1>2. RunIsSound(Promotion!Resting, promotionFiles)
    BY DEF Promotion!Resting, RunIsSound, RunFields
  <1>3. UNCHANGED promotionOutput => Promotion!PromotedIndexIsWhole'
    BY <1>1 DEF Promotion!PromotedIndexIsWhole, Promotion!Ids
  <1>4. ASSUME Promotion!GiveUp(p), UNCHANGED <<promotionFiles, promotionOutput>> PROVE PromotionInv'
    BY <1>2, <1>3, <1>4, RunMoves DEF Promotion!GiveUp
  <1>5. CASE Promotion!Check(p)
    <2> DEFINE q == [Promotion!Resting EXCEPT !.at = "read"]
    <2>1. RunIsSound(q, promotionFiles)
      BY <1>5 DEF Promotion!Check, Promotion!Resting, RunIsSound, RunFields, Frozen
    <2> QED BY <1>3, <1>5, <2>1, RunMoves DEF Promotion!Check
  <1>6. CASE Promotion!ReadFiles(p)
    <2> DEFINE q == [me EXCEPT !.at = "rows", !.bundle = promotionFiles.bundle, !.manifest = promotionFiles.manifest]
    <2>1. CASE Promotion!Go(p, q)
      <3>1. /\ q.at = "rows" /\ q.bundle = promotionFiles.bundle /\ q.calm = me.calm
            /\ q.written = me.written /\ q = [x \in RunFields |-> q[x]]
        BY <1>1 DEF RunIsSound, RunFields
      <3> HIDE DEF q
      <3>2. RunIsSound(q, promotionFiles)
        BY <1>1, <1>6, <3>1 DEF RunIsSound, Promotion!ReadFiles, Frozen
      <3> QED BY <1>3, <1>6, <2>1, <3>2, RunMoves DEF Promotion!ReadFiles
    <2> QED BY <1>4, <1>6, <2>1 DEF Promotion!ReadFiles
  <1>7. CASE Promotion!ReadRows(p)
    <2> DEFINE q == [me EXCEPT !.at = "write", !.rows = promotionFiles.rows]
    <2>1. CASE promotionFiles.rows = Promotion!Ids(me.bundle) /\ Promotion!Go(p, q)
      <3>1. /\ q.at = "write" /\ q.bundle = me.bundle /\ q.calm = me.calm
            /\ q.written = me.written /\ q.rows = promotionFiles.rows
               /\ q = [x \in RunFields |-> q[x]]
        BY <1>1 DEF RunIsSound, RunFields
      <3> HIDE DEF q
      <3>2. RunIsSound(q, promotionFiles)
        BY <1>1, <1>7, <2>1, <3>1 DEF RunIsSound, Promotion!ReadRows, Reproduces
      <3> QED BY <1>3, <1>7, <2>1, <3>2, RunMoves DEF Promotion!ReadRows
    <2> QED BY <1>4, <1>7, <2>1 DEF Promotion!ReadRows
  <1>8. CASE Promotion!AddBatch(p)
    <2> DEFINE new == {c \in Promotion!Batch(me) : \A old \in me.written : old.id # c.id}
               q == [me EXCEPT !.written = @ \cup new,
                               !.next = @ + Promotion!Cardinality(Promotion!Places(me))]
    <2>1. CASE Promotion!Reproduced(me) /\ Promotion!Go(p, q)
      <3>1. /\ q.at = me.at /\ q.bundle = me.bundle /\ q.calm = me.calm
            /\ q.written = me.written \cup new /\ q.rows = me.rows
            /\ q = [x \in RunFields |-> q[x]]
        BY <1>1 DEF RunIsSound, RunFields
      <3>2. Reproduces(new, me.bundle)
        BY <2>1 DEF Reproduces, Promotion!Reproduced
      <3> HIDE DEF q, new
      <3>3. RunIsSound(q, promotionFiles)
        BY <1>1, <1>8, <3>1, <3>2 DEF RunIsSound, Promotion!AddBatch, Reproduces
      <3> QED BY <1>3, <1>8, <2>1, <3>3, RunMoves DEF Promotion!AddBatch
    <2> QED BY <1>4, <1>8, <2>1 DEF Promotion!AddBatch
  <1>9. CASE Promotion!Verify(p)
    <2> DEFINE m == [count |-> Promotion!Len(me.bundle.chunks), bundle |-> promotionFiles.bundle.hash,
                     index |-> promotionFiles.manifest.hash]
               q == [me EXCEPT !.at = "rename", !.manifest = m]
    <2>1. CASE Promotion!ReadsBack(me) /\ Promotion!Go(p, q)
      <3>1. /\ q.at = "rename" /\ q.bundle = me.bundle /\ q.calm = me.calm
            /\ q.written = me.written /\ q.rows = me.rows /\ q.manifest = m
            /\ q = [x \in RunFields |-> q[x]]
        BY <1>1 DEF RunIsSound, RunFields
      <3>4. /\ Promotion!Cardinality(q.written) = q.manifest.count
            /\ {c.id : c \in q.written} = q.rows
            /\ q.manifest.bundle = promotionFiles.bundle.hash
               /\ q.manifest.index = promotionFiles.manifest.hash
        BY <2>1, <3>1 DEF Promotion!ReadsBack
      <3> HIDE DEF q, m
      <3>2. RunIsSound(q, promotionFiles)
        BY <1>1, <1>9, <3>1, <3>4 DEF RunIsSound, Promotion!Verify, Frozen
      <3> QED BY <1>3, <1>9, <2>1, <3>2, RunMoves DEF Promotion!Verify
    <2> QED BY <1>4, <1>9, <2>1 DEF Promotion!Verify
  <1>10. CASE Promotion!Rename(p)
    <2>1. Promotion!PromotedIndexIsWhole'
      BY <1>1, <1>10 DEF Promotion!Rename, Promotion!PromotedIndexIsWhole, RunIsSound, Reproduces
    <2> QED BY <1>2, <1>10, <2>1, RunMoves DEF Promotion!Rename, Promotion!GiveUp
  <1>11. CASE Promotion!Stop(p)
    BY <1>4, <1>11 DEF Promotion!Stop
  <1> QED BY <1>5, <1>6, <1>7, <1>8, <1>9, <1>10, <1>11

(* Runs know of an exchange that they may have read something else since.  *)
LEMMA ExchangesAreNoticed ==
    ASSUME PromotionInv, Promotion!Exchange
    PROVE  PromotionInv'
  <1>1. FilesAreFiles' /\ UNCHANGED promotionOutput
    BY DEF PromotionInv, FilesAreFiles, Promotion!Exchange
  <1>2. ASSUME NEW p \in Promoters PROVE RunIsSound(promotionPromoter'[p], promotionFiles')
    <2> DEFINE me == promotionPromoter[p]
               q == [me EXCEPT !.calm = @ /\ me.at = "idle"]
    <2>1. promotionPromoter'[p] = q
      BY DEF Promotion!Exchange
    <2>2. RunIsSound(me, promotionFiles)
      BY DEF PromotionInv
    <2>3. /\ q.at = me.at /\ q.bundle = me.bundle /\ q.written = me.written /\ q.rows = me.rows
          /\ q.manifest = me.manifest /\ q = [x \in RunFields |-> q[x]]
          /\ q.calm => me.at = "idle"
      BY <2>2 DEF RunIsSound, RunFields
    <2> HIDE DEF q
    <2> QED BY <2>1, <2>2, <2>3 DEF RunIsSound
  <1>3. Promotion!PromotedIndexIsWhole'
    BY <1>1 DEF PromotionInv, Promotion!PromotedIndexIsWhole, Promotion!Ids
  <1>4. promotionPromoter' = [p \in Promoters |-> promotionPromoter'[p]]
    BY DEF Promotion!Exchange
  <1> QED BY <1>1, <1>2, <1>3, <1>4 DEF PromotionInv

(* Every step keeps the invariant.                                         *)
LEMMA PromotionSteps ==
    ASSUME PromotionInv, [Promotion!Next]_Promotion!vars
    PROVE  PromotionInv'
  <1>1. CASE UNCHANGED Promotion!vars
    BY <1>1 DEF Promotion!vars, PromotionInv, FilesAreFiles, Promotion!PromotedIndexIsWhole,
                Promotion!Ids
  <1> QED BY <1>1, RunsAreSound, ExchangesAreNoticed DEF Promotion!Next

(* The invariant implies what is promised.                                 *)
LEMMA PromotionInvSuffices == PromotionInv => Promotion!PromotedIndexIsWhole
  BY DEF PromotionInv

-----------------------------------------------------------------------------
(* The catalogue of the skills.                                            *)

SkillNames == {m.name : m \in SkillManifests}

SkillFiles == [text : SkillManifests, stamp : Nat]

(* What a turn may be doing.                                               *)
SkillTurns == [at : {"idle", "scan", "keys", "paths", "signature", "select", "done", "refused"},
               left : SUBSET Skills!Entries, staged : SUBSET SkillManifests,
               loaded : SUBSET SkillNames, scanned : SUBSET Skills!Entries,
               since : SUBSET SUBSET SkillManifests, crossed : BOOLEAN,
               picked : SUBSET SkillNames]

(* What the roots may hold, and what a discovery remembers of them.        *)
SkillDisks == [edits : Nat, listed : Nat, files : [Skills!Entries -> SkillFiles \cup {None}]]

SkillSignatures ==
    [listed : Nat, states : UNION {[S -> SkillFiles \cup {None}] : S \in SUBSET Skills!Entries}]

(* What the registry may hold.                                             *)
Catalogs ==
    [skills : SUBSET SkillManifests, keys : SUBSET SkillNames, tracked : SUBSET Skills!Entries,
     signature : {None} \cup SkillSignatures]

(* Types; no listing is from the future.                                   *)
SkillShapes ==
    /\ skillsDisk \in SkillDisks
    /\ skillsCatalog \in Catalogs
    /\ skillsTurns \in [Threads -> SkillTurns]
    /\ skillsOvertaken \in BOOLEAN
    /\ skillsDisk.listed <= skillsDisk.edits
    /\ skillsCatalog.signature # None => skillsCatalog.signature.listed <= skillsDisk.edits

(* A turn that has replaced the skills and has more to replace.            *)
Publishing(t) == skillsTurns[t].at \in {"keys", "paths", "signature"}

(* The entries that are there, and what is written in them.                *)
Listed == Skills!Present(skillsDisk)

Written == Skills!Texts(skillsDisk)

(* The entries a turn has passed, and the texts of some entries.           *)
Scanned(t) == Listed \ skillsTurns[t].left

TextsOf(S) == {skillsDisk.files[e].text : e \in S}

(* What a turn knows at each of its steps, as long as no file changes in   *)
(* the middle of a discovery.                                              *)
TurnIsSound(t) ==
    LET u == skillsTurns[t] IN
    /\ u.at \notin {"idle", "done", "refused"} => Written \in u.since
    /\ u.at = "scan" =>
          /\ u.left \subseteq Listed
          /\ u.staged \subseteq Written /\ TextsOf(Scanned(t)) \subseteq u.staged
          /\ u.loaded = {m.name : m \in TextsOf(Scanned(t))}
          /\ ~u.crossed => ~Skills!Ambiguous(skillsDisk) /\ u.staged \subseteq TextsOf(Scanned(t))
    /\ u.at = "keys" => u.loaded = {m.name : m \in Written}
    /\ u.at \in {"scan", "keys", "paths"} => u.scanned = Listed
    /\ Publishing(t) => skillsCatalog.skills = Written
    /\ u.at = "signature" => skillsCatalog.tracked = Listed
    /\ u.at = "select" => skillsCatalog.skills \in u.since
    /\ u.at = "done" => \E texts \in u.since : u.picked = Skills!Candidates(texts)
    /\ u.at = "refused" => u.crossed

(* What the registry knows: its keys are those of its skills, its skills   *)
(* those of its signature, unless a turn is about to replace them; and a   *)
(* signature with the listing of the roots has their entries.              *)
CatalogIsSound ==
    LET s == skillsCatalog.signature IN
    /\ (\A t \in Threads : skillsTurns[t].at # "keys")
          => \A m \in skillsCatalog.skills : m.name \in skillsCatalog.keys
    /\ s # None =>
         /\ (\A t \in Threads : ~Publishing(t)) =>
               skillsCatalog.skills = {s.states[e].text : e \in DOMAIN s.states}
         /\ s.listed = skillsDisk.listed => DOMAIN s.states = Listed

(* The invariant of the catalogue.                                         *)
SkillsInv ==
    /\ SkillShapes
    /\ ~skillsOvertaken => CatalogIsSound /\ \A t \in Threads : TurnIsSound(t)

(* At the start nothing was discovered.                                    *)
LEMMA SkillsStart == Skills!Init => SkillsInv
  <1> SUFFICES ASSUME Skills!Init PROVE SkillsInv
    OBVIOUS
  <1>1. Skills!Idle \in SkillTurns /\ Skills!Idle.at = "idle"
    BY DEF Skills!Idle, SkillTurns
  <1>2. SkillShapes
    <2>1. skillsCatalog \in Catalogs /\ skillsCatalog.signature = None
      BY DEF Skills!Init, Catalogs, SkillSignatures
    <2>2. skillsDisk \in SkillDisks
          /\ skillsDisk.listed = 0 /\ skillsDisk.edits = 0
      <3> DEFINE none == [e \in Skills!Entries |-> None]
      <3>1. none \in [Skills!Entries -> SkillFiles \cup {None}]
        OBVIOUS
      <3> HIDE DEF none
      <3>2. skillsDisk = [edits |-> 0, listed |-> 0, files |-> none]
        BY DEF Skills!Init, none
      <3> QED BY <3>1, <3>2 DEF SkillDisks
    <2>3. skillsTurns \in [Threads -> SkillTurns] /\ skillsOvertaken \in BOOLEAN
      BY <1>1 DEF Skills!Init
    <2> QED BY <2>1, <2>2, <2>3 DEF SkillShapes, SkillDisks
  <1>3. CatalogIsSound
    BY DEF Skills!Init, CatalogIsSound
  <1>4. ASSUME NEW t \in Threads PROVE TurnIsSound(t)
    BY <1>1 DEF Skills!Init, TurnIsSound, Publishing
  <1> QED BY <1>2, <1>3, <1>4 DEF SkillsInv

(* What follows for the turns.                                             *)
LEMMA SkillsInvSuffices == SkillsInv => Skills!PicksFollowTheManifests
  BY DEF SkillsInv, TurnIsSound, Skills!PicksFollowTheManifests

(* The texts on disk and their candidates have the right types.            *)
LEMMA SkillTexts ==
    ASSUME SkillShapes
    PROVE  /\ Listed \subseteq Skills!Entries
           /\ \A e \in Listed : /\ skillsDisk.files[e] \in SkillFiles
                                /\ skillsDisk.files[e].text \in SkillManifests
           /\ Written = TextsOf(Listed) /\ Written \subseteq SkillManifests
           /\ \A texts \in SUBSET SkillManifests : Skills!Candidates(texts) \subseteq SkillNames
  <1>1. \A e \in Listed : /\ skillsDisk.files[e] \in SkillFiles
                          /\ skillsDisk.files[e].text \in SkillManifests
    BY DEF SkillShapes, SkillDisks, Skills!Present, Listed, SkillFiles
  <1>2. \A texts \in SUBSET SkillManifests : Skills!Candidates(texts) \subseteq SkillNames
    BY DEF Skills!Candidates, SkillNames
  <1> QED BY <1>1, <1>2 DEF Skills!Present, Listed, Skills!Texts, Written, TextsOf

(* Unless the manifests are ambiguous, no two of them claim one name.      *)
LEMMA DistinctNames ==
    ASSUME SkillShapes, ~Skills!Ambiguous(skillsDisk), NEW d \in Listed, NEW e \in Listed,
           skillsDisk.files[d].text.name = skillsDisk.files[e].text.name
    PROVE  d = e
  <1> SUFFICES ASSUME d # e PROVE FALSE
    OBVIOUS
  <1> DEFINE P == Listed
             N == {m.name : m \in Written}
             f == [x \in P \ {d} |-> skillsDisk.files[x].text.name]
  <1>1. IsFiniteSet(P) /\ Cardinality(P) \in Nat
    <2>1. IsFiniteSet(Skills!Entries)
      BY SkillsAssumption, FS_Interval DEF Skills!Entries
    <2> QED BY <2>1, SkillTexts, FS_Subset, FS_CardinalityType
  <1>2. IsFiniteSet(P \ {d}) /\ Cardinality(P \ {d}) = Cardinality(P) - 1
    BY <1>1, FS_RemoveElement
  <1>3. f \in Surjection(P \ {d}, N)
    <2>1. \A x \in P : skillsDisk.files[x].text.name \in N
      BY DEF Skills!Texts, Written, Listed, Skills!Present
    <2>2. \A n \in N : \E x \in P \ {d} : f[x] = n
      <3>1. TAKE n \in N
      <3>2. PICK x \in P : n = skillsDisk.files[x].text.name
        BY DEF Skills!Texts, Written, Listed, Skills!Present
      <3>3. CASE x = d
        BY <3>2, <3>3
      <3> QED BY <3>2, <3>3
    <2> HIDE DEF N, Listed, Skills!Present
    <2>3. f \in [P \ {d} -> N]
      BY <2>1
    <2> QED BY <2>2, <2>3 DEF Surjection
  <1>4. Cardinality(N) <= Cardinality(P) - 1
    BY <1>2, <1>3, FS_Surjection
  <1>5. IsFiniteSet(N)
    BY <1>2, <1>3, FS_Surjection
  <1>6. Cardinality(N) \in Nat
    BY <1>5, FS_CardinalityType
  <1> HIDE DEF P, N
  <1>7. \A S : Skills!Cardinality(S) = Cardinality(S)
    BY DEF Skills!Cardinality, Cardinality
  <1>8. ~(Cardinality(N) < Cardinality(P))
    BY <1>7 DEF Skills!Ambiguous, Listed, Written, P, N
  <1> QED BY <1>1, <1>4, <1>6, <1>8

(* A step of one turn that leaves the files alone: the others keep what    *)
(* they know if the registry goes on as it was or takes what is on disk.   *)
LEMMA SkillsMove ==
    ASSUME SkillsInv, NEW t \in Threads, NEW r \in SkillTurns,
           skillsTurns' = [skillsTurns EXCEPT ![t] = r], UNCHANGED <<skillsDisk, skillsOvertaken>>,
           skillsCatalog' \in Catalogs,
           skillsCatalog'.signature # None => skillsCatalog'.signature.listed <= skillsDisk.edits,
           ~skillsOvertaken => /\ skillsCatalog'.skills \in {skillsCatalog.skills, Written}
                         /\ skillsCatalog'.tracked \in {skillsCatalog.tracked, Listed}
                         /\ TurnIsSound(t)' /\ CatalogIsSound'
    PROVE  SkillsInv'
  <1>1. SkillShapes'
    BY DEF SkillsInv, SkillShapes, SkillDisks
  <1>2. ASSUME ~skillsOvertaken', NEW u \in Threads, u # t PROVE TurnIsSound(u)'
    <2>1. ~skillsOvertaken /\ TurnIsSound(u) /\ skillsTurns'[u] = skillsTurns[u]
      BY <1>2 DEF SkillsInv, SkillShapes, SkillDisks
    <2>2. /\ Listed' = Listed /\ Written' = Written
          /\ Skills!Ambiguous(skillsDisk)' = Skills!Ambiguous(skillsDisk) /\ Scanned(u)' = Scanned(u)
          /\ TextsOf(Scanned(u))' = TextsOf(Scanned(u)) /\ Publishing(u)' = Publishing(u)
      BY <2>1 DEF Skills!Present, Listed, Skills!Texts, Written, Skills!Ambiguous, Scanned,
         TextsOf, Publishing
    <2> QED BY <2>1, <2>2 DEF TurnIsSound
  <1> QED BY <1>1, <1>2 DEF SkillsInv

(* The registry stays sound when it is not touched and the turn neither    *)
(* was nor becomes one that is publishing.                                 *)
LEMMA CatalogStays ==
    ASSUME CatalogIsSound, NEW t \in Threads, SkillShapes,
           skillsTurns' = [skillsTurns EXCEPT ![t] = skillsTurns'[t]],
           UNCHANGED <<skillsDisk, skillsCatalog>>,
           ~Publishing(t), ~Publishing(t)'
    PROVE  CatalogIsSound'
  <1>1. \A u \in Threads : /\ Publishing(u)' = Publishing(u)
                           /\ (skillsTurns'[u].at = "keys" <=> skillsTurns[u].at = "keys")
    BY DEF SkillShapes, SkillDisks, Publishing
  <1>2. Listed' = Listed
    BY DEF Skills!Present, Listed
  <1> QED BY <1>1, <1>2 DEF CatalogIsSound

(* A turn asks.                                                            *)
LEMMA AskKeeps ==
    ASSUME SkillsInv, NEW t \in Threads, Skills!Ask(t)
    PROVE  SkillsInv'
  <1>0. /\ skillsTurns[t] \in SkillTurns /\ skillsTurns[t].at = "idle" /\ SkillShapes
        /\ UNCHANGED <<skillsDisk, skillsCatalog, skillsOvertaken>>
    BY DEF SkillsInv, SkillShapes, SkillDisks, Skills!Ask
  <1>1. /\ Written \in SUBSET SkillManifests /\ Listed \in SUBSET Skills!Entries
        /\ Skills!KeptSkills \in SUBSET SkillManifests
    BY <1>0, SkillTexts DEF SkillShapes, SkillDisks, Skills!KeptSkills, Catalogs, SkillSignatures
  <1>2. CASE Skills!Current
    <2> DEFINE r == [Skills!Idle EXCEPT !.at = "select", !.since = {Written}]
    <2>1. r \in SkillTurns /\ r.at = "select" /\ r.since = {Written}
      BY <1>1 DEF Skills!Idle, SkillTurns
    <2> HIDE DEF r
    <2>2. skillsTurns' = [skillsTurns EXCEPT ![t] = r] /\ skillsTurns'[t] = r
      BY <1>0, <1>2 DEF Skills!Ask, r, SkillShapes, SkillDisks, Written
    <2>3. ASSUME ~skillsOvertaken PROVE TurnIsSound(t)' /\ CatalogIsSound'
      <3>1. CatalogIsSound /\ \A u \in Threads : TurnIsSound(u)
        BY <2>3 DEF SkillsInv
      <3>2. skillsCatalog.skills = Written
        <4>1. CASE \E u \in Threads : Publishing(u)
          BY <3>1, <4>1 DEF TurnIsSound
        <4>2. CASE \A u \in Threads : ~Publishing(u)
          <5> DEFINE s == skillsCatalog.signature
          <5>1. /\ s # None /\ s.listed = skillsDisk.listed
                /\ s.states = [e \in skillsCatalog.tracked |-> skillsDisk.files[e]]
            BY <1>2 DEF Skills!Current, Skills!Signature
          <5>2. DOMAIN s.states = Listed
            BY <3>1, <5>1 DEF CatalogIsSound
          <5>3. skillsCatalog.tracked = Listed
            BY <5>1, <5>2
          <5>4. skillsCatalog.skills = {s.states[e].text : e \in Listed}
            BY <3>1, <4>2, <5>1, <5>2 DEF CatalogIsSound
          <5> QED BY <5>1, <5>3, <5>4 DEF Skills!Texts, Written, Listed, Skills!Present
        <4> QED BY <4>1, <4>2
      <3>3. TurnIsSound(t)'
        BY <1>0, <2>1, <2>2, <3>2 DEF TurnIsSound, Publishing, Skills!Texts, Written,
           Skills!Present, Listed
      <3>4. CatalogIsSound'
        BY <1>0, <2>1, <2>2, <3>1, CatalogStays DEF Publishing
      <3> QED BY <3>3, <3>4
    <2> QED BY <1>0, <2>1, <2>2, <2>3, SkillsMove DEF SkillShapes, SkillDisks
  <1>3. CASE ~Skills!Current
    <2> DEFINE c == Skills!Ambiguous(skillsDisk) \/ \E u \in Threads \ {t} : skillsTurns[u].at = "keys"
               r == [Skills!Idle EXCEPT !.at = "scan", !.since = {Written},
                 !.left = Listed, !.scanned = Listed, !.staged = Skills!KeptSkills,
                 !.crossed = c]
    <2>0. c \in BOOLEAN
      OBVIOUS
    <2> HIDE DEF c
    <2>1. /\ r \in SkillTurns /\ r.at = "scan" /\ r.since = {Written}
          /\ r.left = Listed /\ r.scanned = Listed /\ r.staged = Skills!KeptSkills
          /\ r.crossed = c /\ r.loaded = {}
      BY <1>1, <2>0 DEF Skills!Idle, SkillTurns
    <2> HIDE DEF r
    <2>2. skillsTurns' = [skillsTurns EXCEPT ![t] = r] /\ skillsTurns'[t] = r
      BY <1>0, <1>3 DEF Skills!Ask, r, c, SkillShapes, SkillDisks, Listed, Written
    <2>3. ASSUME ~skillsOvertaken PROVE TurnIsSound(t)' /\ CatalogIsSound'
      <3>1. CatalogIsSound /\ \A u \in Threads : TurnIsSound(u)
        BY <2>3 DEF SkillsInv
      <3>2. Skills!KeptSkills \subseteq Written /\ (~c => Skills!KeptSkills = {})
        <4>1. CASE \E u \in Threads : skillsTurns[u].at = "keys"
          <5>1. PICK u \in Threads : skillsTurns[u].at = "keys"
            BY <4>1
          <5>2. u # t /\ Publishing(u)
            BY <1>0, <5>1 DEF Publishing
          <5>3. c
            BY <5>1, <5>2 DEF c
          <5> QED BY <3>1, <5>2, <5>3 DEF TurnIsSound, Skills!KeptSkills
        <4>2. CASE \A u \in Threads : skillsTurns[u].at # "keys"
          BY <3>1, <4>2 DEF CatalogIsSound, Skills!KeptSkills
        <4> QED BY <4>1, <4>2
      <3>3. Scanned(t)' = {} /\ TextsOf(Scanned(t))' = {}
        BY <1>0, <2>1, <2>2 DEF Scanned, TextsOf, Skills!Present, Listed
      <3>4. /\ Written' = Written /\ Listed' = Listed
            /\ Skills!Ambiguous(skillsDisk)' = Skills!Ambiguous(skillsDisk)
        BY <1>0 DEF Skills!Texts, Written, Skills!Present, Listed, Skills!Ambiguous
      <3>5. ~c => ~Skills!Ambiguous(skillsDisk)
        BY DEF c
      <3>6. TurnIsSound(t)'
        BY <2>1, <2>2, <3>2, <3>3, <3>4, <3>5 DEF TurnIsSound, Publishing
      <3>7. CatalogIsSound'
        BY <1>0, <2>1, <2>2, <3>1, CatalogStays DEF Publishing
      <3> QED BY <3>6, <3>7
    <2> QED BY <1>0, <2>1, <2>2, <2>3, SkillsMove DEF SkillShapes, SkillDisks
  <1> QED BY <1>2, <1>3

(* A manifest is read.                                                     *)
LEMMA ReadKeeps ==
    ASSUME SkillsInv, NEW t \in Threads, Skills!Read(t)
    PROVE  SkillsInv'
  <1> DEFINE e == CHOOSE x \in skillsTurns[t].left : \A y \in skillsTurns[t].left : x <= y
             file == skillsDisk.files[e]
             new == IF file = None THEN {} ELSE {file.text}
             names == {text.name : text \in new}
             taken == \E m \in skillsTurns[t].staged : m.name \in names
  <1>0. /\ skillsTurns[t] \in SkillTurns /\ skillsTurns[t].at = "scan"
        /\ skillsTurns[t].left # {} /\ SkillShapes
        /\ UNCHANGED <<skillsDisk, skillsCatalog, skillsOvertaken>>
    BY DEF SkillsInv, SkillShapes, SkillDisks, Skills!Read
  <1>1. e \in skillsTurns[t].left
    <2>1. skillsTurns[t].left \in SUBSET Nat
      BY <1>0, SkillsAssumption DEF SkillTurns, Skills!Entries
    <2> QED BY <1>0, <2>1, LeastExists
  <1>2. e \in Skills!Entries /\ file \in SkillFiles \cup {None}
    BY <1>0, <1>1 DEF SkillTurns, SkillShapes, SkillDisks
  <1>5. \A n \in names : n = file.text.name
    OBVIOUS
  <1> HIDE DEF e
  <1>3. CASE taken
    <2> DEFINE r == [skillsTurns[t] EXCEPT !.at = "refused", !.left = {}, !.staged = {},
                                     !.loaded = {}, !.scanned = {}]
    <2>1. r \in SkillTurns /\ r.at = "refused" /\ r.crossed = skillsTurns[t].crossed
      BY <1>0 DEF SkillTurns
    <2>2. skillsTurns' = [skillsTurns EXCEPT ![t] = r]
      BY <1>0, <1>3 DEF Skills!Read, e
    <2> HIDE DEF r
    <2>3. skillsTurns'[t] = r
      BY <1>0, <2>2 DEF SkillShapes, SkillDisks
    <2>4. ASSUME ~skillsOvertaken PROVE TurnIsSound(t)' /\ CatalogIsSound'
      <3>1. CatalogIsSound /\ TurnIsSound(t)
        BY <2>4 DEF SkillsInv
      <3>2. skillsTurns[t].crossed
        <4>1. SUFFICES ASSUME ~skillsTurns[t].crossed PROVE FALSE
          BY <1>0 DEF SkillTurns
        <4>2. PICK m \in skillsTurns[t].staged : m.name = file.text.name
          BY <1>3, <1>5
        <4>3. /\ ~Skills!Ambiguous(skillsDisk) /\ m \in TextsOf(Scanned(t)) /\ e \in Listed
          BY <1>0, <1>1, <3>1, <4>1, <4>2 DEF TurnIsSound
        <4>4. PICK d \in Listed \ skillsTurns[t].left : m = skillsDisk.files[d].text
          BY <4>3 DEF TextsOf, Scanned
        <4>5. d = e
          BY <1>0, <4>2, <4>3, <4>4, DistinctNames
        <4> QED BY <1>1, <4>4, <4>5
      <3>3. TurnIsSound(t)'
        BY <2>1, <2>3, <3>2 DEF TurnIsSound, Publishing
      <3>4. CatalogIsSound'
        BY <1>0, <2>1, <2>2, <2>3, <3>1, CatalogStays DEF Publishing
      <3> QED BY <3>3, <3>4
    <2> QED BY <1>0, <2>1, <2>2, <2>4, SkillsMove DEF SkillShapes, SkillDisks
  <1>4. CASE ~taken
    <2> DEFINE r == [skillsTurns[t] EXCEPT !.left = @ \ {e}, !.staged = @ \cup new,
                                           !.loaded = @ \cup names]
    <2>0. new \in SUBSET SkillManifests /\ names \in SUBSET SkillNames
      BY <1>2 DEF SkillFiles, SkillNames
    <2>1. skillsTurns' = [skillsTurns EXCEPT ![t] = r]
      BY <1>0, <1>4 DEF Skills!Read, e
    <2> HIDE DEF new, names
    <2>2. /\ r \in SkillTurns /\ r.at = "scan" /\ r.crossed = skillsTurns[t].crossed
          /\ r.left = skillsTurns[t].left \ {e} /\ r.staged = skillsTurns[t].staged \cup new
          /\ r.loaded = skillsTurns[t].loaded \cup names
          /\ r.since = skillsTurns[t].since /\ r.scanned = skillsTurns[t].scanned
      BY <1>0, <2>0 DEF SkillTurns
    <2> HIDE DEF r
    <2>3. skillsTurns'[t] = r
      BY <1>0, <2>1 DEF SkillShapes, SkillDisks
    <2>4. ASSUME ~skillsOvertaken PROVE TurnIsSound(t)' /\ CatalogIsSound'
      <3>1. CatalogIsSound /\ TurnIsSound(t)
        BY <2>4 DEF SkillsInv
      <3>2. /\ e \in Listed /\ skillsTurns[t].left \subseteq Listed
            /\ new = {file.text} /\ names = {file.text.name}
        BY <1>0, <1>1, <3>1 DEF TurnIsSound, Skills!Present, Listed, new, names
      <3>3. Scanned(t)' = Scanned(t) \cup {e}
        BY <1>0, <1>1, <2>2, <2>3, <3>2 DEF Scanned, Skills!Present, Listed
      <3>4. TextsOf(Scanned(t))' = TextsOf(Scanned(t)) \cup new
        BY <1>0, <3>2, <3>3 DEF TextsOf
      <3>5. /\ Written' = Written /\ Listed' = Listed
            /\ Skills!Ambiguous(skillsDisk)' = Skills!Ambiguous(skillsDisk) /\ new \subseteq Written
        BY <1>0, <3>2 DEF Skills!Texts, Written, Skills!Present, Listed, Skills!Ambiguous
      <3>6. {m.name : m \in TextsOf(Scanned(t)) \cup new}
                = {m.name : m \in TextsOf(Scanned(t))} \cup names
        BY <3>2
      <3>7. TurnIsSound(t)'
        <4>1. /\ Written \in skillsTurns[t].since
              /\ skillsTurns[t].staged \subseteq Written
              /\ TextsOf(Scanned(t)) \subseteq skillsTurns[t].staged
              /\ skillsTurns[t].loaded = {m.name : m \in TextsOf(Scanned(t))}
              /\ ~skillsTurns[t].crossed =>
                      /\ ~Skills!Ambiguous(skillsDisk)
                      /\ skillsTurns[t].staged \subseteq TextsOf(Scanned(t))
              /\ skillsTurns[t].scanned = Listed
          BY <1>0, <3>1 DEF TurnIsSound
        <4>2. /\ r.left \subseteq Listed
              /\ r.staged \subseteq Written
              /\ TextsOf(Scanned(t))' \subseteq r.staged
              /\ r.loaded = {m.name : m \in TextsOf(Scanned(t))'}
              /\ ~r.crossed => ~Skills!Ambiguous(skillsDisk) /\ r.staged \subseteq TextsOf(Scanned(t))'
          BY <2>2, <3>2, <3>4, <3>5, <3>6, <4>1
        <4> QED BY <2>2, <2>3, <3>5, <4>1, <4>2 DEF TurnIsSound, Publishing
      <3>8. CatalogIsSound'
        BY <1>0, <2>1, <2>2, <2>3, <3>1, CatalogStays DEF Publishing
      <3> QED BY <3>7, <3>8
    <2> QED BY <1>0, <2>1, <2>2, <2>4, SkillsMove DEF SkillShapes, SkillDisks
  <1> QED BY <1>3, <1>4

(* A turn that goes on publishing leaves the registry sound, if what it    *)
(* publishes is what is on disk.                                           *)
LEMMA PublishingIsSound ==
    ASSUME NEW t \in Threads, skillsTurns'[t].at \in {"keys", "paths", "signature"},
           skillsCatalog'.signature = skillsCatalog.signature, UNCHANGED skillsDisk, CatalogIsSound,
           \/ skillsTurns'[t].at = "keys"
           \/ \A m \in skillsCatalog'.skills : m.name \in skillsCatalog'.keys
    PROVE  CatalogIsSound'
  <1>1. ~(\A u \in Threads : ~Publishing(u))'
    BY DEF Publishing
  <1>2. Listed' = Listed
    BY DEF Skills!Present, Listed
  <1> QED BY <1>1, <1>2 DEF CatalogIsSound

(* The skills are replaced.                                                *)
LEMMA PublishSkillsKeeps ==
    ASSUME SkillsInv, NEW t \in Threads, Skills!PublishSkills(t)
    PROVE  SkillsInv'
  <1> DEFINE r == [skillsTurns[t] EXCEPT !.at = "keys", !.staged = {}]
  <1>0. /\ skillsTurns[t] \in SkillTurns /\ skillsTurns[t].at = "scan"
        /\ skillsTurns[t].left = {} /\ SkillShapes
        /\ skillsCatalog \in Catalogs /\ UNCHANGED <<skillsDisk, skillsOvertaken>>
        /\ skillsCatalog.signature # None => skillsCatalog.signature.listed <= skillsDisk.edits
    BY DEF SkillsInv, SkillShapes, SkillDisks, Skills!PublishSkills
  <1>1. /\ r \in SkillTurns /\ r.at = "keys" /\ r.since = skillsTurns[t].since
        /\ r.loaded = skillsTurns[t].loaded /\ r.scanned = skillsTurns[t].scanned
    BY <1>0 DEF SkillTurns
  <1>2. skillsTurns' = [skillsTurns EXCEPT ![t] = r] /\ skillsTurns'[t] = r
    BY <1>0 DEF Skills!PublishSkills, SkillShapes, SkillDisks
  <1> HIDE DEF r
  <1>3. /\ skillsCatalog' \in Catalogs /\ skillsCatalog'.skills = skillsTurns[t].staged
        /\ skillsCatalog'.keys = skillsCatalog.keys /\ skillsCatalog'.tracked = skillsCatalog.tracked
        /\ skillsCatalog'.signature = skillsCatalog.signature
    BY <1>0 DEF Skills!PublishSkills, Catalogs, SkillSignatures, SkillTurns
  <1>4. ASSUME ~skillsOvertaken
        PROVE  skillsCatalog'.skills = Written /\ TurnIsSound(t)' /\ CatalogIsSound'
    <2>1. CatalogIsSound /\ TurnIsSound(t) /\ Scanned(t) = Listed
      BY <1>0, <1>4 DEF SkillsInv, Scanned
    <2>2. skillsTurns[t].staged = Written /\ skillsTurns[t].loaded = {m.name : m \in Written}
      BY <1>0, <2>1, SkillTexts DEF TurnIsSound
    <2>3. Written' = Written /\ Listed' = Listed
      BY <1>0 DEF Skills!Texts, Written, Skills!Present, Listed
    <2>4. TurnIsSound(t)'
      BY <1>0, <1>1, <1>2, <1>3, <2>1, <2>2, <2>3 DEF TurnIsSound, Publishing
    <2>5. CatalogIsSound'
      BY <1>0, <1>1, <1>2, <1>3, <2>1, PublishingIsSound
    <2> QED BY <1>3, <2>2, <2>4, <2>5
  <1> QED BY <1>0, <1>1, <1>2, <1>3, <1>4, SkillsMove

(* The keys are replaced.                                                  *)
LEMMA PublishKeysKeeps ==
    ASSUME SkillsInv, NEW t \in Threads, Skills!PublishKeys(t)
    PROVE  SkillsInv'
  <1> DEFINE r == [skillsTurns[t] EXCEPT !.at = "paths", !.loaded = {}]
  <1>0. /\ skillsTurns[t] \in SkillTurns /\ skillsTurns[t].at = "keys" /\ SkillShapes
        /\ skillsCatalog \in Catalogs /\ UNCHANGED <<skillsDisk, skillsOvertaken>>
        /\ skillsCatalog.signature # None => skillsCatalog.signature.listed <= skillsDisk.edits
    BY DEF SkillsInv, SkillShapes, SkillDisks, Skills!PublishKeys
  <1>1. /\ r \in SkillTurns /\ r.at = "paths" /\ r.since = skillsTurns[t].since
        /\ r.scanned = skillsTurns[t].scanned
    BY <1>0 DEF SkillTurns
  <1>2. skillsTurns' = [skillsTurns EXCEPT ![t] = r] /\ skillsTurns'[t] = r
    BY <1>0 DEF Skills!PublishKeys, SkillShapes, SkillDisks
  <1> HIDE DEF r
  <1>3. /\ skillsCatalog' \in Catalogs /\ skillsCatalog'.skills = skillsCatalog.skills
        /\ skillsCatalog'.keys = skillsTurns[t].loaded /\ skillsCatalog'.tracked = skillsCatalog.tracked
        /\ skillsCatalog'.signature = skillsCatalog.signature
    BY <1>0 DEF Skills!PublishKeys, Catalogs, SkillSignatures, SkillTurns
  <1>4. ASSUME ~skillsOvertaken PROVE TurnIsSound(t)' /\ CatalogIsSound'
    <2>1. CatalogIsSound /\ TurnIsSound(t)
      BY <1>4 DEF SkillsInv
    <2>2. skillsCatalog.skills = Written /\ skillsTurns[t].loaded = {m.name : m \in Written}
      BY <1>0, <2>1 DEF TurnIsSound, Publishing
    <2>3. Written' = Written /\ Listed' = Listed
      BY <1>0 DEF Skills!Texts, Written, Skills!Present, Listed
    <2>4. TurnIsSound(t)'
      BY <1>0, <1>1, <1>2, <1>3, <2>1, <2>2, <2>3 DEF TurnIsSound, Publishing
    <2>5. CatalogIsSound'
      BY <1>0, <1>1, <1>2, <1>3, <2>1, <2>2, PublishingIsSound
    <2> QED BY <2>4, <2>5
  <1> QED BY <1>0, <1>1, <1>2, <1>3, <1>4, SkillsMove

(* The tracked entries are replaced.                                       *)
LEMMA PublishPathsKeeps ==
    ASSUME SkillsInv, NEW t \in Threads, Skills!PublishPaths(t)
    PROVE  SkillsInv'
  <1> DEFINE r == [skillsTurns[t] EXCEPT !.at = "signature", !.scanned = {}]
  <1>0. /\ skillsTurns[t] \in SkillTurns /\ skillsTurns[t].at = "paths" /\ SkillShapes
        /\ skillsCatalog \in Catalogs /\ UNCHANGED <<skillsDisk, skillsOvertaken>>
        /\ skillsCatalog.signature # None => skillsCatalog.signature.listed <= skillsDisk.edits
    BY DEF SkillsInv, SkillShapes, SkillDisks, Skills!PublishPaths
  <1>1. r \in SkillTurns /\ r.at = "signature" /\ r.since = skillsTurns[t].since
    BY <1>0 DEF SkillTurns
  <1>2. skillsTurns' = [skillsTurns EXCEPT ![t] = r] /\ skillsTurns'[t] = r
    BY <1>0 DEF Skills!PublishPaths, SkillShapes, SkillDisks
  <1> HIDE DEF r
  <1>3. /\ skillsCatalog' \in Catalogs /\ skillsCatalog'.skills = skillsCatalog.skills
        /\ skillsCatalog'.keys = skillsCatalog.keys /\ skillsCatalog'.tracked = skillsTurns[t].scanned
        /\ skillsCatalog'.signature = skillsCatalog.signature
    BY <1>0 DEF Skills!PublishPaths, Catalogs, SkillSignatures, SkillTurns
  <1>4. ASSUME ~skillsOvertaken
        PROVE  skillsCatalog'.tracked = Listed /\ TurnIsSound(t)' /\ CatalogIsSound'
    <2>1. CatalogIsSound /\ TurnIsSound(t)
      BY <1>4 DEF SkillsInv
    <2>2. skillsCatalog.skills = Written /\ skillsTurns[t].scanned = Listed
      BY <1>0, <2>1 DEF TurnIsSound, Publishing
    <2>3. Written' = Written /\ Listed' = Listed
      BY <1>0 DEF Skills!Texts, Written, Skills!Present, Listed
    <2>4. TurnIsSound(t)'
      BY <1>0, <1>1, <1>2, <1>3, <2>1, <2>2, <2>3 DEF TurnIsSound, Publishing
    <2>5. \A u \in Threads : skillsTurns[u].at = "keys" => skillsTurns'[u].at = "keys"
      BY <1>0, <1>2 DEF SkillShapes, SkillDisks
    <2>6. ~(\A u \in Threads : ~Publishing(u))'
      BY <1>1, <1>2 DEF Publishing
    <2>7. CatalogIsSound'
      BY <1>3, <2>1, <2>3, <2>5, <2>6, <1>0 DEF CatalogIsSound
    <2> QED BY <1>3, <2>2, <2>4, <2>7
  <1> QED BY <1>0, <1>1, <1>2, <1>3, <1>4, SkillsMove

(* The signature is taken.                                                 *)
LEMMA SignKeeps ==
    ASSUME SkillsInv, NEW t \in Threads, Skills!Sign(t)
    PROVE  SkillsInv'
  <1> DEFINE r == [skillsTurns[t] EXCEPT !.at = "select"]
             s == Skills!Signature(skillsCatalog.tracked)
  <1>0. /\ skillsTurns[t] \in SkillTurns /\ skillsTurns[t].at = "signature" /\ SkillShapes
        /\ skillsCatalog \in Catalogs /\ UNCHANGED <<skillsDisk, skillsOvertaken>>
        /\ skillsDisk.listed \in Nat /\ skillsDisk.listed <= skillsDisk.edits
        /\ skillsDisk.files \in [Skills!Entries -> SkillFiles \cup {None}]
    BY DEF SkillsInv, SkillShapes, SkillDisks, Skills!Sign
  <1>1. r \in SkillTurns /\ r.at = "select" /\ r.since = skillsTurns[t].since
    BY <1>0 DEF SkillTurns
  <1>2. skillsTurns' = [skillsTurns EXCEPT ![t] = r] /\ skillsTurns'[t] = r
    BY <1>0 DEF Skills!Sign, SkillShapes, SkillDisks
  <1> HIDE DEF r
  <1>3. /\ s.listed = skillsDisk.listed
        /\ s.states = [e \in skillsCatalog.tracked |-> skillsDisk.files[e]]
        /\ s \in SkillSignatures
    <2> DEFINE g == [e \in skillsCatalog.tracked |-> skillsDisk.files[e]]
    <2>1. skillsCatalog.tracked \in SUBSET Skills!Entries
      BY <1>0 DEF Catalogs, SkillSignatures
    <2>2. g \in [skillsCatalog.tracked -> SkillFiles \cup {None}]
      BY <1>0, <2>1
    <2>3. g \in UNION {[S -> SkillFiles \cup {None}] : S \in SUBSET Skills!Entries}
      BY <2>1, <2>2
    <2>4. s = [listed |-> skillsDisk.listed, states |-> g]
      BY DEF Skills!Signature
    <2> HIDE DEF g, s
    <2>5. /\ s.listed = skillsDisk.listed /\ s.states = g
          /\ s \in SkillSignatures
      BY <1>0, <2>3, <2>4 DEF SkillSignatures
    <2> QED BY <2>5 DEF g
  <1>4. skillsCatalog' = [skillsCatalog EXCEPT !.signature = s]
    BY DEF Skills!Sign
  <1> HIDE DEF s
  <1>5. /\ skillsCatalog' \in Catalogs /\ skillsCatalog'.skills = skillsCatalog.skills
        /\ skillsCatalog'.keys = skillsCatalog.keys /\ skillsCatalog'.tracked = skillsCatalog.tracked
        /\ skillsCatalog'.signature = s
    BY <1>0, <1>3, <1>4 DEF Catalogs, SkillSignatures
  <1>6. ASSUME ~skillsOvertaken PROVE TurnIsSound(t)' /\ CatalogIsSound'
    <2>1. CatalogIsSound /\ TurnIsSound(t)
      BY <1>6 DEF SkillsInv
    <2>2. skillsCatalog.skills = Written /\ skillsCatalog.tracked = Listed
      BY <1>0, <2>1 DEF TurnIsSound, Publishing
    <2>3. Written' = Written /\ Listed' = Listed
      BY <1>0 DEF Skills!Texts, Written, Skills!Present, Listed
    <2>4. TurnIsSound(t)'
      BY <1>0, <1>1, <1>2, <1>5, <2>1, <2>2, <2>3 DEF TurnIsSound, Publishing
    <2>5. \A u \in Threads : skillsTurns[u].at = "keys" => skillsTurns'[u].at = "keys"
      BY <1>0, <1>2 DEF SkillShapes, SkillDisks
    <2>6. DOMAIN s.states = Listed /\ \A e \in Listed : s.states[e] = skillsDisk.files[e]
      BY <1>3, <2>2
    <2>7. skillsCatalog.skills = {s.states[e].text : e \in DOMAIN s.states}
      BY <2>2, <2>6 DEF Skills!Texts, Written, Listed, Skills!Present
    <2>8. CatalogIsSound'
      BY <1>5, <2>1, <2>3, <2>5, <2>6, <2>7 DEF CatalogIsSound
    <2> QED BY <2>4, <2>8
  <1> QED BY <1>0, <1>1, <1>2, <1>3, <1>5, <1>6, SkillsMove

(* The skills are picked, and the turn goes on.                            *)
LEMMA SelectKeeps ==
    ASSUME SkillsInv, NEW t \in Threads, Skills!Select(t) \/ Skills!Leave(t)
    PROVE  SkillsInv'
  <1>0. /\ skillsTurns[t] \in SkillTurns /\ SkillShapes /\ skillsCatalog \in Catalogs
        /\ UNCHANGED <<skillsDisk, skillsCatalog, skillsOvertaken>> /\ ~Publishing(t)
        /\ skillsCatalog.signature # None => skillsCatalog.signature.listed <= skillsDisk.edits
    BY DEF SkillsInv, SkillShapes, SkillDisks, Skills!Select, Skills!Leave, Publishing
  <1>1. CASE Skills!Select(t)
    <2> DEFINE p == Skills!Candidates(skillsCatalog.skills)
               r == [skillsTurns[t] EXCEPT !.at = "done", !.picked = p]
    <2>0. p \in SUBSET SkillNames
      BY <1>0, SkillTexts DEF Catalogs, SkillSignatures
    <2>1. skillsTurns' = [skillsTurns EXCEPT ![t] = r] /\ skillsTurns'[t] = r
      BY <1>0, <1>1 DEF Skills!Select, SkillShapes, SkillDisks
    <2> HIDE DEF p
    <2>2. r \in SkillTurns /\ r.at = "done" /\ r.since = skillsTurns[t].since /\ r.picked = p
      BY <1>0, <2>0 DEF SkillTurns
    <2> HIDE DEF r
    <2>3. ASSUME ~skillsOvertaken PROVE TurnIsSound(t)' /\ CatalogIsSound'
      <3>1. CatalogIsSound /\ skillsCatalog.skills \in skillsTurns[t].since
        BY <1>1, <2>3 DEF SkillsInv, TurnIsSound, Skills!Select
      <3>2. TurnIsSound(t)'
        BY <2>1, <2>2, <3>1 DEF TurnIsSound, Publishing, p
      <3> QED BY <1>0, <2>1, <2>2, <3>1, <3>2, CatalogStays DEF Publishing
    <2> QED BY <1>0, <2>1, <2>2, <2>3, SkillsMove
  <1>2. CASE Skills!Leave(t)
    <2>1. Skills!Idle \in SkillTurns /\ Skills!Idle.at = "idle"
      BY DEF Skills!Idle, SkillTurns
    <2>2. skillsTurns' = [skillsTurns EXCEPT ![t] = Skills!Idle] /\ skillsTurns'[t] = Skills!Idle
      BY <1>0, <1>2 DEF Skills!Leave, SkillShapes, SkillDisks
    <2>3. ASSUME ~skillsOvertaken PROVE TurnIsSound(t)' /\ CatalogIsSound'
      <3>1. CatalogIsSound
        BY <2>3 DEF SkillsInv
      <3>2. TurnIsSound(t)'
        BY <2>1, <2>2 DEF TurnIsSound, Publishing
      <3> QED BY <1>0, <2>1, <2>2, <3>1, <3>2, CatalogStays DEF Publishing
    <2> QED BY <1>0, <2>1, <2>2, <2>3, SkillsMove
  <1> QED BY <1>1, <1>2

(* When the listing changed last, after a change of a file.                *)
ListedAfter(new, old) ==
    IF None \in {new, old} THEN skillsDisk.edits + 1 ELSE skillsDisk.listed

(* A file changes.  Unless it overtakes a discovery, every turn is at      *)
(* rest or about to pick.                                                  *)
LEMMA EditKeeps ==
    ASSUME SkillsInv, NEW e \in Skills!Entries, Skills!Edit(e)
    PROVE  SkillsInv'
  <1> DEFINE more(t) == [skillsTurns[t] EXCEPT !.since = @ \cup {Skills!Texts(skillsDisk')}]
             rests(t) == skillsTurns[t].at \in {"idle", "done", "refused"}
  <1>0. SkillShapes /\ UNCHANGED skillsCatalog
    BY DEF SkillsInv, Skills!Edit
  <1>1. PICK text \in SkillManifests \cup {None}, file \in SkillFiles \cup {None} :
          /\ text # None => file # None
          /\ text = None => file = None
          /\ ~(text = None /\ skillsDisk.files[e] = None)
          /\ skillsDisk' = [edits |-> skillsDisk.edits + 1,
                      listed |-> ListedAfter(text, skillsDisk.files[e]),
                      files |-> [skillsDisk.files EXCEPT ![e] = file]]
    <2>1. PICK text \in SkillManifests \cup {None} :
            /\ ~(text = None /\ skillsDisk.files[e] = None)
            /\ skillsDisk' = [edits |-> skillsDisk.edits + 1,
                        listed |-> ListedAfter(text, skillsDisk.files[e]),
                        files |-> [skillsDisk.files EXCEPT ![e] =
                            IF text = None THEN None ELSE [text |-> text, stamp |-> skillsDisk.edits + 1]]]
      BY DEF Skills!Edit, Skills!Edits, ListedAfter
    <2> DEFINE file == IF text = None THEN None ELSE [text |-> text, stamp |-> skillsDisk.edits + 1]
    <2>2. skillsDisk.edits + 1 \in 1 .. MaxEdits
      BY <1>0, SkillsAssumption DEF Skills!Edit, Skills!Edits, SkillShapes, SkillDisks
    <2>3. /\ file \in SkillFiles \cup {None}
          /\ text # None => file # None
          /\ text = None => file = None
      BY <2>2, SkillsAssumption DEF SkillFiles
    <2> QED BY <2>1, <2>3
  <1>2. /\ skillsDisk' \in SkillDisks
        /\ skillsDisk'.listed <= skillsDisk'.edits /\ skillsDisk.edits < skillsDisk'.edits
        /\ skillsDisk'.edits \in Nat /\ skillsDisk.edits \in Nat
        /\ skillsDisk'.listed \in {skillsDisk.listed, skillsDisk'.edits}
    BY <1>0, <1>1 DEF SkillShapes, SkillDisks, ListedAfter
  <1>3. Skills!Texts(skillsDisk') \in SUBSET SkillManifests
    <2>1. \A x \in Skills!Present(skillsDisk') : skillsDisk'.files[x] \in SkillFiles
      BY <1>2 DEF Skills!Present, SkillDisks
    <2> QED BY <2>1 DEF Skills!Texts, Written, SkillFiles
  <1>4. \A t \in Threads : /\ more(t) \in SkillTurns /\ more(t).at = skillsTurns[t].at
                           /\ more(t).since = skillsTurns[t].since \cup {Skills!Texts(skillsDisk')}
    BY <1>0, <1>3 DEF SkillShapes, SkillDisks, SkillTurns
  <1>5. skillsTurns' = [t \in Threads |-> IF rests(t) THEN skillsTurns[t] ELSE more(t)]
    BY DEF Skills!Edit
  <1> HIDE DEF more
  <1>6. \A t \in Threads : /\ skillsTurns'[t].at = skillsTurns[t].at
                           /\ rests(t) => skillsTurns'[t] = skillsTurns[t]
                           /\ ~rests(t) => skillsTurns'[t].since =
                                              skillsTurns[t].since \cup {Skills!Texts(skillsDisk')}
    BY <1>4, <1>5
  <1>7. SkillShapes'
    <2>1. skillsTurns' \in [Threads -> SkillTurns]
      BY <1>0, <1>4, <1>5 DEF SkillShapes, SkillDisks
    <2>2. skillsOvertaken' \in BOOLEAN
      BY <1>0 DEF Skills!Edit, SkillShapes, SkillDisks, Skills!Discovering
    <2>3. skillsCatalog'.signature # None => skillsCatalog'.signature.listed <= skillsDisk'.edits
      BY <1>0, <1>2 DEF SkillShapes, SkillDisks, Catalogs, SkillSignatures
    <2> QED BY <1>0, <1>2, <2>1, <2>2, <2>3 DEF SkillShapes, SkillDisks
  <1>8. ASSUME ~skillsOvertaken' PROVE CatalogIsSound' /\ \A t \in Threads : TurnIsSound(t)'
    <2>1. /\ ~skillsOvertaken /\ CatalogIsSound /\ \A t \in Threads : TurnIsSound(t)
          /\ \A t \in Threads : skillsTurns[t].at \notin {"scan", "keys", "paths", "signature"}
      BY <1>8 DEF SkillsInv, Skills!Edit, Skills!Discovering
    <2>2. ASSUME NEW t \in Threads PROVE TurnIsSound(t)'
      BY <1>0, <1>6, <2>1 DEF TurnIsSound, Publishing, Written
    <2>3. \A t \in Threads : ~Publishing(t) /\ ~Publishing(t)'
      BY <1>6, <2>1 DEF Publishing
    <2>4. ASSUME skillsCatalog.signature # None, skillsCatalog.signature.listed = skillsDisk'.listed
          PROVE  DOMAIN skillsCatalog.signature.states = Listed'
      <3>1. skillsDisk'.listed # skillsDisk'.edits
        BY <1>0, <1>2, <2>4 DEF SkillShapes, SkillDisks, Catalogs, SkillSignatures
      <3>2. skillsDisk'.listed = skillsDisk.listed /\ text # None /\ skillsDisk.files[e] # None
        BY <1>1, <1>2, <3>1 DEF ListedAfter
      <3>3. Listed' = Listed
        BY <1>0, <1>1, <3>2 DEF Skills!Present, Listed, SkillShapes, SkillDisks
      <3> QED BY <2>1, <2>4, <3>2, <3>3 DEF CatalogIsSound
    <2>5. CatalogIsSound'
      BY <1>0, <1>6, <2>1, <2>3, <2>4 DEF CatalogIsSound
    <2> QED BY <2>2, <2>5
  <1> QED BY <1>7, <1>8 DEF SkillsInv

(* Every step keeps the invariant of the catalogue.                        *)
LEMMA SkillsSteps == SkillsInv /\ [Skills!Next]_Skills!vars => SkillsInv'
  <1>1. ASSUME SkillsInv, UNCHANGED Skills!vars PROVE SkillsInv'
    <2>1. UNCHANGED <<skillsDisk, skillsCatalog, skillsTurns, skillsOvertaken>>
      BY <1>1 DEF Skills!vars
    <2>2. SkillShapes' = SkillShapes
      BY <2>1 DEF SkillShapes, SkillDisks
    <2>3. /\ Written' = Written /\ Listed' = Listed
          /\ Skills!Ambiguous(skillsDisk)' = Skills!Ambiguous(skillsDisk)
      BY <2>1 DEF Skills!Texts, Written, Skills!Present, Listed, Skills!Ambiguous
    <2>4. \A t \in Threads : /\ Publishing(t)' = Publishing(t) /\ Scanned(t)' = Scanned(t)
                             /\ TextsOf(Scanned(t))' = TextsOf(Scanned(t))
      BY <2>1, <2>3 DEF Publishing, Scanned, TextsOf
    <2>5. \A t \in Threads : TurnIsSound(t) => TurnIsSound(t)'
      BY <2>1, <2>3, <2>4 DEF TurnIsSound
    <2>6. CatalogIsSound => CatalogIsSound'
      BY <2>1, <2>3, <2>4 DEF CatalogIsSound
    <2> QED BY <1>1, <2>1, <2>2, <2>5, <2>6 DEF SkillsInv
  <1> QED BY <1>1, AskKeeps, ReadKeeps, PublishSkillsKeeps, PublishKeysKeeps, PublishPathsKeeps,
             SignKeeps, SelectKeeps, EditKeeps DEF Skills!Next

-----------------------------------------------------------------------------
(* Quizzes that are generated slot by slot.                                *)

(* What is held against a question; one that awaits a reviewer was written. *)
Rejections ==
    {r \in [question : Questions \cup {None}, reviewer : BOOLEAN,
            kind : {"slot", "reviewer", "transient", "permanent"}] :
        r.reviewer => r.question \in Questions}

(* Certificates are about accepted questions.                              *)
Certified(a, c) == \A s \in DOMAIN c : s \in DOMAIN a /\ c[s].question = a[s]

(* A slot is accepted or pending.                                          *)
Filled(a, p) ==
    /\ a \in [DOMAIN a -> Questions]
    /\ p \in [DOMAIN p -> Rejections]
    /\ DOMAIN a \cup DOMAIN p = Slots
    /\ DOMAIN a \cap DOMAIN p = {}

(* The invariant of a quiz: what is complete at the end of the loop, the   *)
(* student has not met.                                                    *)
QuizInv ==
    /\ quizPc \in {"idle", "drafting", "sift", "decide", "finish", "failed", "generated",
               "published", "ended"}
    /\ quizStrict \in BOOLEAN
    /\ quizBatch = [required |-> quizBatch.required, certificate |-> quizBatch.certificate,
                    failure |-> quizBatch.failure]
    /\ quizBatch.required \in BOOLEAN
    /\ Certified(quizAccepted, quizCertificates)
    /\ quizPc \in {"idle", "drafting"} =>
          /\ quizAccepted = Quiz!Nothing /\ quizCertificates = Quiz!Nothing
          /\ quizPending = Quiz!Nothing
    /\ quizPc \notin {"idle", "drafting", "ended"} => Filled(quizAccepted, quizPending)
    /\ quizPc \in {"finish", "generated", "published"} /\ Quiz!Complete =>
          Quiz!Range(quizAccepted) \cap quizExposure = {}
    /\ quizPc \in {"generated", "published"} =>
          /\ Quiz!Complete /\ Quiz!IsInjective(quizAccepted)
          /\ quizStrict => DOMAIN quizCertificates = Slots

(* What follows for a published quiz.                                      *)
LEMMA QuizInvSuffices == QuizInv => Quiz!PublishedQuizIsReviewed
  BY DEF QuizInv, Quiz!PublishedQuizIsReviewed, Filled, Certified, Quiz!Complete

(* A function without arguments is the empty one.                          *)
LEMMA NothingIsEmpty ==
    /\ DOMAIN Quiz!Nothing = {}
    /\ \A R : Quiz!Nothing \in [{} -> R]
    /\ \A R : \A f \in [{} -> R] : f = Quiz!Nothing
  <1>1. DOMAIN Quiz!Nothing = {}
    BY DEF Quiz!Nothing
  <1>2. ASSUME NEW R, NEW f \in [{} -> R] PROVE f = Quiz!Nothing
    <2>1. f \in [1 .. 0 -> R]
      OBVIOUS
    <2>2. f \in Seq(R) /\ Len(f) = 0
      BY <2>1, SeqDef, LenProperties
    <2> QED BY <2>2, EmptySeq DEF Quiz!Nothing
  <1>3. ASSUME NEW R PROVE Quiz!Nothing \in [{} -> R]
    <2> DEFINE g == [x \in {} |-> CHOOSE r \in R : TRUE]
    <2>1. g \in [{} -> R]
      OBVIOUS
    <2> QED BY <1>2, <2>1
  <1> QED BY <1>1, <1>2, <1>3

(* At the start there is nothing.                                          *)
LEMMA QuizStarts == Quiz!Init => QuizInv
  BY NothingIsEmpty DEF Quiz!Init, QuizInv, Certified, Quiz!NoBatch

(* What a review of the questions of some slots, or their repair, leaves.  *)
Judged(v, S) ==
    /\ DOMAIN v.accepted \subseteq S
    /\ v.accepted \in [DOMAIN v.accepted -> Questions]
    /\ v.rejected \in [S \ DOMAIN v.accepted -> Rejections]
    /\ DOMAIN v.certificates = DOMAIN v.accepted
    /\ Certified(v.accepted, v.certificates)

(* A verdict judges each of the questions it was asked about; a judge that *)
(* is down rejects them all.                                               *)
LEMMA VerdictsJudge ==
    ASSUME NEW S, NEW asked \in [S -> Questions], NEW v \in Quiz!Verdicts(asked)
    PROVE  /\ Judged(v, S)
           /\ v.down # None => DOMAIN v.rejected = S
  <1>1. ASSUME NEW kind \in {"reviewer", "transient", "permanent"}, v = Quiz!Outage(asked, kind)
        PROVE  Judged(v, S) /\ DOMAIN v.rejected = S
    <2>1. \A s \in S : Quiz!Rejection(asked[s], TRUE, kind) \in Rejections
      BY DEF Quiz!Rejection, Rejections
    <2>2. v.accepted = Quiz!Nothing /\ v.certificates = Quiz!Nothing
          /\ v.rejected = [s \in S |-> Quiz!Rejection(asked[s], TRUE, kind)]
      BY <1>1 DEF Quiz!Outage
    <2>3. v.rejected \in [S -> Rejections] /\ DOMAIN v.rejected = S
      BY <2>1, <2>2
    <2>4. S \ DOMAIN v.accepted = S /\ v.accepted \in [{} -> Questions]
      BY <2>2, NothingIsEmpty
    <2> QED BY <2>2, <2>3, <2>4, NothingIsEmpty DEF Judged, Certified
  <1>2. ASSUME NEW passed \in SUBSET DOMAIN asked, NEW proof \in [passed -> SUBSET QuizMembers],
               v = Quiz!Judgment(asked, passed, proof)
        PROVE  Judged(v, S) /\ v.down = None
    <2>1. \A s \in S : Quiz!Rejection(asked[s], FALSE, "slot") \in Rejections
      BY DEF Quiz!Rejection, Rejections
    <2>2. /\ v.accepted = [s \in passed |-> asked[s]] /\ v.down = None
          /\ v.rejected = [s \in S \ passed |-> Quiz!Rejection(asked[s], FALSE, "slot")]
          /\ DOMAIN v.certificates = passed
          /\ \A s \in passed : v.certificates[s].question = asked[s]
      BY <1>2 DEF Quiz!Judgment, Quiz!Restrict
    <2>3. passed \subseteq S /\ v.accepted \in [passed -> Questions]
      BY <2>2
    <2>4. v.rejected \in [S \ passed -> Rejections]
      BY <2>1, <2>2
    <2> QED BY <2>2, <2>3, <2>4 DEF Judged, Certified
  <1> DEFINE Judgments(passed) ==
               {Quiz!Judgment(asked, passed, proof) : proof \in [passed -> SUBSET QuizMembers]}
  <1>3. \/ \E kind \in {"reviewer", "transient", "permanent"} : v = Quiz!Outage(asked, kind)
        \/ \E passed \in SUBSET DOMAIN asked : v \in Judgments(passed)
    <2>1. \/ v \in {Quiz!Outage(asked, kind) : kind \in {"reviewer", "transient", "permanent"}}
          \/ v \in UNION {Judgments(passed) : passed \in SUBSET DOMAIN asked}
      BY DEF Quiz!Verdicts
    <2> HIDE DEF Judgments
    <2> QED BY <2>1
  <1> QED BY <1>1, <1>2, <1>3

(* What passes the checks was written.                                     *)
LEMMA SoundIsWritten ==
    ASSUME NEW written, NEW taken, NEW bad
    PROVE  Quiz!Sound(written, taken, bad) \subseteq DOMAIN written
  BY DEF Quiz!Sound

(* A repair treats the slots that may be repaired.                         *)
LEMMA RepairsJudge ==
    ASSUME Filled(quizAccepted, quizPending), NEW v \in Quiz!Repairs
    PROVE  /\ Judged(v, Quiz!Repairable)
           /\ v.rejected # Quiz!Nothing => DOMAIN v.rejected # {}
  <1>0. /\ Quiz!Repairable \subseteq DOMAIN quizPending
        /\ \A s \in Quiz!Repairable : quizPending[s] \in Rejections
    BY DEF Quiz!Repairable, Filled
  <1>1. \A s \in Quiz!Repairable : \A kind \in {"slot", "transient", "permanent"} :
          [quizPending[s] EXCEPT !.kind = kind] \in Rejections
    BY <1>0 DEF Rejections
  <1>2. ASSUME NEW kind \in {"slot", "transient", "permanent"}, v = Quiz!EditorFails(kind)
        PROVE  Judged(v, Quiz!Repairable)
    <2>1. /\ v.accepted = Quiz!Nothing /\ v.certificates = Quiz!Nothing
          /\ v.rejected \in [Quiz!Repairable -> Rejections]
      BY <1>1, <1>2 DEF Quiz!EditorFails
    <2>2. Quiz!Repairable \ DOMAIN v.accepted = Quiz!Repairable /\ v.accepted \in [{} -> Questions]
      BY <2>1, NothingIsEmpty
    <2> QED BY <2>1, <2>2, NothingIsEmpty DEF Judged, Certified
  <1>3. ASSUME NEW given \in SUBSET Quiz!Repairable, NEW written \in [given -> Questions],
               NEW bad \in SUBSET Quiz!Repairable,
               v \in Quiz!Reviewed(written, Quiz!Sound(written, Quiz!Range(quizAccepted), bad))
        PROVE  Judged(v, Quiz!Repairable)
    <2> DEFINE sound == Quiz!Sound(written, Quiz!Range(quizAccepted), bad)
               faulty == [s \in Quiz!Repairable \ sound |->
                            IF s \in DOMAIN written THEN Quiz!Rejection(written[s], FALSE, "slot")
                            ELSE [quizPending[s] EXCEPT !.kind = "slot"]]
    <2>1. sound \subseteq given
      BY SoundIsWritten
    <2>2. Quiz!Restrict(written, sound) \in [sound -> Questions]
      BY <2>1 DEF Quiz!Restrict
    <2>3. faulty \in [Quiz!Repairable \ sound -> Rejections]
      <3>1. \A s \in given : Quiz!Rejection(written[s], FALSE, "slot") \in Rejections
        BY DEF Quiz!Rejection, Rejections
      <3> QED BY <1>1, <3>1
    <2>4. PICK verdict \in Quiz!Verdicts(Quiz!Restrict(written, sound)) :
             v = [accepted |-> verdict.accepted, certificates |-> verdict.certificates,
                  rejected |-> Quiz!Onto(verdict.rejected, faulty)]
      BY <1>3 DEF Quiz!Reviewed
    <2> HIDE DEF sound, faulty
    <2>5. Judged(verdict, sound)
      BY <2>2, VerdictsJudge
    <2>6. /\ v.accepted = verdict.accepted /\ v.certificates = verdict.certificates
          /\ v.rejected = Quiz!Onto(verdict.rejected, faulty)
      BY <2>4
    <2>7. Quiz!Onto(verdict.rejected, faulty)
             \in [Quiz!Repairable \ DOMAIN verdict.accepted -> Rejections]
      BY <2>1, <2>3, <2>5 DEF Quiz!Onto, Judged
    <2> QED BY <2>1, <2>5, <2>6, <2>7 DEF Judged
  <1>4. Judged(v, Quiz!Repairable)
    <2> DEFINE Writings == UNION {[given -> Questions] : given \in SUBSET Quiz!Repairable}
               Results(written, bad) ==
                 Quiz!Reviewed(written, Quiz!Sound(written, Quiz!Range(quizAccepted), bad))
    <2>1. \/ v \in {Quiz!EditorFails(kind) : kind \in {"slot", "transient", "permanent"}}
          \/ v \in UNION {Results(written, bad) :
                            written \in Writings, bad \in SUBSET Quiz!Repairable}
      BY DEF Quiz!Repairs
    <2>2. CASE \E kind \in {"slot", "transient", "permanent"} : v = Quiz!EditorFails(kind)
      BY <1>2, <2>2
    <2>3. CASE v \in UNION {Results(written, bad) :
                            written \in Writings, bad \in SUBSET Quiz!Repairable}
      <3> HIDE DEF Writings, Results
      <3>1. PICK written \in Writings, bad \in SUBSET Quiz!Repairable : v \in Results(written, bad)
        BY <2>3
      <3>2. PICK given \in SUBSET Quiz!Repairable : written \in [given -> Questions]
        BY DEF Writings
      <3> QED BY <1>3, <3>1, <3>2 DEF Results
    <2> QED BY <2>1, <2>2, <2>3
  <1>5. v.rejected # Quiz!Nothing => DOMAIN v.rejected # {}
    BY <1>4, NothingIsEmpty DEF Judged
  <1> QED BY <1>4, <1>5

(* What was judged joins what was accepted and what is pending.            *)
LEMMA JudgedJoins ==
    ASSUME Filled(quizAccepted, quizPending), Certified(quizAccepted, quizCertificates),
           NEW S \in SUBSET DOMAIN quizPending, NEW v, Judged(v, S)
    PROVE  /\ Filled(Quiz!Onto(v.accepted, quizAccepted),
                     Quiz!Onto(v.rejected, Quiz!Drop(quizPending, S)))
           /\ Certified(Quiz!Onto(v.accepted, quizAccepted),
                        Quiz!Onto(v.certificates, quizCertificates))
           /\ DOMAIN v.rejected \subseteq DOMAIN Quiz!Onto(v.rejected, Quiz!Drop(quizPending, S))
  <1> DEFINE a == Quiz!Onto(v.accepted, quizAccepted)
             p == Quiz!Onto(v.rejected, Quiz!Drop(quizPending, S))
  <1>1. /\ DOMAIN a = DOMAIN v.accepted \cup DOMAIN quizAccepted
        /\ DOMAIN p = (S \ DOMAIN v.accepted) \cup (DOMAIN quizPending \ S)
    BY DEF Quiz!Onto, Quiz!Drop, Quiz!Restrict, Judged
  <1>2. a \in [DOMAIN a -> Questions]
    BY DEF Quiz!Onto, Judged, Filled
  <1>3. p \in [DOMAIN p -> Rejections]
    BY DEF Quiz!Onto, Quiz!Drop, Quiz!Restrict, Judged, Filled
  <1>4. DOMAIN a \cup DOMAIN p = Slots /\ DOMAIN a \cap DOMAIN p = {}
    BY <1>1 DEF Judged, Filled
  <1>5. Certified(a, Quiz!Onto(v.certificates, quizCertificates))
    BY DEF Quiz!Onto, Certified, Judged, Filled
  <1> QED BY <1>1, <1>2, <1>3, <1>4, <1>5 DEF Filled, Judged

(* What is incomplete is so whatever the certificates say.                 *)
LEMMA OpenIsIncomplete ==
    ASSUME Filled(quizAccepted, quizPending), Quiz!BatchIsOpen \/ quizPending # Quiz!Nothing
    PROVE  ~Quiz!Complete
  <1>1. Quiz!Composition(quizAccepted) # None
    BY QuizAssumption DEF Filled
  <1> QED BY <1>1 DEF Quiz!Complete, Quiz!BatchIsOpen

(* What falls out of the accepted questions becomes pending.               *)
LEMMA PendingAgain ==
    ASSUME Filled(quizAccepted, quizPending), Certified(quizAccepted, quizCertificates),
           NEW S \in SUBSET DOMAIN quizAccepted
    PROVE  /\ Filled(Quiz!Drop(quizAccepted, S),
                     Quiz!Onto([s \in S |-> Quiz!Rejection(quizAccepted[s], FALSE, "slot")],
                               quizPending))
           /\ Certified(Quiz!Drop(quizAccepted, S), Quiz!Drop(quizCertificates, S))
           /\ DOMAIN quizAccepted = Slots =>
                 Filled(Quiz!Drop(quizAccepted, S),
                        [s \in S |-> Quiz!Rejection(quizAccepted[s], FALSE, "slot")])
  <1> DEFINE a == Quiz!Drop(quizAccepted, S)
             r == [s \in S |-> Quiz!Rejection(quizAccepted[s], FALSE, "slot")]
             p == Quiz!Onto(r, quizPending)
  <1>1. r \in [S -> Rejections]
    BY DEF Quiz!Rejection, Rejections, Filled
  <1>2. DOMAIN a = DOMAIN quizAccepted \ S /\ a \in [DOMAIN a -> Questions]
    BY DEF Quiz!Drop, Quiz!Restrict, Filled
  <1>3. Certified(a, Quiz!Drop(quizCertificates, S))
    BY DEF Quiz!Drop, Quiz!Restrict, Certified
  <1> HIDE DEF r
  <1>4. DOMAIN p = S \cup DOMAIN quizPending /\ p \in [DOMAIN p -> Rejections]
    BY <1>1 DEF Quiz!Onto, Filled
  <1> HIDE DEF a, p
  <1>5. Filled(a, p)
    BY <1>2, <1>4 DEF Filled
  <1>6. DOMAIN quizAccepted = Slots => Filled(a, r)
    BY <1>1, <1>2 DEF Filled
  <1> QED BY <1>3, <1>5, <1>6 DEF a, p, r

(* The slot that leaves a gap holds a question.                            *)
LEMMA GapIsASlot ==
    ASSUME NEW a, NEW c
    PROVE  Quiz!CoverageGap(a, c) \subseteq DOMAIN a
  BY DEF Quiz!CoverageGap

(* A quiz that is filled from the bank.                                    *)
LEMMA ReuseKeeps == QuizInv /\ Quiz!Reuse => QuizInv'
  <1> SUFFICES ASSUME QuizInv, Quiz!Reuse PROVE QuizInv'
    OBVIOUS
  <1>0. PICK now \in SUBSET Questions, filled \in (SUBSET Slots) \ {{}}, several \in BOOLEAN :
       \E chosen \in [filled -> Questions \ now], proof \in [filled -> SUBSET QuizMembers] :
          LET reviews == [s \in filled |-> [question |-> chosen[s], supports |-> proof[s]]]
              gap == IF quizStrict /\ filled = Slots THEN Quiz!CoverageGap(chosen, reviews) ELSE {}
          IN  /\ Quiz!IsInjective(chosen)
              /\ filled # gap
              /\ quizExposure' = now
              /\ quizAccepted' = Quiz!Drop(chosen, gap)
              /\ quizCertificates' = Quiz!Drop(reviews, gap)
              /\ quizPending' = [s \in Slots \ (filled \ gap) |->
                    IF s \in gap THEN Quiz!Rejection(chosen[s], FALSE, "slot")
                    ELSE Quiz!Rejection(None, FALSE, "slot")]
              /\ quizBatch' = [Quiz!NoBatch EXCEPT !.required = several /\ quizStrict]
    BY DEF Quiz!Reuse
  <1>1. PICK chosen \in [filled -> Questions \ now], proof \in [filled -> SUBSET QuizMembers] :
          LET reviews == [s \in filled |-> [question |-> chosen[s], supports |-> proof[s]]]
              gap == IF quizStrict /\ filled = Slots THEN Quiz!CoverageGap(chosen, reviews) ELSE {}
          IN  /\ Quiz!IsInjective(chosen)
              /\ filled # gap
              /\ quizExposure' = now
              /\ quizAccepted' = Quiz!Drop(chosen, gap)
              /\ quizCertificates' = Quiz!Drop(reviews, gap)
              /\ quizPending' = [s \in Slots \ (filled \ gap) |->
                    IF s \in gap THEN Quiz!Rejection(chosen[s], FALSE, "slot")
                    ELSE Quiz!Rejection(None, FALSE, "slot")]
              /\ quizBatch' = [Quiz!NoBatch EXCEPT !.required = several /\ quizStrict]
    BY <1>0
  <1> DEFINE reviews == [s \in filled |-> [question |-> chosen[s], supports |-> proof[s]]]
             gap == IF quizStrict /\ filled = Slots THEN Quiz!CoverageGap(chosen, reviews) ELSE {}
  <1>2. gap \subseteq filled
    BY GapIsASlot
  <1>3. DOMAIN reviews = filled /\ \A s \in filled : reviews[s].question = chosen[s]
    OBVIOUS
  <1>4. /\ quizAccepted' = Quiz!Drop(chosen, gap) /\ quizCertificates' = Quiz!Drop(reviews, gap)
        /\ quizPending' = [s \in Slots \ (filled \ gap) |->
                    IF s \in gap THEN Quiz!Rejection(chosen[s], FALSE, "slot")
                    ELSE Quiz!Rejection(None, FALSE, "slot")]
        /\ quizBatch' = [Quiz!NoBatch EXCEPT !.required = several /\ quizStrict]
    BY <1>1
  <1> HIDE DEF gap, reviews
  <1>5. quizAccepted' \in [filled \ gap -> Questions] /\ DOMAIN quizAccepted' = filled \ gap
    BY <1>2, <1>4 DEF Quiz!Drop, Quiz!Restrict
  <1>6. quizPending' \in [Slots \ (filled \ gap) -> Rejections]
        /\ DOMAIN quizPending' = Slots \ (filled \ gap)
    <2>1. \A s \in gap : Quiz!Rejection(chosen[s], FALSE, "slot") \in Rejections
      BY <1>2 DEF Quiz!Rejection, Rejections
    <2>2. Quiz!Rejection(None, FALSE, "slot") \in Rejections
      BY DEF Quiz!Rejection, Rejections
    <2> QED BY <1>4, <2>1, <2>2
  <1>7. Certified(quizAccepted', quizCertificates')
    BY <1>2, <1>3, <1>4 DEF Certified, Quiz!Drop, Quiz!Restrict
  <1>8. Filled(quizAccepted', quizPending')
    BY <1>2, <1>5, <1>6 DEF Filled
  <1>9. quizBatch' = [required |-> several /\ quizStrict, certificate |-> None, failure |-> None]
    BY <1>4 DEF Quiz!NoBatch
  <1> QED BY <1>7, <1>8, <1>9 DEF QuizInv, Quiz!Reuse

(* Drafts, as the checks and the gates leave them.                         *)
LEMMA DraftedKeeps == QuizInv /\ Quiz!Drafted => QuizInv'
  <1> SUFFICES ASSUME QuizInv, Quiz!Drafted PROVE QuizInv'
    OBVIOUS
  <1>1. PICK n \in (IF quizStrict THEN 1 .. Quiz!Cardinality(Slots) ELSE {Quiz!Cardinality(Slots)}),
             bad \in SUBSET Slots :
       \E written \in [1 .. n -> Questions] :
          LET sound == Quiz!Sound(written, {}, bad)
              faulty == [s \in Slots \ sound |->
                           Quiz!Rejection(IF s <= n THEN written[s] ELSE None, FALSE, "slot")]
          IN  \/ /\ quizStrict
                 /\ \E verdict \in Quiz!Verdicts(Quiz!Restrict(written, sound)) :
                       /\ quizAccepted' = verdict.accepted
                       /\ quizCertificates' = verdict.certificates
                       /\ quizPending' = Quiz!Onto(verdict.rejected, faulty)
                 /\ quizPc' = "sift"
              \/ /\ ~quizStrict /\ sound = Slots
                 /\ quizAccepted' = written
                 /\ quizPc' = "sift"
                 /\ UNCHANGED <<quizCertificates, quizPending>>
              \/ /\ ~quizStrict /\ sound # Slots
                 /\ quizPc' = "ended"
                 /\ UNCHANGED <<quizAccepted, quizCertificates, quizPending>>
    BY DEF Quiz!Drafted
  <1>2. PICK written \in [1 .. n -> Questions] :
          LET sound == Quiz!Sound(written, {}, bad)
              faulty == [s \in Slots \ sound |->
                           Quiz!Rejection(IF s <= n THEN written[s] ELSE None, FALSE, "slot")]
          IN  \/ /\ quizStrict
                 /\ \E verdict \in Quiz!Verdicts(Quiz!Restrict(written, sound)) :
                       /\ quizAccepted' = verdict.accepted
                       /\ quizCertificates' = verdict.certificates
                       /\ quizPending' = Quiz!Onto(verdict.rejected, faulty)
                 /\ quizPc' = "sift"
              \/ /\ ~quizStrict /\ sound = Slots
                 /\ quizAccepted' = written
                 /\ quizPc' = "sift"
                 /\ UNCHANGED <<quizCertificates, quizPending>>
              \/ /\ ~quizStrict /\ sound # Slots
                 /\ quizPc' = "ended"
                 /\ UNCHANGED <<quizAccepted, quizCertificates, quizPending>>
    BY <1>1
  <1> DEFINE sound == Quiz!Sound(written, {}, bad)
             faulty == [s \in Slots \ sound |->
                          Quiz!Rejection(IF s <= n THEN written[s] ELSE None, FALSE, "slot")]
  <1>3. /\ n \in Nat /\ 1 .. n \subseteq Slots /\ sound \subseteq 1 .. n
        /\ ~quizStrict => 1 .. n = Slots
    <2>1. Quiz!Cardinality(Slots) = Cardinality(Slots)
      BY DEF Quiz!Cardinality, Cardinality
    <2>2. n \in Nat /\ n <= Cardinality(Slots) /\ (~quizStrict => n = Cardinality(Slots))
      BY <2>1, QuizAssumption
    <2> QED BY <2>2, QuizAssumption, SoundIsWritten
  <1>4. quizAccepted = Quiz!Nothing /\ quizCertificates = Quiz!Nothing /\ quizPending = Quiz!Nothing
        /\ UNCHANGED <<quizStrict, quizExposure, quizBatch>>
    BY DEF Quiz!Drafted, QuizInv
  <1>5. \/ /\ quizStrict
           /\ \E verdict \in Quiz!Verdicts(Quiz!Restrict(written, sound)) :
                 /\ quizAccepted' = verdict.accepted
                 /\ quizCertificates' = verdict.certificates
                 /\ quizPending' = Quiz!Onto(verdict.rejected, faulty)
           /\ quizPc' = "sift"
        \/ /\ ~quizStrict /\ sound = Slots
           /\ quizAccepted' = written
           /\ quizPc' = "sift"
           /\ UNCHANGED <<quizCertificates, quizPending>>
        \/ /\ ~quizStrict /\ sound # Slots
           /\ quizPc' = "ended"
           /\ UNCHANGED <<quizAccepted, quizCertificates, quizPending>>
    BY <1>2
  <1>6. faulty \in [Slots \ sound -> Rejections]
    <2>1. ASSUME NEW s \in Slots
          PROVE  Quiz!Rejection(IF s <= n THEN written[s] ELSE None, FALSE, "slot") \in Rejections
      <3>1. s \in Nat /\ 1 <= s
        BY QuizAssumption
      <3>2. s <= n => written[s] \in Questions
        BY <1>3, <3>1
      <3> QED BY <3>2 DEF Quiz!Rejection, Rejections
    <2> QED BY <2>1
  <1>7. Quiz!Restrict(written, sound) \in [sound -> Questions]
    BY <1>3 DEF Quiz!Restrict
  <1> HIDE DEF sound, faulty
  <1>8. CASE quizStrict /\ quizPc' = "sift"
             /\ \E verdict \in Quiz!Verdicts(Quiz!Restrict(written, sound)) :
                   /\ quizAccepted' = verdict.accepted
                   /\ quizCertificates' = verdict.certificates
                   /\ quizPending' = Quiz!Onto(verdict.rejected, faulty)
    <2>1. PICK verdict \in Quiz!Verdicts(Quiz!Restrict(written, sound)) :
             /\ quizAccepted' = verdict.accepted
             /\ quizCertificates' = verdict.certificates
             /\ quizPending' = Quiz!Onto(verdict.rejected, faulty)
      BY <1>8
    <2>2. Judged(verdict, sound)
      BY <1>7, VerdictsJudge
    <2>3. quizPending' \in [Slots \ DOMAIN verdict.accepted -> Rejections]
      BY <1>3, <1>6, <2>1, <2>2 DEF Quiz!Onto, Judged
    <2>4. Filled(quizAccepted', quizPending') /\ Certified(quizAccepted', quizCertificates')
      BY <1>3, <2>1, <2>2, <2>3 DEF Judged, Filled
    <2> QED BY <1>4, <1>8, <2>4 DEF QuizInv
  <1>9. CASE /\ ~quizStrict /\ sound = Slots
             /\ quizAccepted' = written
             /\ quizPc' = "sift"
             /\ UNCHANGED <<quizCertificates, quizPending>>
    <2>1. Filled(quizAccepted', quizPending') /\ Certified(quizAccepted', quizCertificates')
      BY <1>3, <1>4, <1>9, NothingIsEmpty DEF Filled, Certified
    <2> QED BY <1>4, <1>9, <2>1 DEF QuizInv
  <1>10. CASE /\ ~quizStrict /\ quizPc' = "ended"
              /\ UNCHANGED <<quizAccepted, quizCertificates, quizPending>>
    BY <1>4, <1>10 DEF QuizInv
  <1> QED BY <1>5, <1>8, <1>9, <1>10

(* The other steps at the start of an attempt.                             *)
LEMMA AttemptsStart ==
    QuizInv /\ (Quiz!NoStart \/ Quiz!Draft \/ Quiz!DraftFails \/ Quiz!Retry) => QuizInv'
  <1> SUFFICES ASSUME QuizInv, Quiz!NoStart \/ Quiz!Draft \/ Quiz!DraftFails \/ Quiz!Retry
               PROVE  QuizInv'
    OBVIOUS
  <1>1. CASE Quiz!NoStart
    BY <1>1 DEF QuizInv, Quiz!NoStart, Quiz!Ends
  <1>2. CASE Quiz!Draft
    BY <1>2 DEF QuizInv, Quiz!Draft, Quiz!NoBatch
  <1>3. CASE Quiz!DraftFails
    <2>1. /\ quizAccepted = Quiz!Nothing /\ quizCertificates = Quiz!Nothing
          /\ quizPending = Quiz!Nothing
          /\ UNCHANGED <<quizStrict, quizAccepted, quizCertificates, quizExposure, quizBatch>>
      BY <1>3 DEF Quiz!DraftFails, QuizInv
    <2>2. \/ /\ quizPc' \in {"sift", "failed"}
             /\ \E kind \in {"slot", "transient", "permanent"} :
                   quizPending' = [s \in Slots |-> Quiz!Rejection(None, FALSE, kind)]
          \/ quizPc' = "ended"
      BY <1>3 DEF Quiz!DraftFails
    <2>3. ASSUME NEW kind \in {"slot", "transient", "permanent"},
                 quizPending' = [s \in Slots |-> Quiz!Rejection(None, FALSE, kind)]
          PROVE  Filled(quizAccepted', quizPending')
      <3>1. Quiz!Rejection(None, FALSE, kind) \in Rejections
        BY DEF Quiz!Rejection, Rejections
      <3> QED BY <2>1, <2>3, <3>1, NothingIsEmpty DEF Filled
    <2> QED BY <2>1, <2>2, <2>3 DEF QuizInv
  <1>4. CASE Quiz!Retry
    <2>1. \/ quizBatch' = quizBatch
          \/ quizBatch' = [required |-> FALSE, certificate |-> None, failure |-> None]
      BY <1>4 DEF Quiz!Retry, Quiz!NoBatch
    <2>2. /\ quizPc = "failed" /\ quizPc' \in {"sift", "ended"}
          /\ UNCHANGED <<quizStrict, quizAccepted, quizCertificates, quizPending>>
      BY <1>4 DEF Quiz!Retry
    <2>3. /\ quizBatch' = [required |-> quizBatch'.required, certificate |-> quizBatch'.certificate,
                       failure |-> quizBatch'.failure]
          /\ quizBatch'.required \in BOOLEAN
      <3>1. CASE quizBatch' = quizBatch
        BY <3>1 DEF QuizInv
      <3>2. CASE quizBatch' = [required |-> FALSE, certificate |-> None, failure |-> None]
        BY <3>2
      <3> QED BY <2>1, <3>1, <3>2
    <2>4. /\ Filled(quizAccepted, quizPending)' = Filled(quizAccepted, quizPending)
          /\ Certified(quizAccepted, quizCertificates)' = Certified(quizAccepted, quizCertificates)
      BY <2>2 DEF Filled, Certified
    <2> QED BY <2>2, <2>3, <2>4 DEF QuizInv
  <1> QED BY <1>1, <1>2, <1>3, <1>4

(* What the student has met and what leaves a gap is set aside.            *)
LEMMA SiftKeeps == QuizInv /\ Quiz!Sift => QuizInv'
  <1> SUFFICES ASSUME QuizInv, Quiz!Sift PROVE QuizInv'
    OBVIOUS
  <1> DEFINE met == {s \in DOMAIN quizAccepted : quizAccepted[s] \in quizExposure}
             waiting == Quiz!Onto([s \in met |-> Quiz!Rejection(quizAccepted[s], FALSE, "slot")],
                                  quizPending)
             left == Quiz!Drop(quizAccepted, met)
             gap == IF quizStrict /\ waiting = Quiz!Nothing /\ DOMAIN left = Slots
                    THEN Quiz!CoverageGap(left, Quiz!Drop(quizCertificates, met)) ELSE {}
             void == quizBatch.required /\ quizBatch.certificate # Quiz!Composition(quizAccepted')
  <1>1. /\ quizPending' = Quiz!Onto([s \in gap |-> Quiz!Rejection(quizAccepted[s], FALSE, "slot")],
                                   waiting)
        /\ quizAccepted' = Quiz!Drop(left, gap)
        /\ quizCertificates' = Quiz!Drop(quizCertificates, met \cup gap)
        /\ quizBatch' = IF void THEN [Quiz!NoBatch EXCEPT !.required = TRUE] ELSE quizBatch
        /\ quizPc' = "decide" /\ quizPc = "sift" /\ UNCHANGED <<quizStrict, quizExposure>>
    BY DEF Quiz!Sift
  <1>2. Filled(quizAccepted, quizPending) /\ Certified(quizAccepted, quizCertificates)
    BY <1>1 DEF QuizInv
  <1>3. gap \subseteq DOMAIN left /\ met \subseteq DOMAIN quizAccepted
    BY GapIsASlot
  <1>4. \/ quizBatch' = quizBatch
        \/ quizBatch' = [required |-> TRUE, certificate |-> None, failure |-> None]
    BY <1>1 DEF Quiz!NoBatch
  <1>5. DOMAIN left = DOMAIN quizAccepted \ met /\ gap \cap met = {}
    BY <1>3 DEF Quiz!Drop, Quiz!Restrict
  <1> HIDE DEF met, gap
  <1>6. /\ quizAccepted' = Quiz!Drop(quizAccepted, met \cup gap)
        /\ quizPending' = Quiz!Onto(
             [s \in met \cup gap |-> Quiz!Rejection(quizAccepted[s], FALSE, "slot")], quizPending)
    <2>1. quizAccepted' = Quiz!Drop(quizAccepted, met \cup gap)
      BY <1>1, <1>5 DEF Quiz!Drop, Quiz!Restrict
    <2>2. quizPending' = Quiz!Onto(
             [s \in met \cup gap |-> Quiz!Rejection(quizAccepted[s], FALSE, "slot")], quizPending)
      BY <1>1, <1>5 DEF Quiz!Onto
    <2> QED BY <2>1, <2>2
  <1>7. Filled(quizAccepted', quizPending') /\ Certified(quizAccepted', quizCertificates')
    BY <1>1, <1>2, <1>3, <1>5, <1>6, PendingAgain
  <1> QED BY <1>1, <1>4, <1>7 DEF QuizInv

(* The composition is reviewed.                                            *)
LEMMA ReviewBatchKeeps == QuizInv /\ Quiz!ReviewBatch => QuizInv'
  <1> SUFFICES ASSUME QuizInv, Quiz!ReviewBatch PROVE QuizInv'
    OBVIOUS
  <1>1. /\ quizPc = "decide" /\ quizPending = Quiz!Nothing /\ Quiz!BatchIsOpen
        /\ UNCHANGED <<quizStrict, quizExposure>>
        /\ Filled(quizAccepted, quizPending) /\ Certified(quizAccepted, quizCertificates)
    BY DEF Quiz!ReviewBatch, QuizInv
  <1>2. PICK verdict \in Quiz!Verdicts(quizAccepted) :
          IF verdict.down # None
          THEN /\ quizRound' = Quiz!Min({MaxRounds, quizRound + 1})
               /\ quizBatch' = [quizBatch EXCEPT !.failure = verdict.down]
               /\ quizPc' = "finish"
               /\ UNCHANGED <<quizAccepted, quizCertificates, quizPending>>
          ELSE /\ quizAccepted' = verdict.accepted
               /\ quizPending' = verdict.rejected
               /\ quizCertificates' = verdict.certificates
               /\ quizBatch' = [Quiz!NoBatch EXCEPT !.required = TRUE, !.certificate =
                               IF verdict.rejected = Quiz!Nothing
                               THEN Quiz!Composition(quizAccepted) ELSE None]
               /\ UNCHANGED <<quizPc, quizRound>>
    BY DEF Quiz!ReviewBatch
  <1>3. CASE verdict.down # None
    <2>1. /\ quizBatch' = [quizBatch EXCEPT !.failure = verdict.down] /\ quizPc' = "finish"
          /\ UNCHANGED <<quizAccepted, quizCertificates, quizPending>>
      BY <1>2, <1>3
    <2>2. /\ quizBatch' = [required |-> quizBatch.required, certificate |-> quizBatch.certificate,
                       failure |-> verdict.down]
      BY <2>1 DEF QuizInv
    <2>3. ~Quiz!Complete'
      <3>1. Quiz!Composition(quizAccepted) # None
        BY <1>1, QuizAssumption DEF Filled
      <3> QED BY <1>1, <2>1, <2>2, <3>1 DEF Quiz!Complete, Quiz!BatchIsOpen
    <2> QED BY <1>1, <2>1, <2>2, <2>3 DEF QuizInv
  <1>4. CASE verdict.down = None
    <2>1. /\ quizAccepted' = verdict.accepted /\ quizPending' = verdict.rejected
          /\ quizCertificates' = verdict.certificates /\ quizPc' = quizPc
          /\ \E c : quizBatch' = [required |-> TRUE, certificate |-> c, failure |-> None]
      BY <1>2, <1>4 DEF Quiz!NoBatch
    <2>2. DOMAIN quizAccepted = Slots /\ quizAccepted \in [Slots -> Questions]
      BY <1>1, NothingIsEmpty DEF Filled
    <2>3. Judged(verdict, Slots)
      BY <2>2, VerdictsJudge
    <2>4. Filled(quizAccepted', quizPending') /\ Certified(quizAccepted', quizCertificates')
      BY <2>1, <2>3 DEF Filled, Judged
    <2> QED BY <1>1, <2>1, <2>4 DEF QuizInv
  <1> QED BY <1>3, <1>4

(* What awaits a reviewer is reviewed again, or slots are repaired.        *)
LEMMA ReviewsAndRepairsKeep == QuizInv /\ (Quiz!ReviewAgain \/ Quiz!Repair) => QuizInv'
  <1> SUFFICES ASSUME QuizInv, Quiz!ReviewAgain \/ Quiz!Repair PROVE QuizInv'
    OBVIOUS
  <1>1. /\ quizPc = "decide" /\ UNCHANGED <<quizStrict, quizExposure, quizBatch>>
        /\ Filled(quizAccepted, quizPending) /\ Certified(quizAccepted, quizCertificates)
    BY DEF Quiz!ReviewAgain, Quiz!Repair, QuizInv
  <1>2. ASSUME NEW S \in SUBSET DOMAIN quizPending, NEW v, Judged(v, S),
               quizAccepted' = Quiz!Onto(v.accepted, quizAccepted),
               quizCertificates' = Quiz!Onto(v.certificates, quizCertificates),
               quizPending' = Quiz!Onto(v.rejected, Quiz!Drop(quizPending, S)),
               quizPc' = "sift" \/ (quizPc' = "finish" /\ DOMAIN v.rejected # {})
        PROVE  QuizInv'
    <2>1. /\ Filled(quizAccepted', quizPending') /\ Certified(quizAccepted', quizCertificates')
          /\ DOMAIN v.rejected \subseteq DOMAIN quizPending'
      BY <1>1, <1>2, JudgedJoins
    <2>2. quizPc' = "finish" => ~Quiz!Complete'
      BY <1>2, <2>1, NothingIsEmpty DEF Quiz!Complete
    <2> QED BY <1>1, <1>2, <2>1, <2>2 DEF QuizInv
  <1>3. CASE Quiz!ReviewAgain
    <2>1. PICK verdict \in Quiz!Verdicts([s \in Quiz!Unreviewed |-> quizPending[s].question]) :
          /\ quizAccepted' = Quiz!Onto(verdict.accepted, quizAccepted)
          /\ quizCertificates' = Quiz!Onto(verdict.certificates, quizCertificates)
          /\ quizPending' = Quiz!Onto(verdict.rejected, Quiz!Drop(quizPending, Quiz!Unreviewed))
          /\ quizPc' = IF verdict.down # None THEN "finish" ELSE "sift"
      BY <1>3 DEF Quiz!ReviewAgain
    <2>2. /\ Quiz!Unreviewed \in SUBSET DOMAIN quizPending /\ Quiz!Unreviewed # {}
          /\ [s \in Quiz!Unreviewed |-> quizPending[s].question] \in [Quiz!Unreviewed -> Questions]
      BY <1>1, <1>3 DEF Quiz!ReviewAgain, Quiz!Unreviewed, Filled, Rejections
    <2>3. Judged(verdict, Quiz!Unreviewed)
          /\ (verdict.down # None => DOMAIN verdict.rejected = Quiz!Unreviewed)
      BY <2>2, VerdictsJudge
    <2> QED BY <1>2, <2>1, <2>2, <2>3
  <1>4. CASE Quiz!Repair
    <2>1. PICK repair \in Quiz!Repairs :
          /\ quizAccepted' = Quiz!Onto(repair.accepted, quizAccepted)
          /\ quizCertificates' = Quiz!Onto(repair.certificates, quizCertificates)
          /\ quizPending' = Quiz!Onto(repair.rejected, Quiz!Drop(quizPending, Quiz!Repairable))
          /\ quizPc' = IF /\ repair.rejected # Quiz!Nothing
                      /\ \A s \in DOMAIN repair.rejected : repair.rejected[s].kind = "transient"
                   THEN "finish" ELSE "sift"
      BY <1>4 DEF Quiz!Repair
    <2>2. Quiz!Repairable \in SUBSET DOMAIN quizPending
      BY DEF Quiz!Repairable
    <2>3. /\ Judged(repair, Quiz!Repairable)
          /\ (repair.rejected # Quiz!Nothing => DOMAIN repair.rejected # {})
      BY <1>1, RepairsJudge
    <2> QED BY <1>2, <2>1, <2>2, <2>3
  <1> QED BY <1>3, <1>4

(* The end of the loop, and the last look before the quiz is published.    *)
LEMMA QuizEnds ==
    QuizInv /\ (Quiz!Refresh \/ Quiz!GiveUp \/ Quiz!Finish \/ Quiz!Publish) => QuizInv'
  <1> SUFFICES ASSUME QuizInv, Quiz!Refresh \/ Quiz!GiveUp \/ Quiz!Finish \/ Quiz!Publish
               PROVE  QuizInv'
    OBVIOUS
  <1>1. CASE Quiz!Refresh
    <2>1. /\ quizPc = "decide"
          /\ UNCHANGED <<quizStrict, quizAccepted, quizCertificates, quizPending, quizBatch>>
          /\ \/ quizPc' = "sift"
             \/ quizPc' = "finish" /\ Quiz!Range(quizAccepted) \cap quizExposure' = {}
      BY <1>1 DEF Quiz!Refresh
    <2> QED BY <2>1 DEF QuizInv
  <1>2. CASE Quiz!GiveUp
    <2>1. /\ quizPc = "decide" /\ quizPc' = "finish" /\ (Quiz!BatchIsOpen \/ quizPending # Quiz!Nothing)
          /\ UNCHANGED <<quizStrict, quizAccepted, quizCertificates, quizPending, quizExposure, quizBatch>>
      BY <1>2 DEF Quiz!GiveUp
    <2>2. ~Quiz!Complete /\ Quiz!Complete' = Quiz!Complete
      BY <2>1, OpenIsIncomplete DEF QuizInv, Quiz!Complete
    <2> QED BY <2>1, <2>2 DEF QuizInv
  <1>3. CASE Quiz!Finish
    <2>1. /\ quizPc = "finish" /\ Quiz!Complete' = Quiz!Complete
          /\ UNCHANGED <<quizStrict, quizAccepted, quizCertificates, quizPending, quizExposure, quizBatch>>
          /\ \/ quizPc' \in {"failed", "ended"}
             \/ /\ quizPc' = "generated" /\ Quiz!Complete /\ Quiz!IsInjective(quizAccepted)
                /\ quizStrict => DOMAIN quizCertificates = Slots
      BY <1>3 DEF Quiz!Finish, Quiz!Complete
    <2> QED BY <2>1 DEF QuizInv
  <1>4. CASE Quiz!Publish
    <2>1. PICK now \in SUBSET Questions :
          LET met == {s \in Slots : quizAccepted[s] \in now}
          IN  /\ quizExposure' = quizExposure \cup now
              /\ IF met = {}
                 THEN /\ quizPc' = "published"
                      /\ UNCHANGED <<quizAccepted, quizCertificates, quizPending, quizBatch>>
                 ELSE /\ quizPc' = "failed"
                      /\ quizAccepted' = Quiz!Drop(quizAccepted, met)
                      /\ quizCertificates' = IF quizStrict THEN Quiz!Drop(quizCertificates, met) ELSE Quiz!Nothing
                      /\ quizPending' = [s \in met |-> Quiz!Rejection(quizAccepted[s], FALSE, "slot")]
                      /\ quizBatch' = [Quiz!NoBatch EXCEPT !.required = TRUE]
      BY <1>4 DEF Quiz!Publish
    <2> DEFINE met == {s \in Slots : quizAccepted[s] \in now}
    <2>2. /\ quizPc = "generated" /\ quizStrict' = quizStrict
          /\ Quiz!Complete /\ Quiz!IsInjective(quizAccepted)
          /\ Quiz!Range(quizAccepted) \cap quizExposure = {}
          /\ quizStrict => DOMAIN quizCertificates = Slots
          /\ Filled(quizAccepted, quizPending) /\ Certified(quizAccepted, quizCertificates)
          /\ DOMAIN quizAccepted = Slots
      BY <1>4 DEF Quiz!Publish, QuizInv, Quiz!Complete
    <2>3. CASE met = {}
      <3>1. /\ quizPc' = "published" /\ quizExposure' = quizExposure \cup now
            /\ UNCHANGED <<quizAccepted, quizCertificates, quizPending, quizBatch>>
        BY <2>1, <2>3
      <3>2. Quiz!Range(quizAccepted) \cap quizExposure' = {}
        BY <2>2, <2>3, <3>1 DEF Quiz!Range
      <3>3. Quiz!Complete' = Quiz!Complete
        BY <3>1 DEF Quiz!Complete
      <3> QED BY <2>2, <3>1, <3>2, <3>3 DEF QuizInv
    <2>4. CASE met # {}
      <3>1. /\ quizPc' = "failed" /\ quizAccepted' = Quiz!Drop(quizAccepted, met)
            /\ quizCertificates' = IF quizStrict THEN Quiz!Drop(quizCertificates, met) ELSE Quiz!Nothing
            /\ quizPending' = [s \in met |-> Quiz!Rejection(quizAccepted[s], FALSE, "slot")]
            /\ quizBatch' = [required |-> TRUE, certificate |-> None, failure |-> None]
        BY <2>1, <2>4 DEF Quiz!NoBatch
      <3>2. met \in SUBSET DOMAIN quizAccepted
        BY <2>2
      <3> HIDE DEF met
      <3>3. Filled(quizAccepted', quizPending') /\ Certified(quizAccepted', Quiz!Drop(quizCertificates, met))
        BY <2>2, <3>1, <3>2, PendingAgain
      <3>4. Certified(quizAccepted', quizCertificates')
        BY <3>1, <3>3, NothingIsEmpty DEF Certified
      <3> QED BY <2>2, <3>1, <3>3, <3>4 DEF QuizInv
    <2> QED BY <2>3, <2>4
  <1> QED BY <1>1, <1>2, <1>3, <1>4

(* Every step keeps the invariant of a quiz.                               *)
LEMMA QuizSteps == QuizInv /\ [Quiz!Next]_Quiz!vars => QuizInv'
  <1>1. ASSUME QuizInv, UNCHANGED Quiz!vars PROVE QuizInv'
    <2>1. UNCHANGED <<quizPc, quizStrict, quizAccepted, quizCertificates, quizPending,
                      quizExposure, quizBatch>>
      BY <1>1 DEF Quiz!vars
    <2>2. Quiz!Complete' = Quiz!Complete
      BY <2>1 DEF Quiz!Complete
    <2> QED BY <1>1, <2>1, <2>2 DEF QuizInv
  <1> QED BY <1>1, ReuseKeeps, DraftedKeeps, AttemptsStart, SiftKeeps, ReviewBatchKeeps,
             ReviewsAndRepairsKeep, QuizEnds DEF Quiz!Next

-----------------------------------------------------------------------------
(* Quotas: a window holds the stamps of the requests granted last, and     *)
(* what it has forgotten is too old to count.                              *)
QuotaWindows == Students \cup {Quota!All}

LimitOf(w) == IF w = Quota!All THEN GlobalLimit ELSE Limit

QuotaCallers ==
    [at : {"idle", "waiting", "refused"}, student : QuotaWindows, stamp : Nat]

Within(times, from, to) == {i \in DOMAIN times : from < times[i] /\ times[i] <= to}

(* Stamps are of the last of the times, each at most a wait before its     *)
(* time; those of the times before were no later than the cutoff.          *)
Keeps(stamps, times, cutoff) ==
    /\ Len(stamps) <= Len(times)
    /\ \A i \in 1 .. Len(stamps) :
          /\ stamps[i] <= times[Len(times) - Len(stamps) + i]
          /\ times[Len(times) - Len(stamps) + i] <= stamps[i] + MaxWait
    /\ \A i \in 1 .. Len(times) - Len(stamps) : times[i] <= cutoff + MaxWait

Ascends(times) == \A i, j \in DOMAIN times : i <= j => times[i] <= times[j]

WasUsedUp(times, limit, stamp) ==
    limit > 0 /\ Cardinality(Within(times, stamp - Window, stamp + MaxWait)) >= limit

Refused(times, caller) ==
    \E w \in {caller.student, Quota!All} : WasUsedUp(times[w], LimitOf(w), caller.stamp)

QuotaInv ==
    /\ quotaClock \in Nat
    /\ quotaWindows \in [QuotaWindows -> Seq(Nat)]
    /\ quotaGranted \in [QuotaWindows -> Seq(Nat)]
    /\ quotaCallers \in [Callers -> QuotaCallers]
    /\ \A w \in QuotaWindows :
          /\ Ascends(quotaGranted[w]) /\ \A i \in DOMAIN quotaGranted[w] : quotaGranted[w][i] <= quotaClock
          /\ LimitOf(w) > 0 =>
                /\ Keeps(quotaWindows[w], quotaGranted[w], quotaClock - Window)
                /\ \A t \in 0 .. quotaClock :
                      Cardinality(Within(quotaGranted[w], t - (Window - MaxWait), t)) <= LimitOf(w)
    /\ \A c \in Callers : quotaCallers[c].at # "idle" =>
          /\ quotaCallers[c].student \in Students
          /\ quotaCallers[c].stamp <= quotaClock /\ quotaClock <= quotaCallers[c].stamp + MaxWait
    /\ \A c \in Callers : quotaCallers[c].at = "refused" => Refused(quotaGranted, quotaCallers[c])

-----------------------------------------------------------------------------
(* The head of a window goes up to a stamp that stays.                     *)
LEMMA TrimStops ==
    ASSUME NEW stamps \in Seq(Nat), NEW cutoff \in Int
    PROVE  LET k == Quota!FirstKept(stamps, cutoff)
           IN  /\ k \in 1 .. Len(stamps) + 1
               /\ k <= Len(stamps) => stamps[k] > cutoff
               /\ \A i \in 1 .. k - 1 : stamps[i] <= cutoff
  <1> DEFINE young == {i \in 1 .. Len(stamps) : stamps[i] > cutoff} \cup {Len(stamps) + 1}
             Stops(k) == /\ k <= Len(stamps) => stamps[k] > cutoff
                         /\ \A i \in 1 .. k - 1 : stamps[i] <= cutoff
  <1>1. Len(stamps) \in Nat /\ \A i \in 1 .. Len(stamps) : stamps[i] \in Nat
    OBVIOUS
  <1>2. young \in SUBSET Nat /\ young # {}
    BY <1>1
  <1>3. PICK k \in young : \A i \in young : k <= i
    BY <1>2, LeastExists
  <1>4. k \in 1 .. Len(stamps) + 1
    BY <1>1
  <1>5. k <= Len(stamps) => stamps[k] > cutoff
    BY <1>1
  <1>6. ASSUME NEW i \in 1 .. k - 1 PROVE stamps[i] <= cutoff
    <2>1. i \in 1 .. Len(stamps) /\ i < k
      BY <1>1, <1>4
    <2>2. i \notin young
      BY <1>3, <1>4, <2>1
    <2> QED BY <1>1, <2>1, <2>2
  <1>7. \E n \in 1 .. Len(stamps) + 1 : Stops(n)
    BY <1>4, <1>5, <1>6
  <1> HIDE DEF Stops
  <1>8. Quota!FirstKept(stamps, cutoff) = CHOOSE n \in 1 .. Len(stamps) + 1 : Stops(n)
    BY DEF Quota!FirstKept, Stops
  <1>9. Quota!FirstKept(stamps, cutoff) \in 1 .. Len(stamps) + 1 /\ Stops(Quota!FirstKept(stamps, cutoff))
    BY <1>7, <1>8
  <1> QED BY <1>9 DEF Stops

(* What a trimmed window holds are still the requests granted last.        *)
LEMMA TrimKeeps ==
    ASSUME NEW stamps \in Seq(Nat), NEW times \in Seq(Nat), NEW cutoff \in Int, NEW late \in Int,
           Keeps(stamps, times, late), cutoff <= late
    PROVE  /\ Quota!Trim(stamps, cutoff) \in Seq(Nat)
           /\ Keeps(Quota!Trim(stamps, cutoff), times, late)
           /\ Len(Quota!Trim(stamps, cutoff)) > 0 => Quota!Trim(stamps, cutoff)[1] > cutoff
  <1> DEFINE k == Quota!FirstKept(stamps, cutoff)
             left == SubSeq(stamps, k, Len(stamps))
  <1>1. /\ k \in 1 .. Len(stamps) + 1
        /\ k <= Len(stamps) => stamps[k] > cutoff
        /\ \A i \in 1 .. k - 1 : stamps[i] <= cutoff
    BY TrimStops
  <1>2. /\ Len(stamps) \in Nat /\ Len(times) \in Nat
        /\ \A i \in 1 .. Len(stamps) : stamps[i] \in Nat
        /\ \A i \in 1 .. Len(times) : times[i] \in Nat
    OBVIOUS
  <1> HIDE DEF k
  <1>3. /\ left \in Seq(Nat) /\ Len(left) = Len(stamps) - k + 1
        /\ \A i \in 1 .. Len(stamps) - k + 1 : left[i] = stamps[k + i - 1]
    BY <1>1, <1>2
  <1> HIDE DEF left
  <1>4. Keeps(left, times, late)
    <2>1. Len(left) <= Len(times)
      BY <1>1, <1>2, <1>3 DEF Keeps
    <2>2. ASSUME NEW i \in 1 .. Len(left)
          PROVE  /\ left[i] <= times[Len(times) - Len(left) + i]
                 /\ times[Len(times) - Len(left) + i] <= left[i] + MaxWait
      <3>1. /\ k + i - 1 \in 1 .. Len(stamps) /\ left[i] = stamps[k + i - 1]
            /\ Len(times) - Len(left) + i = Len(times) - Len(stamps) + (k + i - 1)
        BY <1>1, <1>2, <1>3
      <3> QED BY <3>1 DEF Keeps
    <2>3. ASSUME NEW i \in 1 .. Len(times) - Len(left) PROVE times[i] <= late + MaxWait
      <3>0. i \in Int /\ Len(times) - Len(stamps) \in Int
        BY <1>2
      <3>1. CASE i <= Len(times) - Len(stamps)
        BY <1>2, <3>1 DEF Keeps
      <3>2. CASE ~(i <= Len(times) - Len(stamps))
        <4> DEFINE j == i - (Len(times) - Len(stamps))
        <4>0. i \in Int /\ i <= Len(times) - (Len(stamps) - k + 1)
          BY <1>1, <1>2, <1>3
        <4>1. j \in 1 .. k - 1 /\ j \in 1 .. Len(stamps) /\ Len(times) - Len(stamps) + j = i
          BY <1>1, <1>2, <3>0, <3>2, <4>0
        <4>2. stamps[j] <= cutoff /\ times[i] <= stamps[j] + MaxWait
          BY <1>1, <4>1 DEF Keeps
        <4>3. i \in 1 .. Len(times) /\ times[i] \in Nat /\ stamps[j] \in Nat
          BY <1>2, <1>3, <4>1
        <4> DEFINE time == times[i]
                   stamp == stamps[j]
        <4>4. /\ MaxWait \in Nat /\ time \in Nat /\ stamp \in Nat
              /\ stamp <= cutoff /\ time <= stamp + MaxWait
          BY <4>2, <4>3, QuotaAssumption
        <4> HIDE DEF time, stamp
        <4>5. time <= late + MaxWait
          BY <4>4
        <4> QED BY <4>5 DEF time
      <3> QED BY <3>1, <3>2, Zenon
    <2> QED BY <2>1, <2>2, <2>3 DEF Keeps
  <1>5. Len(left) > 0 => left[1] > cutoff
    <2>1. SUFFICES ASSUME Len(left) > 0 PROVE left[1] > cutoff
      OBVIOUS
    <2>2. k <= Len(stamps) /\ 1 \in 1 .. Len(stamps) - k + 1 /\ k + 1 - 1 = k
      BY <1>1, <1>2, <1>3, <2>1
    <2>3. left[1] = stamps[k + 1 - 1]
      BY <1>3, <2>2
    <2> QED BY <1>1, <2>2, <2>3
  <1>6. Quota!Trim(stamps, cutoff) = left
    BY DEF Quota!Trim, left, k
  <1> QED BY <1>3, <1>4, <1>5, <1>6

(* What is counted is finite.                                              *)
LEMMA WithinIsFinite ==
    ASSUME NEW times \in Seq(Nat), NEW from, NEW to
    PROVE  IsFiniteSet(Within(times, from, to)) /\ Cardinality(Within(times, from, to)) \in Nat
  <1>1. Len(times) \in Nat /\ DOMAIN times = 1 .. Len(times)
    OBVIOUS
  <1>2. IsFiniteSet(1 .. Len(times))
    BY <1>1, FS_Interval
  <1>3. Within(times, from, to) \subseteq 1 .. Len(times)
    BY <1>1 DEF Within
  <1> QED BY <1>2, <1>3, FS_Subset, FS_CardinalityType

(* A full window was used up within the window and the wait.               *)
LEMMA FullWasUsed ==
    ASSUME NEW stamps \in Seq(Nat), NEW times \in Seq(Nat), NEW late \in Int, NEW now \in Nat,
           Keeps(stamps, times, late), Ascends(times),
           Len(stamps) > 0, stamps[1] > now - Window,
           \A i \in DOMAIN times : times[i] <= now + MaxWait
    PROVE  Cardinality(Within(times, now - Window, now + MaxWait)) >= Len(stamps)
  <1> DEFINE first == Len(times) - Len(stamps) + 1
  <1>1. /\ Len(times) \in Nat /\ Len(stamps) \in Nat /\ DOMAIN times = 1 .. Len(times)
        /\ \A i \in 1 .. Len(times) : times[i] \in Nat
        /\ 1 \in 1 .. Len(stamps) /\ stamps[1] \in Nat
    OBVIOUS
  <1>2. first \in 1 .. Len(times) /\ stamps[1] <= times[first]
    BY <1>1 DEF Keeps
  <1>3. first .. Len(times) \subseteq Within(times, now - Window, now + MaxWait)
    <2>1. SUFFICES ASSUME NEW i \in first .. Len(times)
                   PROVE  now - Window < times[i] /\ times[i] <= now + MaxWait /\ i \in DOMAIN times
      BY DEF Within
    <2> HIDE DEF first
    <2>2. i \in 1 .. Len(times) /\ first <= i
      BY <1>1, <1>2
    <2>3. times[first] <= times[i]
      BY <1>1, <1>2, <2>2 DEF Ascends
    <2>4. times[i] \in Nat /\ times[first] \in Nat /\ times[i] <= now + MaxWait
      BY <1>1, <1>2, <2>2
    <2>5. now - Window < times[i]
      <3> DEFINE time == times[i]
                 from == times[first]
                 stamp == stamps[1]
      <3>1. /\ time \in Nat /\ from \in Nat /\ stamp \in Nat /\ Window \in Nat
            /\ now - Window < stamp /\ stamp <= from /\ from <= time
        BY <1>1, <1>2, <2>3, <2>4, QuotaAssumption
      <3> HIDE DEF time, from, stamp
      <3>2. now - Window < time
        BY <3>1
      <3> QED BY <3>2 DEF time
    <2>6. i \in DOMAIN times
      BY <1>1, <2>2
    <2> QED BY <2>4, <2>5, <2>6, Zenon
  <1>4. Cardinality(first .. Len(times)) = Len(stamps)
    <2> DEFINE last == Len(times)
    <2>1. first \in Int /\ last \in Int /\ first <= last /\ last - first + 1 = Len(stamps)
      BY <1>1, <1>2
    <2> HIDE DEF first, last
    <2>2. Cardinality(first .. last) = last - first + 1
      BY <2>1, FS_Interval
    <2> QED BY <2>1, <2>2 DEF last
  <1> DEFINE counted == Within(times, now - Window, now + MaxWait)
  <1>5. IsFiniteSet(counted) /\ Cardinality(counted) \in Nat
    BY WithinIsFinite
  <1> HIDE DEF counted, first
  <1>6. Cardinality(first .. Len(times)) <= Cardinality(counted)
    BY <1>3, <1>5, FS_Subset DEF counted
  <1> QED BY <1>1, <1>4, <1>5, <1>6 DEF counted

(* A request that is granted: its span holds no more than its window.      *)
LEMMA GrantedFits ==
    ASSUME NEW stamps \in Seq(Nat), NEW times \in Seq(Nat), NEW now \in Nat,
           Keeps(stamps, times, now - Window)
    PROVE  Cardinality(Within(Append(times, now), now - (Window - MaxWait), now)) <= Len(stamps) + 1
  <1> DEFINE more == Append(times, now)
             first == Len(times) - Len(stamps) + 1
             counted == Within(more, now - (Window - MaxWait), now)
  <1>1. /\ Len(times) \in Nat /\ Len(stamps) \in Nat
        /\ \A i \in 1 .. Len(times) : times[i] \in Nat
    OBVIOUS
  <1>2. more \in Seq(Nat) /\ Len(more) = Len(times) + 1 /\ DOMAIN more = 1 .. Len(times) + 1
        /\ \A i \in 1 .. Len(times) : more[i] = times[i]
    BY <1>1
  <1> HIDE DEF more
  <1>3. counted \subseteq first .. Len(times) + 1
    <2>1. SUFFICES ASSUME NEW i \in 1 .. Len(times) + 1, now - (Window - MaxWait) < more[i], i < first
                   PROVE  FALSE
      BY <1>1, <1>2 DEF Within, Keeps
    <2>2. i \in 1 .. Len(times) - Len(stamps) /\ i \in 1 .. Len(times)
      BY <1>1, <2>1 DEF Keeps
    <2>3. times[i] <= now - Window + MaxWait /\ times[i] \in Nat /\ more[i] = times[i]
      BY <1>1, <1>2, <2>2 DEF Keeps
    <2> QED BY <2>1, <2>3, QuotaAssumption
  <1>4. IsFiniteSet(first .. Len(times) + 1) /\ Cardinality(first .. Len(times) + 1) = Len(stamps) + 1
    <2>1. /\ first \in Int /\ Len(times) + 1 \in Int /\ first <= Len(times) + 1
          /\ Len(times) + 1 - first + 1 = Len(stamps) + 1
      BY <1>1
    <2> DEFINE last == Len(times) + 1
    <2> HIDE DEF first, last
    <2>2. IsFiniteSet(first .. last) /\ Cardinality(first .. last) = last - first + 1
      BY <2>1, FS_Interval DEF last
    <2> QED BY <2>1, <2>2 DEF last
  <1> HIDE DEF counted, first
  <1>5. Cardinality(counted) <= Cardinality(first .. Len(times) + 1)
    BY <1>3, <1>4, FS_Subset
  <1> QED BY <1>4, <1>5 DEF counted, more

(* Times that end with the latest ascend.                                  *)
LEMMA LaterAscends ==
    ASSUME NEW times \in Seq(Nat), NEW now \in Nat, Ascends(times),
           \A i \in DOMAIN times : times[i] <= now
    PROVE  /\ Ascends(Append(times, now))
           /\ \A i \in DOMAIN Append(times, now) : Append(times, now)[i] <= now
  <1> DEFINE more == Append(times, now)
  <1>1. /\ Len(times) \in Nat /\ DOMAIN times = 1 .. Len(times)
        /\ DOMAIN more = 1 .. Len(times) + 1 /\ more[Len(times) + 1] = now
        /\ \A i \in 1 .. Len(times) : more[i] = times[i]
    OBVIOUS
  <1> HIDE DEF more
  <1>2. \A i \in DOMAIN more : i \in DOMAIN times \/ i = Len(times) + 1
    BY <1>1
  <1>3. \A i \in DOMAIN more : more[i] <= now
    BY <1>1, <1>2
  <1>4. ASSUME NEW i \in DOMAIN more, NEW j \in DOMAIN more, i <= j PROVE more[i] <= more[j]
    <2>1. CASE j \in DOMAIN times
      <3>1. i \in DOMAIN times
        BY <1>1, <1>4, <2>1
      <3> QED BY <1>1, <1>4, <2>1, <3>1 DEF Ascends
    <2>2. CASE j = Len(times) + 1
      BY <1>1, <1>3, <2>2
    <2> QED BY <1>2, <2>1, <2>2
  <1>5. Ascends(more)
    BY <1>4 DEF Ascends
  <1> QED BY <1>3, <1>5 DEF more

(* A stamp and its time join their windows together.                       *)
LEMMA GrantKeeps ==
    ASSUME NEW stamps \in Seq(Nat), NEW times \in Seq(Nat), NEW late \in Int,
           NEW now \in Nat, NEW time \in Nat, now <= time, time <= now + MaxWait,
           Keeps(stamps, times, late)
    PROVE  Keeps(Append(stamps, now), Append(times, time), late)
  <1> DEFINE kept == Append(stamps, now)
             more == Append(times, time)
  <1>1. /\ Len(times) \in Nat /\ Len(more) = Len(times) + 1 /\ more[Len(times) + 1] = time
        /\ \A i \in 1 .. Len(times) : more[i] = times[i]
        /\ Len(stamps) \in Nat /\ Len(kept) = Len(stamps) + 1 /\ kept[Len(stamps) + 1] = now
        /\ \A i \in 1 .. Len(stamps) : kept[i] = stamps[i]
    OBVIOUS
  <1> HIDE DEF kept, more
  <1>2. Len(kept) <= Len(more) /\ Len(more) - Len(kept) = Len(times) - Len(stamps)
        /\ Len(stamps) <= Len(times)
    BY <1>1 DEF Keeps
  <1>3. ASSUME NEW i \in 1 .. Len(kept)
        PROVE  /\ kept[i] <= more[Len(more) - Len(kept) + i]
               /\ more[Len(more) - Len(kept) + i] <= kept[i] + MaxWait
    <2> DEFINE j == Len(times) - Len(stamps) + i
    <2>1. CASE i \in 1 .. Len(stamps)
      <3>1. j \in 1 .. Len(times) /\ Len(more) - Len(kept) + i = j
        BY <1>1, <1>2, <2>1
      <3>2. stamps[i] <= times[j] /\ times[j] <= stamps[i] + MaxWait
        BY <2>1 DEF Keeps
      <3> HIDE DEF j
      <3> QED BY <1>1, <2>1, <3>1, <3>2
    <2>2. CASE i = Len(stamps) + 1
      <3>1. Len(more) - Len(kept) + i = Len(times) + 1
        BY <1>1, <1>2, <2>2
      <3> QED BY <1>1, <2>2, <3>1
    <2> QED BY <1>1, <2>1, <2>2
  <1>4. ASSUME NEW i \in 1 .. Len(more) - Len(kept) PROVE more[i] <= late + MaxWait
    <2>1. i \in 1 .. Len(times) - Len(stamps) /\ i \in 1 .. Len(times)
      BY <1>1, <1>2
    <2> QED BY <1>1, <2>1 DEF Keeps
  <1>5. Keeps(kept, more, late)
    BY <1>2, <1>3, <1>4 DEF Keeps
  <1> QED BY <1>5 DEF kept, more

(* Later grants add to a span or leave it.                                 *)
LEMMA SpansGrow ==
    ASSUME NEW times \in Seq(Nat), NEW now \in Nat, NEW from, NEW to
    PROVE  Cardinality(Within(times, from, to)) <= Cardinality(Within(Append(times, now), from, to))
  <1>1. Within(times, from, to) \subseteq Within(Append(times, now), from, to)
    BY DEF Within
  <1>2. Append(times, now) \in Seq(Nat)
    OBVIOUS
  <1> QED BY <1>1, <1>2, WithinIsFinite, FS_Subset

(* A span before the grant does not see it.                                *)
LEMMA SpansBefore ==
    ASSUME NEW times \in Seq(Nat), NEW now \in Nat, NEW from, NEW to \in Int, to < now
    PROVE  Within(Append(times, now), from, to) = Within(times, from, to)
  <1> DEFINE more == Append(times, now)
  <1>1. /\ Len(times) \in Nat /\ DOMAIN times = 1 .. Len(times)
        /\ DOMAIN more = 1 .. Len(times) + 1 /\ more[Len(times) + 1] = now
        /\ \A i \in 1 .. Len(times) : more[i] = times[i]
    OBVIOUS
  <1> HIDE DEF more
  <1>2. \A i \in DOMAIN more : i \in DOMAIN times \/ i = Len(times) + 1
    BY <1>1
  <1>3. \A i \in DOMAIN times : i \in DOMAIN more /\ more[i] = times[i]
    BY <1>1
  <1>4. ASSUME NEW i \in Within(more, from, to) PROVE i \in Within(times, from, to)
    <2>1. i \in DOMAIN more /\ from < more[i] /\ more[i] <= to
      BY <1>4 DEF Within
    <2>2. i # Len(times) + 1
      BY <1>1, <2>1
    <2> QED BY <1>2, <1>3, <2>1, <2>2 DEF Within
  <1>5. Within(times, from, to) \subseteq Within(more, from, to)
    BY <1>3 DEF Within
  <1> QED BY <1>4, <1>5 DEF more

(* At the start nothing is counted and nobody waits.                       *)
LEMMA QuotaStarts == Quota!Init => QuotaInv
  <1> SUFFICES ASSUME Quota!Init PROVE QuotaInv
    OBVIOUS
  <1>1. /\ quotaClock = 0 /\ quotaWindows = [w \in QuotaWindows |-> <<>>]
        /\ quotaCallers = [c \in Callers |-> Quota!NoCaller] /\ quotaGranted = [w \in QuotaWindows |-> <<>>]
    BY DEF Quota!Init, QuotaWindows
  <1>2. quotaCallers \in [Callers -> QuotaCallers]
    BY <1>1 DEF QuotaCallers, Quota!NoCaller, QuotaWindows
  <1>3. ASSUME NEW from, NEW to PROVE Cardinality(Within(<<>>, from, to)) = 0
    <2>1. Within(<<>>, from, to) = {}
      BY DEF Within
    <2> QED BY <2>1, FS_EmptySet
  <1>4. ASSUME NEW w \in QuotaWindows, NEW t \in 0 .. quotaClock
        PROVE  Cardinality(Within(quotaGranted[w], t - (Window - MaxWait), t)) <= LimitOf(w)
    <2>1. Cardinality(Within(quotaGranted[w], t - (Window - MaxWait), t)) = 0
      BY <1>1, <1>3
    <2> QED BY <2>1, QuotaAssumption DEF LimitOf
  <1>5. \A w \in QuotaWindows : Keeps(quotaWindows[w], quotaGranted[w], quotaClock - Window) /\ Ascends(quotaGranted[w])
    BY <1>1 DEF Keeps, Ascends
  <1> QED BY <1>1, <1>2, <1>4, <1>5 DEF QuotaInv, Quota!NoCaller

(* The count of a set is the library's.                                    *)
LEMMA QuotaCounts == ASSUME NEW S PROVE Quota!Cardinality(S) = Cardinality(S)
  BY DEF Quota!Cardinality, Cardinality

(* The invariant keeps the promise.                                        *)
LEMMA QuotaInvSuffices == QuotaInv => Quota!QuotaIsExact
  <1> SUFFICES ASSUME QuotaInv PROVE Quota!QuotaIsExact
    OBVIOUS
  <1>1. \A w, t, n : Quota!Granted(w, t, n) = Cardinality(Within(quotaGranted[w], t - n, t))
    BY QuotaCounts DEF Quota!Granted, Within
  <1>2. ASSUME NEW t \in 0 .. quotaClock, GlobalLimit > 0 PROVE Quota!Granted(Quota!All, t, Window - MaxWait) <= GlobalLimit
    BY <1>1, <1>2 DEF QuotaInv, QuotaWindows, LimitOf
  <1>3. ASSUME NEW t \in 0 .. quotaClock, Limit > 0, NEW s \in Students PROVE Quota!Granted(s, t, Window - MaxWait) <= Limit
    BY <1>1, <1>3, QuotaAssumption DEF QuotaInv, QuotaWindows, LimitOf, Quota!All
  <1>4. ASSUME NEW c \in Callers, quotaCallers[c].at = "refused"
        PROVE  LET by == quotaCallers[c].stamp + MaxWait
                   span == Window + MaxWait
               IN  \/ Limit > 0 /\ Quota!Granted(quotaCallers[c].student, by, span) >= Limit
                   \/ GlobalLimit > 0 /\ Quota!Granted(Quota!All, by, span) >= GlobalLimit
    <2> DEFINE now == quotaCallers[c].stamp
    <2>1. now \in Nat /\ quotaCallers[c].student \in Students /\ quotaCallers[c].student # Quota!All
      BY <1>4, QuotaAssumption DEF QuotaInv, QuotaCallers, Quota!All
    <2> DEFINE by == now + MaxWait
               span == Window + MaxWait
               start == now - Window
    <2>2. by - span = start
      BY <2>1, QuotaAssumption
    <2>3. \E w \in {quotaCallers[c].student, Quota!All} : WasUsedUp(quotaGranted[w], LimitOf(w), now)
      BY <1>4 DEF QuotaInv, Refused
    <2>4. \A w : WasUsedUp(quotaGranted[w], LimitOf(w), now)
                   => LimitOf(w) > 0 /\ Cardinality(Within(quotaGranted[w], start, by)) >= LimitOf(w)
      BY DEF WasUsedUp
    <2> HIDE DEF by, span, start
    <2>5. \A w : Quota!Granted(w, by, span) = Cardinality(Within(quotaGranted[w], start, by))
      BY <1>1, <2>2
    <2>6. LimitOf(quotaCallers[c].student) = Limit /\ LimitOf(Quota!All) = GlobalLimit
      BY <2>1 DEF LimitOf
    <2>7. \/ Limit > 0 /\ Quota!Granted(quotaCallers[c].student, by, span) >= Limit
          \/ GlobalLimit > 0 /\ Quota!Granted(Quota!All, by, span) >= GlobalLimit
      BY <2>3, <2>4, <2>5, <2>6
    <2> QED BY <2>7 DEF by, span
  <1> QED BY <1>2, <1>3, <1>4 DEF Quota!QuotaIsExact

(* The windows of one step are what matters of it: what was trimmed keeps, *)
(* and what was granted fits.                                              *)
LEMMA TrimmedKeep ==
    ASSUME QuotaInv, NEW w \in QuotaWindows, NEW now \in Nat, now <= quotaClock
    PROVE  /\ Quota!Trim(quotaWindows[w], now - Window) \in Seq(Nat)
           /\ LimitOf(w) > 0 =>
                 /\ Keeps(Quota!Trim(quotaWindows[w], now - Window), quotaGranted[w], quotaClock - Window)
                 /\ Len(Quota!Trim(quotaWindows[w], now - Window)) > 0
                       => Quota!Trim(quotaWindows[w], now - Window)[1] > now - Window
  <1> DEFINE cutoff == now - Window
             late == quotaClock - Window
  <1>1. /\ quotaWindows[w] \in Seq(Nat) /\ quotaGranted[w] \in Seq(Nat)
        /\ LimitOf(w) > 0 => Keeps(quotaWindows[w], quotaGranted[w], late)
    BY DEF QuotaInv
  <1>2. cutoff \in Int /\ late \in Int /\ cutoff <= late
    BY QuotaAssumption DEF QuotaInv
  <1> HIDE DEF cutoff, late
  <1>3. Quota!Trim(quotaWindows[w], cutoff) \in Seq(Nat)
    <2>1. Quota!FirstKept(quotaWindows[w], cutoff) \in 1 .. Len(quotaWindows[w]) + 1
      BY <1>1, <1>2, TrimStops
    <2> QED BY <1>1, <2>1 DEF Quota!Trim
  <1>4. LimitOf(w) > 0 => /\ Keeps(Quota!Trim(quotaWindows[w], cutoff), quotaGranted[w], late)
                          /\ Len(Quota!Trim(quotaWindows[w], cutoff)) > 0 => Quota!Trim(quotaWindows[w], cutoff)[1] > cutoff
    BY <1>1, <1>2, TrimKeeps
  <1> QED BY <1>3, <1>4 DEF cutoff, late

(* A window that is full once it is trimmed was used up.                   *)
LEMMA RefusalIsEarned ==
    ASSUME QuotaInv, NEW w \in QuotaWindows, NEW now \in Nat, now <= quotaClock, quotaClock <= now + MaxWait,
           Quota!Full(Quota!Trim(quotaWindows[w], now - Window), LimitOf(w))
    PROVE  WasUsedUp(quotaGranted[w], LimitOf(w), now)
  <1> DEFINE stamps == Quota!Trim(quotaWindows[w], now - Window)
             times == quotaGranted[w]
             late == quotaClock - Window
  <1>1. stamps \in Seq(Nat) /\ LimitOf(w) > 0 /\ Len(stamps) >= LimitOf(w) /\ Len(stamps) \in Nat
    BY TrimmedKeep DEF Quota!Full
  <1>2. LimitOf(w) \in Nat /\ Len(stamps) > 0
    BY <1>1, QuotaAssumption DEF LimitOf
  <1>3. Keeps(stamps, times, late) /\ stamps[1] > now - Window
    BY <1>1, <1>2, TrimmedKeep
  <1>4. times \in Seq(Nat) /\ Ascends(times) /\ late \in Int /\ quotaClock \in Nat
    BY QuotaAssumption DEF QuotaInv
  <1>5. \A i \in DOMAIN times : times[i] <= now + MaxWait
    <2>1. \A i \in DOMAIN times : times[i] \in Nat /\ times[i] <= quotaClock
      BY <1>4 DEF QuotaInv
    <2> QED BY <1>4, <2>1, QuotaAssumption
  <1> HIDE DEF stamps, times, late
  <1>6. Cardinality(Within(times, now - Window, now + MaxWait)) >= Len(stamps)
    BY <1>1, <1>2, <1>3, <1>4, <1>5, FullWasUsed
  <1>7. Cardinality(Within(times, now - Window, now + MaxWait)) \in Nat
    BY <1>4, WithinIsFinite
  <1> QED BY <1>1, <1>2, <1>6, <1>7 DEF WasUsedUp, times

(* Whoever reads the clock waits from now on.                              *)
LEMMA ReadClockKeeps == ASSUME QuotaInv, NEW c \in Callers, Quota!ReadClock(c) PROVE QuotaInv'
  <1>1. PICK s \in Students : quotaCallers' = [quotaCallers EXCEPT ![c] = [at |-> "waiting", student |-> s, stamp |-> quotaClock]]
    BY DEF Quota!ReadClock
  <1>2. UNCHANGED <<quotaClock, quotaWindows, quotaGranted>>
    BY DEF Quota!ReadClock
  <1>3. [at |-> "waiting", student |-> s, stamp |-> quotaClock] \in QuotaCallers
    BY DEF QuotaCallers, QuotaInv, QuotaWindows
  <1>4. quotaCallers' \in [Callers -> QuotaCallers]
    BY <1>1, <1>3 DEF QuotaInv
  <1>5. quotaClock <= quotaClock + MaxWait /\ quotaClock <= quotaClock
    BY QuotaAssumption DEF QuotaInv
  <1>6. \A d \in Callers : quotaCallers'[d].at # "idle" =>
          /\ quotaCallers'[d].student \in Students
          /\ quotaCallers'[d].stamp <= quotaClock /\ quotaClock <= quotaCallers'[d].stamp + MaxWait
    BY <1>1, <1>5 DEF QuotaInv
  <1>7. \A d \in Callers : quotaCallers'[d].at = "refused" => Refused(quotaGranted, quotaCallers'[d])
    BY <1>1 DEF QuotaInv
  <1> QED BY <1>2, <1>4, <1>6, <1>7 DEF QuotaInv

(* Whoever was refused is idle again.                                      *)
LEMMA RefuseKeeps == ASSUME QuotaInv, NEW c \in Callers, Quota!Refuse(c) PROVE QuotaInv'
  <1>1. quotaCallers' = [quotaCallers EXCEPT ![c] = Quota!NoCaller] /\ UNCHANGED <<quotaClock, quotaWindows, quotaGranted>>
    BY DEF Quota!Refuse
  <1>2. Quota!NoCaller \in QuotaCallers /\ Quota!NoCaller.at = "idle"
    BY DEF QuotaCallers, Quota!NoCaller, QuotaWindows
  <1> QED BY <1>1, <1>2 DEF QuotaInv

(* Time passes only while nobody has waited for as long as one may.        *)
LEMMA TickKeeps == ASSUME QuotaInv, Quota!Tick PROVE QuotaInv'
  <1>1. /\ quotaClock' = quotaClock + 1 /\ UNCHANGED <<quotaWindows, quotaCallers, quotaGranted>> /\ quotaClock \in Nat
        /\ \A c \in Callers : quotaCallers[c].at # "idle" =>
              quotaCallers[c].at = "waiting" /\ quotaClock - quotaCallers[c].stamp < MaxWait
    BY DEF Quota!Tick, QuotaInv
  <1>2. ASSUME NEW c \in Callers, quotaCallers[c].at # "idle"
        PROVE  /\ quotaCallers[c].student \in Students
               /\ quotaCallers[c].stamp <= quotaClock + 1 /\ quotaClock + 1 <= quotaCallers[c].stamp + MaxWait
    <2>1. quotaCallers[c].stamp \in Nat /\ quotaCallers[c].stamp <= quotaClock /\ quotaCallers[c].student \in Students
      BY <1>2 DEF QuotaInv, QuotaCallers
    <2> QED BY <1>1, <1>2, <2>1, QuotaAssumption
  <1>3. ASSUME NEW w \in QuotaWindows
        PROVE  \A i \in DOMAIN quotaGranted[w] : quotaGranted[w][i] <= quotaClock + 1
    <2>1. \A i \in DOMAIN quotaGranted[w] : quotaGranted[w][i] \in Nat /\ quotaGranted[w][i] <= quotaClock
      BY DEF QuotaInv
    <2> QED BY <1>1, <2>1
  <1>4. ASSUME NEW w \in QuotaWindows, LimitOf(w) > 0
        PROVE  Keeps(quotaWindows[w], quotaGranted[w], quotaClock + 1 - Window)
    <2>1. Keeps(quotaWindows[w], quotaGranted[w], quotaClock - Window) /\ quotaGranted[w] \in Seq(Nat) /\ quotaWindows[w] \in Seq(Nat)
      BY <1>4 DEF QuotaInv
    <2>2. ASSUME NEW i \in 1 .. Len(quotaGranted[w]) - Len(quotaWindows[w])
          PROVE  quotaGranted[w][i] <= quotaClock + 1 - Window + MaxWait
      <3>1. i \in 1 .. Len(quotaGranted[w]) /\ quotaGranted[w][i] \in Nat
        BY <2>1
      <3>2. quotaGranted[w][i] <= quotaClock - Window + MaxWait
        BY <2>1 DEF Keeps
      <3> QED BY <1>1, <3>1, <3>2, QuotaAssumption
    <2> QED BY <2>1, <2>2 DEF Keeps
  <1>5. ASSUME NEW w \in QuotaWindows, LimitOf(w) > 0, NEW t \in 0 .. quotaClock + 1
        PROVE  Cardinality(Within(quotaGranted[w], t - (Window - MaxWait), t)) <= LimitOf(w)
    <2>1. CASE t <= quotaClock
      BY <1>1, <1>5, <2>1 DEF QuotaInv
    <2>2. CASE t = quotaClock + 1
      <3> DEFINE times == quotaGranted[w]
                 n == Window - MaxWait
                 new == Within(times, t - n, t)
                 old == Within(times, quotaClock - n, quotaClock)
      <3>1. times \in Seq(Nat) /\ \A i \in DOMAIN times : times[i] \in Nat /\ times[i] <= quotaClock
        BY DEF QuotaInv
      <3>2. new \subseteq old
        BY <1>1, <2>2, <3>1, QuotaAssumption DEF Within
      <3>3. IsFiniteSet(old) /\ Cardinality(old) \in Nat
        BY <3>1, WithinIsFinite
      <3>4. Cardinality(old) <= LimitOf(w)
        BY <1>1, <1>5 DEF QuotaInv
      <3>5. Cardinality(new) \in Nat
        BY <3>1, WithinIsFinite
      <3> HIDE DEF new, old
      <3>7. Cardinality(new) <= Cardinality(old)
        BY <3>2, <3>3, FS_Subset
      <3>8. LimitOf(w) \in Nat
        BY QuotaAssumption DEF LimitOf
      <3>9. Cardinality(new) <= LimitOf(w)
        BY <3>3, <3>4, <3>5, <3>7, <3>8
      <3> QED BY <3>9 DEF new
    <2> QED BY <1>1, <2>1, <2>2
  <1>6. quotaClock + 1 \in Nat
    BY <1>1
  <1>7. /\ quotaWindows \in [QuotaWindows -> Seq(Nat)] /\ quotaGranted \in [QuotaWindows -> Seq(Nat)]
        /\ quotaCallers \in [Callers -> QuotaCallers] /\ \A w \in QuotaWindows : Ascends(quotaGranted[w])
        /\ \A c \in Callers : quotaCallers[c].at # "refused"
    BY <1>1 DEF QuotaInv
  <1>8. ASSUME NEW w \in QuotaWindows
        PROVE  /\ Ascends(quotaGranted'[w]) /\ \A i \in DOMAIN quotaGranted'[w] : quotaGranted'[w][i] <= quotaClock'
               /\ LimitOf(w) > 0 =>
                     /\ Keeps(quotaWindows'[w], quotaGranted'[w], quotaClock' - Window)
                     /\ \A t \in 0 .. quotaClock' :
                           Cardinality(Within(quotaGranted'[w], t - (Window - MaxWait), t)) <= LimitOf(w)
    <2>1. quotaClock' = quotaClock + 1 /\ quotaWindows' = quotaWindows /\ quotaGranted' = quotaGranted
      BY <1>1
    <2>2. Ascends(quotaGranted'[w]) /\ \A i \in DOMAIN quotaGranted'[w] : quotaGranted'[w][i] <= quotaClock'
      BY <1>3, <1>7, <2>1
    <2>3. LimitOf(w) > 0 => Keeps(quotaWindows'[w], quotaGranted'[w], quotaClock' - Window)
      <3>1. quotaClock + 1 - Window = quotaClock' - Window
        BY <1>1, <2>1, QuotaAssumption
      <3> QED BY <1>4, <2>1, <3>1, Zenon
    <2>4. LimitOf(w) > 0 => \A t \in 0 .. quotaClock' :
             Cardinality(Within(quotaGranted'[w], t - (Window - MaxWait), t)) <= LimitOf(w)
      BY <1>5, <2>1
    <2> QED BY <2>2, <2>3, <2>4
  <1>9. /\ \A c \in Callers : quotaCallers'[c].at # "idle" =>
             /\ quotaCallers'[c].student \in Students
             /\ quotaCallers'[c].stamp <= quotaClock' /\ quotaClock' <= quotaCallers'[c].stamp + MaxWait
        /\ \A c \in Callers : quotaCallers'[c].at # "refused"
    BY <1>1, <1>2, <1>7
  <1> QED BY <1>1, <1>6, <1>7, <1>8, <1>9 DEF QuotaInv

(* A request that is let in or refused under the lock.                     *)
LEMMA TryAcquireKeeps == ASSUME QuotaInv, NEW c \in Callers, Quota!TryAcquire(c) PROVE QuotaInv'
  <1> DEFINE s == quotaCallers[c].student
             now == quotaCallers[c].stamp
             trimmed == [w \in DOMAIN quotaWindows |-> Quota!Trim(quotaWindows[w], now - Window)]
  <1>1. /\ quotaCallers[c].at = "waiting" /\ quotaClock' = quotaClock
        /\ s \in Students /\ s \in QuotaWindows /\ Quota!All \in QuotaWindows
        /\ now \in Nat /\ now <= quotaClock /\ quotaClock <= now + MaxWait
        /\ DOMAIN quotaWindows = QuotaWindows /\ DOMAIN quotaGranted = QuotaWindows
        /\ quotaWindows \in [QuotaWindows -> Seq(Nat)] /\ quotaGranted \in [QuotaWindows -> Seq(Nat)]
        /\ quotaCallers \in [Callers -> QuotaCallers] /\ quotaClock \in Nat
    BY DEF Quota!TryAcquire, QuotaInv, QuotaCallers, QuotaWindows
  <1>2. CASE \E w \in {s, Quota!All} : Quota!Full(trimmed[w], LimitOf(w))
    <2>1. quotaWindows' = trimmed /\ quotaCallers' = [quotaCallers EXCEPT ![c].at = "refused"] /\ quotaGranted' = quotaGranted
      BY <1>2 DEF Quota!TryAcquire, LimitOf
    <2>2. PICK w \in {s, Quota!All} : Quota!Full(trimmed[w], LimitOf(w))
      BY <1>2
    <2>3. w \in QuotaWindows /\ trimmed[w] = Quota!Trim(quotaWindows[w], now - Window)
      BY <1>1
    <2> HIDE DEF trimmed, now, s
    <2>4. WasUsedUp(quotaGranted[w], LimitOf(w), now)
      BY <1>1, <2>2, <2>3, RefusalIsEarned
    <2> DEFINE refused == [at |-> "refused", student |-> s, stamp |-> now]
    <2>5. Refused(quotaGranted, refused)
      BY <2>2, <2>4 DEF Refused
    <2>6. quotaCallers' = [quotaCallers EXCEPT ![c] = refused]
      <3>1. quotaCallers[c] = [at |-> quotaCallers[c].at, student |-> s, stamp |-> now]
        BY <1>1 DEF s, now, QuotaCallers
      <3>2. [quotaCallers[c] EXCEPT !.at = "refused"] = refused
        BY <3>1
      <3>3. quotaCallers' = [quotaCallers EXCEPT ![c] = [quotaCallers[c] EXCEPT !.at = "refused"]]
        BY <2>1
      <3> QED BY <3>2, <3>3
    <2>7. refused \in QuotaCallers /\ refused.student \in Students /\ refused.stamp <= quotaClock
          /\ quotaClock <= refused.stamp + MaxWait
      BY <1>1 DEF QuotaCallers
    <2> HIDE DEF refused
    <2>8. quotaCallers' \in [Callers -> QuotaCallers]
      BY <1>1, <2>6, <2>7
    <2>9. \A d \in Callers : quotaCallers'[d].at # "idle" =>
             /\ quotaCallers'[d].student \in Students
             /\ quotaCallers'[d].stamp <= quotaClock /\ quotaClock <= quotaCallers'[d].stamp + MaxWait
      BY <1>1, <2>6, <2>7 DEF QuotaInv
    <2>10. \A d \in Callers : quotaCallers'[d].at = "refused" => Refused(quotaGranted, quotaCallers'[d])
      BY <1>1, <2>5, <2>6 DEF QuotaInv
    <2>11. ASSUME NEW v \in QuotaWindows
           PROVE  /\ quotaWindows'[v] \in Seq(Nat)
                  /\ LimitOf(v) > 0 => Keeps(quotaWindows'[v], quotaGranted[v], quotaClock - Window)
      <3>1. quotaWindows'[v] = Quota!Trim(quotaWindows[v], now - Window)
        BY <1>1, <2>1 DEF trimmed
      <3> QED BY <1>1, <3>1, TrimmedKeep
    <2>12. quotaWindows' \in [QuotaWindows -> Seq(Nat)]
      <3>1. quotaWindows' = [v \in QuotaWindows |-> quotaWindows'[v]]
        BY <1>1, <2>1 DEF trimmed
      <3> QED BY <2>11, <3>1
    <2>13. ASSUME NEW v \in QuotaWindows
           PROVE  /\ Ascends(quotaGranted[v]) /\ \A i \in DOMAIN quotaGranted[v] : quotaGranted[v][i] <= quotaClock
                  /\ LimitOf(v) > 0 => \A t \in 0 .. quotaClock :
                        Cardinality(Within(quotaGranted[v], t - (Window - MaxWait), t)) <= LimitOf(v)
      BY DEF QuotaInv
    <2> QED BY <1>1, <2>1, <2>8, <2>9, <2>10, <2>11, <2>12, <2>13 DEF QuotaInv
  <1>3. CASE ~ \E w \in {s, Quota!All} : Quota!Full(trimmed[w], LimitOf(w))
    <2>1. /\ quotaWindows' = [w \in DOMAIN quotaWindows |->
                 IF w \in {s, Quota!All} /\ LimitOf(w) > 0 THEN Append(trimmed[w], now) ELSE trimmed[w]]
          /\ quotaCallers' = [quotaCallers EXCEPT ![c] = Quota!NoCaller]
          /\ quotaGranted' = [w \in DOMAIN quotaGranted |->
                 IF w \in {s, Quota!All} THEN Append(quotaGranted[w], quotaClock) ELSE quotaGranted[w]]
      BY <1>3 DEF Quota!TryAcquire, LimitOf
    <2>2. ASSUME NEW w \in QuotaWindows
          PROVE  /\ quotaWindows'[w] \in Seq(Nat) /\ quotaGranted'[w] \in Seq(Nat)
                 /\ Ascends(quotaGranted'[w]) /\ \A i \in DOMAIN quotaGranted'[w] : quotaGranted'[w][i] <= quotaClock
                 /\ LimitOf(w) > 0 =>
                       /\ Keeps(quotaWindows'[w], quotaGranted'[w], quotaClock - Window)
                       /\ \A t \in 0 .. quotaClock :
                             Cardinality(Within(quotaGranted'[w], t - (Window - MaxWait), t)) <= LimitOf(w)
      <3> DEFINE stamps == Quota!Trim(quotaWindows[w], now - Window)
                 times == quotaGranted[w]
                 late == quotaClock - Window
      <3>1. /\ stamps \in Seq(Nat)
            /\ LimitOf(w) > 0 => Keeps(stamps, times, late)
        BY <1>1, TrimmedKeep
      <3>2. /\ times \in Seq(Nat) /\ Ascends(times) /\ \A i \in DOMAIN times : times[i] <= quotaClock
            /\ LimitOf(w) > 0 =>
                  \A t \in 0 .. quotaClock : Cardinality(Within(times, t - (Window - MaxWait), t)) <= LimitOf(w)
        BY DEF QuotaInv
      <3>3. /\ quotaWindows'[w] = IF w \in {s, Quota!All} /\ LimitOf(w) > 0 THEN Append(stamps, now) ELSE stamps
            /\ quotaGranted'[w] = IF w \in {s, Quota!All} THEN Append(times, quotaClock) ELSE times
        BY <1>1, <2>1
      <3>4. w \in {s, Quota!All} => ~Quota!Full(stamps, LimitOf(w))
        BY <1>1, <1>3
      <3>5. late \in Int
        BY <1>1, QuotaAssumption
      <3> HIDE DEF stamps, times, late, s, now
      <3>6. CASE w \notin {s, Quota!All}
        BY <3>1, <3>2, <3>3, <3>6 DEF late
      <3>7. CASE w \in {s, Quota!All}
        <4>1. Append(times, quotaClock) \in Seq(Nat) /\ Append(stamps, now) \in Seq(Nat)
          BY <1>1, <3>1, <3>2
        <4>2. Ascends(Append(times, quotaClock)) /\ \A i \in DOMAIN Append(times, quotaClock) : Append(times, quotaClock)[i] <= quotaClock
          BY <1>1, <3>2, LaterAscends
        <4>3. LimitOf(w) > 0 => Keeps(Append(stamps, now), Append(times, quotaClock), late)
          BY <1>1, <3>1, <3>2, <3>5, GrantKeeps
        <4>4. ASSUME LimitOf(w) > 0, NEW t \in 0 .. quotaClock
              PROVE  Cardinality(Within(Append(times, quotaClock), t - (Window - MaxWait), t)) <= LimitOf(w)
          <5>1. CASE t = quotaClock
            <6>1. Cardinality(Within(Append(times, quotaClock), t - (Window - MaxWait), t)) <= Len(stamps) + 1
              BY <1>1, <3>1, <3>2, <4>4, <5>1, GrantedFits DEF late
            <6>2. Len(stamps) + 1 <= LimitOf(w) /\ LimitOf(w) \in Nat /\ Len(stamps) \in Nat
              BY <3>1, <3>4, <3>7, <4>4, QuotaAssumption DEF Quota!Full, LimitOf
            <6>3. Cardinality(Within(Append(times, quotaClock), t - (Window - MaxWait), t)) \in Nat
              BY <4>1, WithinIsFinite
            <6> QED BY <6>1, <6>2, <6>3
          <5>2. CASE t # quotaClock
            <6>1. t \in Int /\ t < quotaClock
              BY <1>1, <5>2
            <6>2. Within(Append(times, quotaClock), t - (Window - MaxWait), t) = Within(times, t - (Window - MaxWait), t)
              BY <1>1, <3>2, <6>1, SpansBefore
            <6> QED BY <3>2, <4>4, <6>2
          <5> QED BY <5>1, <5>2
        <4>5. quotaGranted'[w] = Append(times, quotaClock)
          BY <3>3, <3>7
        <4>6. CASE LimitOf(w) > 0
          <5>1. quotaWindows'[w] = Append(stamps, now)
            BY <3>3, <3>7, <4>6
          <5> QED BY <4>1, <4>2, <4>3, <4>4, <4>5, <4>6, <5>1 DEF late
        <4>7. CASE ~(LimitOf(w) > 0)
          <5>1. quotaWindows'[w] = stamps
            BY <3>3, <4>7
          <5> QED BY <3>1, <4>1, <4>2, <4>5, <4>7, <5>1
        <4> QED BY <4>6, <4>7
      <3> QED BY <3>6, <3>7
    <2>3. quotaWindows' \in [QuotaWindows -> Seq(Nat)] /\ quotaGranted' \in [QuotaWindows -> Seq(Nat)]
      <3>1. quotaWindows' = [w \in QuotaWindows |-> quotaWindows'[w]] /\ quotaGranted' = [w \in QuotaWindows |-> quotaGranted'[w]]
        BY <1>1, <2>1
      <3> QED BY <2>2, <3>1
    <2>4. Quota!NoCaller \in QuotaCallers /\ Quota!NoCaller.at = "idle"
      BY DEF QuotaCallers, Quota!NoCaller, QuotaWindows
    <2>5. quotaCallers' \in [Callers -> QuotaCallers] /\ \A d \in Callers :
             quotaCallers'[d].at # "idle" => quotaCallers'[d] = quotaCallers[d] /\ quotaCallers[d].at # "idle"
      BY <1>1, <2>1, <2>4
    <2>6. ASSUME NEW w \in QuotaWindows, NEW stamp \in Nat, WasUsedUp(quotaGranted[w], LimitOf(w), stamp)
          PROVE  WasUsedUp(quotaGranted'[w], LimitOf(w), stamp)
      <3> DEFINE from == stamp - Window
                 to == stamp + MaxWait
      <3>1. Cardinality(Within(quotaGranted[w], from, to)) >= LimitOf(w) /\ LimitOf(w) > 0 /\ LimitOf(w) \in Nat
        BY <2>6, QuotaAssumption DEF WasUsedUp, LimitOf
      <3>2. quotaGranted'[w] = quotaGranted[w] \/ quotaGranted'[w] = Append(quotaGranted[w], quotaClock)
        BY <1>1, <2>1
      <3>3. quotaGranted[w] \in Seq(Nat) /\ quotaGranted'[w] \in Seq(Nat)
        BY <1>1, <2>2
      <3> HIDE DEF from, to
      <3>4. /\ Cardinality(Within(quotaGranted[w], from, to)) \in Nat
            /\ Cardinality(Within(quotaGranted'[w], from, to)) \in Nat
        BY <3>3, WithinIsFinite
      <3>5. Cardinality(Within(quotaGranted[w], from, to)) <= Cardinality(Within(Append(quotaGranted[w], quotaClock), from, to))
        BY <1>1, <3>3, SpansGrow
      <3>6. Cardinality(Within(quotaGranted[w], from, to)) <= Cardinality(Within(quotaGranted'[w], from, to))
        <4>1. CASE quotaGranted'[w] = quotaGranted[w]
          BY <3>4, <4>1
        <4>2. CASE quotaGranted'[w] = Append(quotaGranted[w], quotaClock)
          BY <3>5, <4>2
        <4> QED BY <3>2, <4>1, <4>2
      <3>7. Cardinality(Within(quotaGranted'[w], from, to)) >= LimitOf(w)
        BY <3>1, <3>4, <3>6
      <3> QED BY <3>1, <3>7 DEF WasUsedUp, from, to
    <2>7. ASSUME NEW d \in Callers, quotaCallers'[d].at = "refused" PROVE Refused(quotaGranted', quotaCallers'[d])
      <3>1. quotaCallers'[d] = quotaCallers[d] /\ quotaCallers[d].at = "refused"
        BY <2>5, <2>7
      <3>2. quotaCallers[d].stamp \in Nat /\ {quotaCallers[d].student, Quota!All} \subseteq QuotaWindows
        BY <1>1 DEF QuotaCallers
      <3>3. PICK w \in {quotaCallers[d].student, Quota!All} : WasUsedUp(quotaGranted[w], LimitOf(w), quotaCallers[d].stamp)
        BY <3>1 DEF QuotaInv, Refused
      <3>4. WasUsedUp(quotaGranted'[w], LimitOf(w), quotaCallers[d].stamp)
        BY <2>6, <3>2, <3>3
      <3> QED BY <3>1, <3>4 DEF Refused
    <2>8. \A d \in Callers : quotaCallers'[d].at # "idle" =>
             /\ quotaCallers'[d].student \in Students
             /\ quotaCallers'[d].stamp <= quotaClock /\ quotaClock <= quotaCallers'[d].stamp + MaxWait
      BY <2>5 DEF QuotaInv
    <2> HIDE DEF s, now, trimmed
    <2> QED BY <1>1, <2>2, <2>3, <2>5, <2>7, <2>8 DEF QuotaInv
  <1> QED BY <1>2, <1>3

(* Every step of the quota preserves the invariant.                        *)
LEMMA QuotaSteps == QuotaInv /\ [Quota!Next]_Quota!vars => QuotaInv'
  <1> SUFFICES ASSUME QuotaInv, [Quota!Next]_Quota!vars PROVE QuotaInv'
    OBVIOUS
  <1>1. CASE UNCHANGED Quota!vars
    BY <1>1 DEF Quota!vars, QuotaInv
  <1>2. CASE Quota!Next
    BY <1>2, ReadClockKeeps, TryAcquireKeeps, RefuseKeeps, TickKeeps DEF Quota!Next
  <1> QED BY <1>1, <1>2

-----------------------------------------------------------------------------
(* The whole: one part runs, and its steps are those of its module.        *)
LEMMA OnePartStarts ==
    Init => /\ which = "submission" => Submission!Init
            /\ which = "titles" => Titles!Init
            /\ which = "backfill" => Backfill!Init
            /\ which = "schema" => Schema!Init
            /\ which = "backup" => Backup!Init
            /\ which = "import" => Import!Init
            /\ which = "release" => Release!Init
            /\ which = "promotion" => Promotion!Init
            /\ which = "skills" => Skills!Init
            /\ which = "quiz" => Quiz!Init
            /\ which = "evidence" => Evidence!Init
            /\ which = "quota" => Quota!Init
  BY DEF Init

(* No step chooses another part, and one of the chosen part is a step of   *)
(* its module.                                                             *)
LEMMA OnePartSteps ==
    ASSUME [Next]_vars
    PROVE  /\ which' = which
           /\ which = "submission" => [Submission!Next]_Submission!vars
           /\ which = "titles" => [Titles!Next]_Titles!vars
           /\ which = "backfill" => [Backfill!Next]_Backfill!vars
           /\ which = "schema" => [Schema!Next]_Schema!vars
           /\ which = "backup" => [Backup!Next]_Backup!vars
           /\ which = "import" => [Import!Next]_Import!vars
           /\ which = "release" => [Release!Next]_Release!vars
           /\ which = "promotion" => [Promotion!Next]_Promotion!vars
           /\ which = "skills" => [Skills!Next]_Skills!vars
           /\ which = "quiz" => [Quiz!Next]_Quiz!vars
           /\ which = "evidence" => [Evidence!Next]_Evidence!vars
           /\ which = "quota" => [Quota!Next]_Quota!vars
  <1>1. CASE UNCHANGED vars
    <2> USE <1>1 DEF vars
    <2>1. UNCHANGED Submission!vars
      BY DEF submissionVars, Submission!vars
    <2>2. UNCHANGED Titles!vars
      BY DEF titlesVars, Titles!vars
    <2>3. UNCHANGED Backfill!vars
      BY DEF backfillVars, Backfill!vars
    <2>4. UNCHANGED Schema!vars
      BY DEF schemaVars, Schema!vars
    <2>5. UNCHANGED Backup!vars
      BY DEF backupVars, Backup!vars
    <2>6. UNCHANGED Import!vars
      BY DEF importVars, Import!vars
    <2>7. UNCHANGED Release!vars
      BY DEF releaseVars, Release!vars
    <2>8. UNCHANGED Promotion!vars
      BY DEF promotionVars, Promotion!vars
    <2>9. UNCHANGED Skills!vars
      BY DEF skillsVars, Skills!vars
    <2>10. UNCHANGED Quiz!vars
      BY DEF quizVars, Quiz!vars
    <2>11. UNCHANGED Evidence!vars
      BY DEF evidenceVars, Evidence!vars
    <2>12. UNCHANGED Quota!vars
      BY DEF quotaVars, Quota!vars
    <2> QED BY <2>1, <2>2, <2>3, <2>4, <2>5, <2>6, <2>7, <2>8, <2>9, <2>10, <2>11, <2>12
  <1>2. CASE Next
    BY <1>2 DEF Next, SkillsStep, QuotaStep, TitlesStep, SubmissionStep, ReadyStep, EvidenceStep, QuizStep,
                BackfillStep, BackupStep, SchemaStep, ReleaseStep, ImportStep, ChunksStep, PromotionStep
  <1> QED BY <1>1, <1>2

(* The submission stored first stands, for any requests that race, repeat  *)
(* and fail.                                                               *)
THEOREM SubmissionsStand == Spec => []FirstSubmissionStands
  <1> DEFINE Inv == which = "submission" => SubmissionInv
  <1>1. Init => Inv
    BY OnePartStarts, SubmissionStarts
  <1>2. Inv /\ [Next]_vars => Inv'
    BY OnePartSteps, SubmissionSteps
  <1>3. Inv => FirstSubmissionStands
    BY SubmissionInvSuffices DEF FirstSubmissionStands
  <1> QED BY <1>1, <1>2, <1>3, PTL DEF Spec

(* A title given by the model or the student is changed by the student     *)
(* only, for any messages, titles and tasks.                               *)
THEOREM TitlesStand == Spec => GivenTitlesStand
  <1> DEFINE Inv == which = "titles" => TitlesInv
  <1>1. Init => Inv
    BY OnePartStarts, TitlesStart
  <1>2. Inv /\ [Next]_vars => Inv' /\ [which = "titles" => Titles!GivenTitleStands]_vars
    <2> SUFFICES ASSUME Inv, [Next]_vars PROVE Inv' /\ [which = "titles" => Titles!GivenTitleStands]_vars
      OBVIOUS
    <2>1. which' = which /\ (which = "titles" => [Titles!Next]_Titles!vars)
      BY OnePartSteps
    <2>2. UNCHANGED Titles!vars => Titles!GivenTitleStands
      BY DEF Titles!vars, Titles!GivenTitleStands
    <2> QED BY <2>1, <2>2, TitlesSteps
  <1> QED BY <1>1, <1>2, PTL DEF Spec, GivenTitlesStand

(* An import adds to the database and changes nothing that is there, for   *)
(* any sessions and plans.                                                 *)
THEOREM BackfillsOnlyAdd == Spec => ImportOnlyAdds
  <1> DEFINE Inv == which = "backfill" => BackfillInv
  <1>1. Init => Inv
    BY OnePartStarts, BackfillStarts
  <1>2. Inv /\ [Next]_vars => Inv' /\ [which = "backfill" => Backfill!ImportAdds]_vars
    <2> SUFFICES ASSUME Inv, [Next]_vars PROVE Inv' /\ [which = "backfill" => Backfill!ImportAdds]_vars
      OBVIOUS
    <2>1. which' = which /\ (which = "backfill" => [Backfill!Next]_Backfill!vars)
      BY OnePartSteps
    <2>2. UNCHANGED Backfill!vars => Backfill!ImportAdds
      BY DEF Backfill!vars, Backfill!ImportAdds
    <2> QED BY <2>1, <2>2, BackfillSteps
  <1> QED BY <1>1, <1>2, PTL DEF Spec, ImportOnlyAdds

(* Every migration takes effect once and is recorded, for any processes    *)
(* that start together and any set of migrations.                          *)
THEOREM MigrationsTakeEffectOnce == Spec => []MigrationsApplyOnce
  <1> DEFINE Inv == which = "schema" => MigrationInv
  <1>1. Init => Inv
    BY OnePartStarts, MigrationStarts
  <1>2. Inv /\ [Next]_vars => Inv'
    BY OnePartSteps, MigrationSteps
  <1>3. Inv => MigrationsApplyOnce
    BY MigrationInvSuffices DEF MigrationsApplyOnce
  <1> QED BY <1>1, <1>2, <1>3, PTL DEF Spec

(* What is restored was live while its archive was made, for any number of *)
(* paths, archives and writes.                                             *)
THEOREM RestoresWereLive == Spec => []RestoredStateWasLive
  <1> DEFINE Inv == which = "backup" => BackupInv
  <1>1. Init => Inv
    BY OnePartStarts, BackupStarts
  <1>2. Inv /\ [Next]_vars => Inv'
    BY OnePartSteps, BackupsAreSound
  <1>3. Inv => RestoredStateWasLive
    BY BackupInvSuffices DEF RestoredStateWasLive
  <1> QED BY <1>1, <1>2, <1>3, PTL DEF Spec

(* A job that reads index_ready rests on the artifacts of one run over one *)
(* source, for any contents, runs and edits.                               *)
THEOREM ImportsAreWhole == Spec => []ImportIsWhole
  <1> DEFINE Inv == which = "import" => ImportInv
  <1>1. Init => Inv
    BY OnePartStarts, ImportStarts
  <1>2. Inv /\ [Next]_vars => Inv'
    BY OnePartSteps, ImportSteps
  <1>3. Inv => ImportIsWhole
    BY ImportInvSuffices DEF ImportIsWhole
  <1> QED BY <1>1, <1>2, <1>3, PTL DEF Spec

(* A promoted index holds the chunks its revision is the digest of, for    *)
(* any builders and promoters.                                             *)
THEOREM ReleasesAreSealed == Spec => []ReleaseIsSealed
  <1> DEFINE Inv == which = "release" => ReleaseInv
  <1>1. Init => Inv
    BY OnePartStarts, ReleaseStarts
  <1>2. Inv /\ [Next]_vars => Inv'
    BY OnePartSteps, ReleaseSteps
  <1>3. Inv => ReleaseIsSealed
    BY ReleaseInvSuffices DEF ReleaseIsSealed
  <1> QED BY <1>1, <1>2, <1>3, PTL DEF Spec

(* The index in place is whole, for any bundles, promoters, edits and      *)
(* failures on the way.                                                    *)
THEOREM PromotionsAreWhole == Spec => []PromotedIndexIsWhole
  <1> DEFINE Inv == which = "promotion" => PromotionInv
  <1>1. Init => Inv
    BY OnePartStarts, PromotionStarts
  <1>2. Inv /\ [Next]_vars => Inv'
    BY OnePartSteps, PromotionSteps
  <1>3. Inv => PromotedIndexIsWhole
    BY PromotionInvSuffices DEF PromotedIndexIsWhole
  <1> QED BY <1>1, <1>2, <1>3, PTL DEF Spec

(* A turn picks the skills that the manifests on disk make candidates and  *)
(* is refused only for a claimed name or an overlap, unless an edit fell   *)
(* into a discovery: for any threads, manifests and edits.                 *)
THEOREM PicksAreOfTheManifests == Spec => []PicksFollowTheManifests
  <1> DEFINE Inv == which = "skills" => SkillsInv
  <1>1. Init => Inv
    BY OnePartStarts, SkillsStart
  <1>2. Inv /\ [Next]_vars => Inv'
    BY OnePartSteps, SkillsSteps
  <1>3. Inv => PicksFollowTheManifests
    BY SkillsInvSuffices DEF PicksFollowTheManifests
  <1> QED BY <1>1, <1>2, <1>3, PTL DEF Spec

(* A published quiz was reviewed, for any slots, questions, members and    *)
(* verdicts, whatever fails, is retried or is repaired in between.         *)
THEOREM QuizzesAreReviewed == Spec => []PublishedQuizIsReviewed
  <1> DEFINE Inv == which = "quiz" => QuizInv
  <1>1. Init => Inv
    BY OnePartStarts, QuizStarts
  <1>2. Inv /\ [Next]_vars => Inv'
    BY OnePartSteps, QuizSteps
  <1>3. Inv => PublishedQuizIsReviewed
    BY QuizInvSuffices DEF PublishedQuizIsReviewed
  <1> QED BY <1>1, <1>2, <1>3, PTL DEF Spec

(* What a quiz is generated from supports it, for any documents,           *)
(* sentences, members and limits.                                          *)
THEOREM EvidenceStaysGrounded == Spec => []EvidenceSupportsTheTarget
  <1> DEFINE Inv == which = "evidence" => EvidenceInv
  <1>1. Init => Inv
    BY OnePartStarts, EvidenceStarts
  <1>2. Inv /\ [Next]_vars => Inv'
    BY OnePartSteps, EvidenceSteps
  <1>3. Inv => EvidenceSupportsTheTarget
    BY EvidenceInvSuffices DEF EvidenceSupportsTheTarget
  <1> QED BY <1>1, <1>2, <1>3, PTL DEF Spec

(* No window, less what a caller may wait for the lock, sees more granted  *)
(* than its limit, and whoever is refused had used it up: for any callers, *)
(* students, limits and windows.                                           *)
THEOREM QuotasAreExact == Spec => []QuotaIsExact
  <1> DEFINE Inv == which = "quota" => QuotaInv
  <1>1. Init => Inv
    BY OnePartStarts, QuotaStarts
  <1>2. Inv /\ [Next]_vars => Inv'
    BY OnePartSteps, QuotaSteps
  <1>3. Inv => QuotaIsExact
    BY QuotaInvSuffices DEF QuotaIsExact
  <1> QED BY <1>1, <1>2, <1>3, PTL DEF Spec
=============================================================================
