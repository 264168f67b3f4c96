--------------------------- MODULE Teaching_proofs ---------------------------
(***************************************************************************)
(* Proofs about the parts of a turn, each of which runs alone: an          *)
(* invariant per part, kept by the part's steps, and the theorems that say *)
(* so of Teaching.  The definitions of a part are those of its instance.   *)
(***************************************************************************)
EXTENDS Teaching, TLAPS, FiniteSetTheorems, SequenceTheorems

-----------------------------------------------------------------------------
(* Texts.                                                                  *)

Kinds == {"word", "blank", "fallback", "failure", "reply", "notice", "excerpt", "partial"}
Pieces == [kind : Kinds, call : Nat]
Texts == Seq(Pieces)

(* All words of a text come from call n; a text without words.             *)
Speaks(text, n) == \A i \in DOMAIN text : text[i].kind = "word" => text[i].call = n
Wordless(text) == \A i \in DOMAIN text : text[i].kind # "word"

(* A text that is shown may end with blanks while they are kept back.      *)
EndsInWord(text) == text = <<>> \/ text[Len(text)] # Agent!Blank

(* The pieces a text is built from, and that no word is a blank.           *)
LEMMA PieceTypes ==
    /\ Agent!Blank \in Pieces
    /\ \A n \in Nat : Agent!Word(n) \in Pieces /\ Agent!Word(n).kind = "word" /\ Agent!Word(n).call = n /\ Agent!Word(n) # Agent!Blank
    /\ \A k \in Kinds : Agent!Said(k) \in Pieces /\ Agent!Said(k).kind = k /\ (k # "blank" => Agent!Said(k) # Agent!Blank)
    /\ Agent!Blank.kind = "blank"
  <1>1. \A n \in Nat : Agent!Word(n) \in Pieces /\ Agent!Word(n).kind = "word" /\ Agent!Word(n).call = n
    BY DEF Pieces, Agent!Word, Kinds
  <1>2. \A k \in Kinds : Agent!Said(k) \in Pieces /\ Agent!Said(k).kind = k
    BY DEF Pieces, Agent!Said
  <1>3. Agent!Blank \in Pieces /\ Agent!Blank.kind = "blank"
    BY <1>2 DEF Agent!Blank, Kinds
  <1> QED BY <1>1, <1>2, <1>3

(* Blanks at the end of a text are trimmed away.                           *)
LEMMA BlankTail ==
    ASSUME NEW text \in Texts, NEW tail \in Texts, Agent!IsBlank(tail)
    PROVE  Agent!Trimmed(text \o tail) = Agent!Trimmed(text)
  <1> DEFINE all == text \o tail
             kept(s) == {i \in DOMAIN s : \E j \in DOMAIN s : i <= j /\ s[j] # Agent!Blank}
  <1>1. /\ all \in Texts /\ Len(all) = Len(text) + Len(tail) /\ Len(text) \in Nat /\ Len(tail) \in Nat
        /\ \A i \in 1 .. Len(text) : all[i] = text[i]
        /\ \A i \in Len(text) + 1 .. Len(all) : all[i] = tail[i - Len(text)]
        /\ DOMAIN all = 1 .. Len(all) /\ DOMAIN text = 1 .. Len(text) /\ DOMAIN tail = 1 .. Len(tail)
    BY ConcatProperties, LenProperties DEF Texts
  <1> HIDE DEF all
  <1>2. \A i \in Len(text) + 1 .. Len(all) : all[i] = Agent!Blank
    BY <1>1 DEF Agent!IsBlank
  <1>3. kept(all) = kept(text)
    <2>1. ASSUME NEW i \in kept(all) PROVE i \in kept(text)
      BY <1>1, <1>2
    <2>2. ASSUME NEW i \in kept(text) PROVE i \in kept(all)
      BY <1>1
    <2> QED BY <2>1, <2>2
  <1>4. \A i \in kept(text) : all[i] = text[i]
    BY <1>1
  <1> QED BY <1>3, <1>4 DEF Agent!Trimmed, all

(* Of two texts that trim to the same, both are blank or neither is.       *)
LEMMA SameTrimmed ==
    ASSUME NEW a \in Texts, NEW b \in Texts, Agent!Trimmed(a) = Agent!Trimmed(b), ~Agent!IsBlank(a)
    PROVE  ~Agent!IsBlank(b)
  <1>1. PICK j \in DOMAIN a : a[j] # Agent!Blank
    BY DEF Agent!IsBlank
  <1>2. j \in DOMAIN Agent!Trimmed(a)
    BY <1>1, LenProperties DEF Agent!Trimmed, Texts
  <1>3. j \in DOMAIN Agent!Trimmed(b)
    BY <1>2
  <1> QED BY <1>3 DEF Agent!Trimmed, Agent!IsBlank

(* A text that ends in a word is not blank.                                *)
LEMMA WordShows ==
    ASSUME NEW text \in Texts, EndsInWord(text), text # <<>>
    PROVE  ~Agent!IsBlank(text)
  BY LenProperties, EmptySeq DEF Texts, EndsInWord, Agent!IsBlank

(* A text with one more piece is a text, and says no more than that piece  *)
(* adds.                                                                   *)
LEMMA Appended ==
    ASSUME NEW text \in Texts, NEW piece \in Pieces
    PROVE  /\ Append(text, piece) \in Texts /\ Append(text, piece) # <<>>
           /\ piece # Agent!Blank => EndsInWord(Append(text, piece))
           /\ Agent!IsBlank(text) /\ piece = Agent!Blank => Agent!IsBlank(Append(text, piece))
           /\ \A n : Speaks(text, n) /\ (piece.kind = "word" => piece.call = n) => Speaks(Append(text, piece), n)
           /\ Wordless(text) /\ piece.kind # "word" => Wordless(Append(text, piece))
  BY AppendProperties, LenProperties DEF Texts, EndsInWord, Agent!IsBlank, Speaks, Wordless

(* Who speaks in a text depends on the pieces in it, not on their places.  *)
LEMMA SpokenBy ==
    ASSUME NEW text
    PROVE  /\ \A n : Speaks(text, n) <=> \A p \in Range(text) : p.kind = "word" => p.call = n
           /\ Wordless(text) <=> \A p \in Range(text) : p.kind # "word"
           /\ Agent!IsBlank(text) <=> \A p \in Range(text) : p = Agent!Blank
  BY DEF Speaks, Wordless, Agent!IsBlank, Range

(* A text says what its two parts say.                                     *)
LEMMA Parts ==
    ASSUME NEW text \in Texts, NEW tail \in Texts
    PROVE  /\ text \o tail \in Texts
           /\ \A n : Speaks(text \o tail, n) <=> Speaks(text, n) /\ Speaks(tail, n)
           /\ Wordless(text \o tail) <=> Wordless(text) /\ Wordless(tail)
           /\ Agent!IsBlank(text \o tail) <=> Agent!IsBlank(text) /\ Agent!IsBlank(tail)
  <1> DEFINE all == text \o tail
  <1>1. all \in Texts /\ Range(all) = Range(text) \cup Range(tail)
    BY ConcatProperties, RangeConcatenation DEF Texts
  <1> HIDE DEF all
  <1>2. \A n : Speaks(all, n) <=> Speaks(text, n) /\ Speaks(tail, n)
    BY <1>1, SpokenBy
  <1>3. Wordless(all) <=> Wordless(text) /\ Wordless(tail)
    BY <1>1, SpokenBy
  <1>4. Agent!IsBlank(all) <=> Agent!IsBlank(text) /\ Agent!IsBlank(tail)
    BY <1>1, SpokenBy
  <1> QED BY <1>1, <1>2, <1>3, <1>4 DEF all

(* A piece after the blanks kept back is a piece after the whole text.     *)
LEMMA KeptBack ==
    ASSUME NEW text \in Texts, NEW tail \in Texts, NEW piece \in Pieces
    PROVE  Append(text \o tail, piece) = text \o Append(tail, piece)
  <1>1. text \in Seq(Pieces) /\ tail \in Seq(Pieces) /\ text \o tail \in Seq(Pieces)
        /\ <<piece>> \in Seq(Pieces)
    BY Parts DEF Texts
  <1>2. Append(text \o tail, piece) = (text \o tail) \o <<piece>>
    BY <1>1, AppendIsConcat
  <1>3. Append(tail, piece) = tail \o <<piece>>
    BY <1>1, AppendIsConcat
  <1>4. \A a, b, c \in Seq(Pieces) : (a \o b) \o c = a \o (b \o c)
    BY ConcatAssociative
  <1>5. (text \o tail) \o <<piece>> = text \o (tail \o <<piece>>)
    BY <1>1, <1>4
  <1> QED BY <1>2, <1>3, <1>5

(* A blank text has no words.                                              *)
LEMMA BlankIsWordless ==
    ASSUME NEW text \in Texts, Agent!IsBlank(text) PROVE Wordless(text)
  BY PieceTypes DEF Agent!IsBlank, Wordless

(* A text without words can be taken for anyone's.                         *)
LEMMA WordlessSpeaks ==
    ASSUME NEW text, Wordless(text), NEW n PROVE Speaks(text, n)
  BY DEF Speaks, Wordless

(* The empty text.                                                         *)
LEMMA NoText == <<>> \in Texts /\ Agent!IsBlank(<<>>) /\ Wordless(<<>>) /\ <<>> \o <<>> = <<>> /\ EndsInWord(<<>>)
  BY EmptySeq, ConcatEmptySeq DEF Texts, Agent!IsBlank, Wordless, EndsInWord

(* A text of one sentence that the program itself says.                    *)
LEMMA OneSaid ==
    ASSUME NEW k \in Kinds \ {"word", "blank"}
    PROVE  <<Agent!Said(k)>> \in Texts /\ ~Agent!IsBlank(<<Agent!Said(k)>>) /\ Wordless(<<Agent!Said(k)>>) /\ <<Agent!Said(k)>> # <<>>
  BY PieceTypes DEF Texts, Agent!IsBlank, Wordless

-----------------------------------------------------------------------------
(* A turn.                                                                 *)

Handlers == {"none", "continue", "special", "schedule", "datetime", "assessment", "rag", "web",
             "python", "skill", "generic"}

IsTurn(t) ==
    t \in [asked : {t.asked}, route : {t.route}, handler : Handlers, stream : BOOLEAN,
           buffered : BOOLEAN, shown : Texts, held : Texts, out : Texts, final : Texts,
           degraded : BOOLEAN, attempted : BOOLEAN, used : BOOLEAN, fellBack : BOOLEAN]

(* The route of a turn is settled at its start.                            *)
SameRoute(t, u) ==
    /\ t.asked = u.asked /\ t.route = u.route /\ t.handler = u.handler
    /\ t.stream = u.stream /\ t.buffered = u.buffered

SameFlags(t, u) ==
    /\ t.degraded = u.degraded /\ t.attempted = u.attempted /\ t.used = u.used
    /\ t.fellBack = u.fellBack /\ t.final = u.final

(* What was passed on, what is kept back and the output are one text.      *)
TextIsOne(t) ==
    IF t.buffered THEN t.shown = <<>>
    ELSE /\ t.out = t.shown \o t.held /\ Agent!IsBlank(t.held)
         /\ t.handler = "continue" => t.held = <<>>
         /\ t.handler # "continue" => EndsInWord(t.shown)

(* Hearing a piece shows it or keeps it back, and loses nothing.           *)
LEMMA HearKeeps ==
    ASSUME NEW t, IsTurn(t), TextIsOne(t), NEW piece \in Pieces
    PROVE  /\ IsTurn(Agent!Hear(t, piece)) /\ TextIsOne(Agent!Hear(t, piece))
           /\ SameRoute(Agent!Hear(t, piece), t) /\ SameFlags(Agent!Hear(t, piece), t)
           /\ Agent!Hear(t, piece).out = Append(t.out, piece)
  <1> DEFINE out == Append(t.out, piece)
             shown == IF t.buffered \/ (t.handler # "continue" /\ piece = Agent!Blank) THEN t.shown
                      ELSE IF t.handler = "continue" THEN Append(t.shown, piece)
                      ELSE t.shown \o t.held \o <<piece>>
             held == IF t.buffered \/ t.handler = "continue" THEN t.held
                     ELSE IF piece = Agent!Blank THEN Append(t.held, piece) ELSE <<>>
             u == Agent!Hear(t, piece)
  <1>1. /\ u.out = out /\ u.shown = shown /\ u.held = held
        /\ SameRoute(u, t) /\ SameFlags(u, t)
        /\ u \in [asked : {t.asked}, route : {t.route}, handler : Handlers, stream : BOOLEAN,
                  buffered : BOOLEAN, shown : {shown}, held : {held}, out : {out}, final : Texts,
                  degraded : BOOLEAN, attempted : BOOLEAN, used : BOOLEAN, fellBack : BOOLEAN]
    BY DEF Agent!Hear, IsTurn, SameRoute, SameFlags
  <1>2. out \in Texts /\ shown \in Texts /\ held \in Texts
    <2>1. t.out \in Texts /\ t.shown \in Texts /\ t.held \in Texts
      BY DEF IsTurn
    <2>2. <<piece>> \in Texts /\ t.shown \o t.held \in Texts
      BY <2>1, Parts DEF Texts
    <2>3. t.shown \o t.held \o <<piece>> \in Texts
      BY <2>2, Parts
    <2> QED BY <2>1, <2>3, NoText, Appended
  <1>3. TextIsOne(u)
    <2>1. t.out \in Texts /\ t.shown \in Texts /\ t.held \in Texts
      BY DEF IsTurn
    <2>2. CASE t.buffered
      BY <1>1, <2>2 DEF TextIsOne, SameRoute
    <2>3. CASE ~t.buffered /\ t.handler = "continue"
      <3>1. t.held = <<>> /\ t.out = t.shown
        BY <2>1, <2>3, ConcatEmptySeq DEF TextIsOne, Texts
      <3>2. out = shown \o <<>> /\ held = <<>>
        BY <1>2, <2>3, <3>1, ConcatEmptySeq DEF Texts
      <3> HIDE DEF out, shown, held, u
      <3> QED BY <1>1, <2>3, <3>2, NoText DEF TextIsOne, SameRoute
    <2>4. CASE ~t.buffered /\ t.handler # "continue" /\ piece = Agent!Blank
      <3>1. shown = t.shown /\ held = Append(t.held, piece) /\ t.out = t.shown \o t.held
        BY <2>4 DEF TextIsOne
      <3>2. out = shown \o held
        <4>1. Append(t.shown \o t.held, piece) = t.shown \o Append(t.held, piece)
          BY <2>1, KeptBack
        <4> QED BY <3>1, <4>1
      <3>3. Agent!IsBlank(held) /\ EndsInWord(shown)
        BY <2>1, <2>4, <3>1, Appended DEF TextIsOne
      <3> HIDE DEF out, shown, held, u
      <3> QED BY <1>1, <2>4, <3>2, <3>3 DEF TextIsOne, SameRoute
    <2>5. CASE ~t.buffered /\ t.handler # "continue" /\ piece # Agent!Blank
      <3>1. shown = t.shown \o t.held \o <<piece>> /\ held = <<>> /\ t.out = t.shown \o t.held
        BY <2>5 DEF TextIsOne
      <3>2. shown = Append(t.out, piece)
        BY <2>1, <3>1, AppendIsConcat DEF Texts
      <3>3. out = shown \o held
        BY <1>2, <3>1, <3>2, ConcatEmptySeq DEF Texts
      <3>4. Agent!IsBlank(held) /\ EndsInWord(shown)
        BY <2>1, <2>5, <3>1, <3>2, Appended, NoText
      <3> HIDE DEF out, shown, held, u
      <3> QED BY <1>1, <2>5, <3>3, <3>4 DEF TextIsOne, SameRoute
    <2> QED BY <2>2, <2>3, <2>4, <2>5
  <1> HIDE DEF out, shown, held, u
  <1>4. IsTurn(u)
    BY <1>1, <1>2 DEF IsTurn, SameRoute
  <1> QED BY <1>1, <1>3, <1>4 DEF u, out

(* Words the output keeps while a text is heard.                           *)
LEMMA HearSays ==
    ASSUME NEW t, IsTurn(t), TextIsOne(t), NEW piece \in Pieces
    PROVE  /\ \A n : Speaks(t.out, n) /\ (piece.kind = "word" => piece.call = n) => Speaks(Agent!Hear(t, piece).out, n)
           /\ Wordless(t.out) /\ piece.kind # "word" => Wordless(Agent!Hear(t, piece).out)
  <1>1. Agent!Hear(t, piece).out = Append(t.out, piece)
    BY HearKeeps
  <1>2. t.out \in Texts
    BY DEF IsTurn
  <1> QED BY <1>1, <1>2, Appended

-----------------------------------------------------------------------------
(* The turn.                                                               *)

Speaking == {"handle", "model", "answer", "explain", "settle", "finalize"}
Ended == {"done", "failed", "continued"}
Places == Speaking \cup Ended \cup {"start", "finish", "remember", "abandoned"}

CallRecords == [n : Nat, streaming : BOOLEAN, attempt : Nat, pieces : Nat]
Memories == [answer : Texts, facts : BOOLEAN, practice : BOOLEAN, told : Texts, error : BOOLEAN]
EventNames == {"selected", "retrievalStart", "retrievalEnd", "error", "end"}

(* What the route says of the handler.                                     *)
IsRouted(t) ==
    LET signs == t.asked.signs
        lesson == signs \cap {"topic", "task"} # {}
        service == signs \cap {"unsafe", "quote", "decide"} # {}
        simple == t.asked.cues \cap {"datetime", "assessment", "schedule"} # {}
    IN  /\ t.handler = "web" => ~t.route.records
        /\ t.handler = "special" => ~t.route.learning
        /\ ~t.buffered => t.stream /\ t.handler \in {"rag", "web", "skill", "generic"}
        /\ service => t.handler = "special"
        /\ t.asked.web /\ ~lesson /\ signs \cap {"offTopic", "fact"} # {} => t.handler = "special"
        /\ t.asked.web /\ lesson /\ ~service /\ ~simple
           /\ signs \cap {"invest", "smalltalk"} = {} => t.handler = "web"

(* Where a turn can be, by its handler.                                    *)
RouteInv ==
    /\ agentTurn.handler = "none" => agentPc \in {"start", "failed"} /\ agentTurn.shown = <<>>
    /\ agentTurn.handler = "continue" =>
          ~agentTurn.buffered /\ agentTurn.stream /\ agentPc \in {"model", "settle", "continued", "failed", "abandoned"}
    /\ agentTurn.handler \notin {"none", "continue"} => IsRouted(agentTurn)
    /\ agentTurn.handler = "special" =>
          agentCall = Agent!NoCall /\ ~agentTurn.attempted /\ agentPc \notin {"model", "answer", "explain"}
    /\ agentTurn.fellBack => agentTurn.degraded \/ agentTurn.handler = "web"
    /\ agentPc = "continued" => agentTurn.handler = "continue"

StartInv ==
    /\ agentPc = "start" =>
          /\ agentTurn.handler = "none" /\ ~agentTurn.buffered /\ ~agentTurn.fellBack /\ ~agentTurn.attempted
          /\ agentTurn.out = <<>> /\ agentTurn.shown = <<>> /\ agentTurn.held = <<>>
          /\ agentCall = Agent!NoCall /\ agentEvents = <<>>
    /\ agentPc = "handle" => agentTurn.out = <<>> /\ ~agentTurn.attempted /\ ~agentTurn.fellBack

(* Output is one text, spoken by the latest call.                          *)
TextInv ==
    /\ Speaks(agentTurn.shown, agentCall.n)
    /\ agentPc \in Speaking => TextIsOne(agentTurn) /\ Speaks(agentTurn.out, agentCall.n)
    /\ agentPc \in {"model", "answer", "explain"} /\ (agentCall.pieces = 0 \/ ~agentCall.streaming) => Wordless(agentTurn.out)
    /\ agentPc = "answer" => agentTurn.handler = "rag" /\ agentCall.streaming
    /\ agentPc = "explain" => agentTurn.handler = "skill" /\ ~agentTurn.buffered /\ agentCall.streaming
    /\ agentPc = "finalize" => agentTurn.buffered
    /\ agentPc \in {"finish", "remember", "done"} =>
          ~Agent!IsBlank(agentTurn.final) /\ Agent!Trimmed(agentTurn.final) = Agent!Trimmed(agentTurn.shown)
    /\ agentPc = "failed" => agentTurn.shown = <<>> \/ ~Agent!IsBlank(agentTurn.shown) \/ agentTurn.handler = "continue"

EventInv ==
    /\ \A i \in DOMAIN agentEvents :
          /\ agentEvents[i] = "end" => i = Len(agentEvents) /\ agentPc = "done"
          /\ agentEvents[i] = "error" => i = Len(agentEvents) /\ agentPc = "failed"
    /\ agentPc = "done" => Len(agentEvents) \in DOMAIN agentEvents /\ agentEvents[Len(agentEvents)] = "end"
    /\ agentPc \in {"remember", "done"} /\ agentTurn.stream /\ agentTurn.attempted =>
          \E i \in DOMAIN agentEvents : agentEvents[i] = "retrievalEnd"

MemoryInv ==
    /\ agentPc # "done" => agentMemory.answer = <<>> /\ ~agentMemory.facts /\ ~agentMemory.practice
    /\ agentPc = "done" => agentMemory.answer = agentTurn.final /\ (agentMemory.facts \/ agentMemory.practice => ~agentTurn.fellBack)
    /\ agentMemory.error => agentPc = "failed"
    /\ agentMemory.told # <<>> =>
          /\ agentPc \in Ended /\ ~Agent!IsBlank(agentMemory.told)
          /\ agentTurn.shown # <<>> =>
                Agent!Trimmed(agentMemory.told) \in
                   {Agent!Trimmed(agentTurn.shown), Agent!Trimmed(<<Agent!Said("partial")>> \o agentTurn.shown)}

AgentInv ==
    /\ agentPc \in Places /\ IsTurn(agentTurn) /\ agentCall \in CallRecords /\ agentMemory \in Memories
    /\ agentEvents \in Seq(EventNames)
    /\ RouteInv /\ StartInv /\ TextInv /\ EventInv /\ MemoryInv

(* A turn starts with nothing shown and nothing remembered.                *)
LEMMA AgentStarts == Agent!Init => AgentInv
  <1> SUFFICES ASSUME Agent!Init PROVE AgentInv
    OBVIOUS
  <1>1. IsTurn(agentTurn)
    BY NoText DEF Agent!Init, IsTurn, Handlers
  <1>2. agentCall \in CallRecords /\ agentMemory \in Memories /\ agentEvents \in Seq(EventNames) /\ agentPc \in Places
    BY NoText, EmptySeq DEF Agent!Init, Agent!NoCall, CallRecords, Memories, Places
  <1>3. Speaks(<<>>, 0)
    BY NoText, WordlessSpeaks
  <1>4. RouteInv /\ StartInv
    BY DEF Agent!Init, RouteInv, StartInv
  <1>5. TextInv
    BY <1>3 DEF Agent!Init, TextInv, Agent!NoCall, Speaking
  <1>6. EventInv /\ MemoryInv
    BY DEF Agent!Init, EventInv, MemoryInv
  <1> QED BY <1>1, <1>2, <1>4, <1>5, <1>6 DEF AgentInv

(* The invariant of a turn implies that it teaches what it shows.          *)
LEMMA AgentInvSuffices == AgentInv => Agent!TurnsTeachWhatTheyShow
  <1> SUFFICES ASSUME AgentInv PROVE Agent!TurnsTeachWhatTheyShow
    OBVIOUS
  <1>1. Agent!ShownIsRemembered
    <2>1. DOMAIN agentEvents = 1 .. Len(agentEvents)
      BY LenProperties DEF AgentInv
    <2> QED BY <2>1 DEF AgentInv, TextInv, EventInv, MemoryInv, Agent!ShownIsRemembered, Agent!Last, Agent!Contains
  <1>2. Agent!OneCallSpeaks
    BY DEF AgentInv, TextInv, Speaks, Agent!OneCallSpeaks
  <1>3. Agent!OnlyAnswersTeach
    BY DEF AgentInv, MemoryInv, Agent!OnlyAnswersTeach
  <1>4. Agent!ReportIsWhole
    <2>1. \A i \in DOMAIN agentEvents : agentEvents[i] \in EventNames
      BY ElementOfSeq, LenProperties DEF AgentInv
    <2>2. \A i \in DOMAIN agentEvents : Agent!Payload(agentEvents[i]) # "progress" => i = Len(agentEvents)
      BY <2>1 DEF AgentInv, EventInv, Agent!Payload, EventNames
    <2> QED BY <2>2 DEF AgentInv, MemoryInv, Agent!ReportIsWhole
  <1>5. Agent!ScopeIsKept
    BY DEF AgentInv, RouteInv, IsRouted, Agent!ScopeIsKept
  <1> QED BY <1>1, <1>2, <1>3, <1>4, <1>5 DEF Agent!TurnsTeachWhatTheyShow

-----------------------------------------------------------------------------
(* The steps.                                                              *)

LEMMA EventsAppended ==
    ASSUME AgentInv, agentPc \notin {"done", "failed"}, NEW e \in EventNames
    PROVE  /\ Append(agentEvents, e) \in Seq(EventNames)
           /\ \A i \in DOMAIN agentEvents : agentEvents[i] \notin {"end", "error"}
           /\ Len(Append(agentEvents, e)) \in DOMAIN Append(agentEvents, e)
           /\ Append(agentEvents, e)[Len(Append(agentEvents, e))] = e
           /\ \A i \in DOMAIN Append(agentEvents, e) :
                 i = Len(Append(agentEvents, e)) \/ (i \in DOMAIN agentEvents /\ Append(agentEvents, e)[i] = agentEvents[i])
           /\ \A i \in DOMAIN agentEvents : i \in DOMAIN Append(agentEvents, e) /\ Append(agentEvents, e)[i] = agentEvents[i]
  <1>1. agentEvents \in Seq(EventNames)
    BY DEF AgentInv
  <1>2. \A i \in DOMAIN agentEvents : agentEvents[i] \notin {"end", "error"}
    BY DEF AgentInv, EventInv
  <1> QED BY <1>1, <1>2, AppendProperties, LenProperties

(* While the turn speaks, nothing has ended and nothing is remembered.     *)
LEMMA EventsGoOn ==
    ASSUME AgentInv, agentPc \notin {"done", "failed", "remember"}, agentPc' \notin {"done", "failed", "remember"},
           agentEvents' \in {agentEvents, Append(agentEvents, "retrievalEnd")}
    PROVE  agentEvents' \in Seq(EventNames) /\ EventInv'
  <1>1. CASE agentEvents' = agentEvents
    BY <1>1 DEF AgentInv, EventInv
  <1>2. CASE agentEvents' = Append(agentEvents, "retrievalEnd")
    <2>1. \A i \in DOMAIN agentEvents' : agentEvents'[i] \notin {"end", "error"}
      BY <1>2, EventsAppended, "retrievalEnd" \in EventNames DEF EventNames
    <2>2. agentEvents' \in Seq(EventNames)
      BY <1>2, EventsAppended, "retrievalEnd" \in EventNames DEF EventNames
    <2> QED BY <2>1, <2>2 DEF EventInv
  <1> QED BY <1>1, <1>2

(* Until the turn is done the memory promises what it promised.            *)
LEMMA MemoryStays ==
    ASSUME AgentInv, agentPc \notin Ended, agentPc' # "done", agentMemory' = agentMemory
    PROVE  agentMemory' \in Memories /\ MemoryInv'
  BY DEF AgentInv, MemoryInv, Ended

(* What is shown has no speaker that the output does not have.             *)
LEMMA ShownIsSpoken ==
    ASSUME NEW t, IsTurn(t), TextIsOne(t), NEW n, Speaks(t.out, n)
    PROVE  Speaks(t.shown, n)
  <1>1. CASE t.buffered
    BY <1>1, NoText, WordlessSpeaks DEF TextIsOne
  <1>2. CASE ~t.buffered
    <2>1. t.shown \in Texts /\ t.held \in Texts /\ t.out = t.shown \o t.held
      BY <1>2 DEF TextIsOne, IsTurn
    <2> QED BY <2>1, Parts
  <1> QED BY <1>1, <1>2

(* A turn that keeps its route stays routed.                               *)
LEMMA RouteStays ==
    ASSUME NEW t, NEW u, SameRoute(u, t), IsRouted(t) PROVE IsRouted(u)
  BY DEF SameRoute, IsRouted

(* A step within the turn keeps the invariant when it keeps route and      *)
(* text.                                                                   *)
LEMMA TurnGoesOn ==
    ASSUME AgentInv, agentPc \in Speaking, agentPc' \in Speaking \ {"handle"}, agentMemory' = agentMemory,
           agentEvents' \in {agentEvents, Append(agentEvents, "retrievalEnd")},
           agentCall' \in CallRecords, IsTurn(agentTurn'), SameRoute(agentTurn', agentTurn), TextIsOne(agentTurn'),
           Speaks(agentTurn'.out, agentCall'.n),
           agentTurn.handler = "continue" => agentPc' \in {"model", "settle"},
           agentTurn'.fellBack => agentTurn'.degraded \/ agentTurn.handler = "web",
           agentTurn.handler = "special" =>
              agentCall' = Agent!NoCall /\ ~agentTurn'.attempted /\ agentPc' \notin {"model", "answer", "explain"},
           agentPc' \in {"model", "answer", "explain"} /\ (agentCall'.pieces = 0 \/ ~agentCall'.streaming) =>
              Wordless(agentTurn'.out),
           agentPc' = "answer" => agentTurn.handler = "rag" /\ agentCall'.streaming,
           agentPc' = "explain" => agentTurn.handler = "skill" /\ ~agentTurn.buffered /\ agentCall'.streaming,
           agentPc' = "finalize" => agentTurn.buffered
    PROVE  AgentInv'
  <1>1. agentPc' \in Places /\ agentPc' \notin Ended \cup {"start", "handle", "finish", "remember"}
        /\ agentPc \notin Ended \cup {"start", "remember"}
    BY DEF Places, Speaking, Ended
  <1>2. agentEvents' \in Seq(EventNames) /\ EventInv'
    BY <1>1, EventsGoOn DEF Ended
  <1>3. agentMemory' \in Memories /\ MemoryInv'
    BY <1>1, MemoryStays DEF Ended
  <1>4. RouteInv'
    <2>1. agentTurn.handler # "none"
      BY <1>1 DEF AgentInv, RouteInv, Ended, Speaking
    <2>2. agentTurn'.handler \notin {"none", "continue"} => IsRouted(agentTurn')
      BY RouteStays DEF AgentInv, RouteInv, SameRoute
    <2> QED BY <1>1, <2>1, <2>2 DEF AgentInv, RouteInv, SameRoute, Ended
  <1>5. TextInv'
    <2>1. Speaks(agentTurn'.shown, agentCall'.n)
      BY ShownIsSpoken
    <2> QED BY <1>1, <2>1 DEF TextInv, SameRoute, Ended
  <1>6. StartInv'
    BY <1>1 DEF StartInv, Ended
  <1> QED BY <1>1, <1>2, <1>3, <1>4, <1>5, <1>6 DEF AgentInv

(* The types of the model call under way.                                  *)
LEMMA CallTypes ==
    ASSUME AgentInv
    PROVE  /\ agentCall.n \in Nat /\ agentCall.attempt \in Nat /\ agentCall.pieces \in Nat /\ agentCall.streaming \in BOOLEAN
           /\ Agent!NoCall \in CallRecords /\ Agent!Word(agentCall.n) \in Pieces /\ Agent!Word(agentCall.n + 1) \in Pieces
  <1>1. agentCall.n \in Nat /\ agentCall.attempt \in Nat /\ agentCall.pieces \in Nat /\ agentCall.streaming \in BOOLEAN
    BY DEF AgentInv, CallRecords
  <1> QED BY <1>1, PieceTypes DEF Agent!NoCall, CallRecords

(* A new call has a number of its own and has shown nothing.               *)
LEMMA NewCall ==
    ASSUME AgentInv, NEW streaming \in BOOLEAN, Agent!Calls(streaming)
    PROVE  /\ agentCall' \in CallRecords /\ agentCall'.n = agentCall.n + 1 /\ agentCall'.streaming = streaming
           /\ agentCall'.pieces = 0
  BY CallTypes DEF Agent!Calls, CallRecords

(* A streamed piece comes from the call under way.                         *)
LEMMA StreamPieceKeeps == ASSUME AgentInv, Agent!StreamPiece PROVE AgentInv'
  <1>1. PICK piece \in {Agent!Word(agentCall.n), Agent!Blank} : agentTurn' = Agent!Hear(agentTurn, piece)
    BY DEF Agent!StreamPiece
  <1>2. /\ agentPc \in {"model", "answer", "explain"} /\ agentCall.streaming
        /\ agentCall' = [agentCall EXCEPT !.pieces = @ + 1] /\ UNCHANGED <<agentPc, agentEvents, agentMemory>>
    BY DEF Agent!StreamPiece
  <1>3. /\ agentCall' \in CallRecords /\ agentCall'.n = agentCall.n /\ agentCall'.streaming = agentCall.streaming
        /\ agentCall'.pieces = agentCall.pieces + 1 /\ agentCall'.pieces # 0
    <2>1. agentCall' = [n |-> agentCall.n, streaming |-> agentCall.streaming, attempt |-> agentCall.attempt,
                   pieces |-> agentCall.pieces + 1]
      BY <1>2 DEF AgentInv, CallRecords
    <2> QED BY <2>1, CallTypes DEF CallRecords
  <1>4. piece \in Pieces /\ (piece.kind = "word" => piece.call = agentCall.n)
    BY CallTypes, PieceTypes
  <1>5. IsTurn(agentTurn) /\ TextIsOne(agentTurn) /\ Speaks(agentTurn.out, agentCall.n)
    BY <1>2 DEF AgentInv, TextInv, Speaking
  <1>6. /\ IsTurn(agentTurn') /\ TextIsOne(agentTurn') /\ SameRoute(agentTurn', agentTurn) /\ SameFlags(agentTurn', agentTurn)
        /\ Speaks(agentTurn'.out, agentCall'.n)
    BY <1>1, <1>3, <1>4, <1>5, HearKeeps, HearSays
  <1>7. agentPc \in Speaking /\ agentPc' \in Speaking \ {"handle"} /\ agentTurn.handler # "special"
        /\ (agentTurn.handler = "continue" => agentPc' \in {"model", "settle"})
    BY <1>2 DEF Speaking, AgentInv, RouteInv
  <1>8. agentTurn'.fellBack => agentTurn'.degraded \/ agentTurn.handler = "web"
    BY <1>6 DEF SameFlags, AgentInv, RouteInv
  <1>9. /\ agentPc' = "answer" => agentTurn.handler = "rag" /\ agentCall'.streaming
        /\ agentPc' = "explain" => agentTurn.handler = "skill" /\ ~agentTurn.buffered /\ agentCall'.streaming
        /\ agentPc' # "finalize"
    BY <1>2, <1>3 DEF AgentInv, TextInv
  <1> QED BY <1>2, <1>3, <1>6, <1>7, <1>8, <1>9, TurnGoesOn

(* The turn's text stands; a call may begin after it where it has no word. *)
LEMMA TextStands ==
    ASSUME AgentInv, agentPc \in Speaking, agentPc # "handle", agentPc' \in {"model", "settle"},
           UNCHANGED <<agentTurn, agentEvents, agentMemory>>,
           agentTurn.handler # "special" \/ (agentPc' = "settle" /\ agentCall' = agentCall),
           agentPc' = "model" => agentTurn.handler # "special",
           agentCall' \in CallRecords,
           agentCall' = agentCall \/ Wordless(agentTurn.out),
           agentPc' = "model" => Wordless(agentTurn.out)
    PROVE  AgentInv'
  <1>1. IsTurn(agentTurn') /\ SameRoute(agentTurn', agentTurn) /\ TextIsOne(agentTurn')
    BY DEF AgentInv, TextInv, SameRoute
  <1>2. Speaks(agentTurn'.out, agentCall'.n)
    BY WordlessSpeaks DEF AgentInv, TextInv
  <1>3. agentTurn'.fellBack => agentTurn'.degraded \/ agentTurn.handler = "web"
    BY DEF AgentInv, RouteInv
  <1>4. agentTurn.handler = "special" =>
           agentCall' = Agent!NoCall /\ ~agentTurn'.attempted /\ agentPc' \notin {"model", "answer", "explain"}
    BY DEF AgentInv, RouteInv
  <1> QED BY <1>1, <1>2, <1>3, <1>4, TurnGoesOn DEF Speaking

(* A call is made again only while it has said nothing.                    *)
LEMMA AgainKeeps == ASSUME AgentInv, Agent!StreamIsRetried \/ Agent!InvokeAgain PROVE AgentInv'
  <1>1. /\ agentPc = "model" /\ agentPc' = "model" /\ UNCHANGED <<agentTurn, agentEvents, agentMemory>>
        /\ agentCall.pieces = 0 \/ ~agentCall.streaming
        /\ agentCall'.n = agentCall.n + 1 /\ agentCall' \in CallRecords
    <2>1. CASE Agent!StreamIsRetried
      <3>1. agentCall' = [n |-> agentCall.n + 1, streaming |-> FALSE, attempt |-> 1, pieces |-> agentCall.pieces]
        BY <2>1 DEF Agent!StreamIsRetried, AgentInv, CallRecords
      <3>2. agentPc = "model" /\ agentCall.pieces = 0 /\ UNCHANGED <<agentPc, agentTurn, agentEvents, agentMemory>>
        BY <2>1 DEF Agent!StreamIsRetried
      <3> QED BY <3>1, <3>2, CallTypes DEF CallRecords
    <2>2. CASE Agent!InvokeAgain
      <3>1. agentCall' = [n |-> agentCall.n + 1, streaming |-> agentCall.streaming, attempt |-> agentCall.attempt + 1,
                     pieces |-> agentCall.pieces]
        BY <2>2 DEF Agent!InvokeAgain, AgentInv, CallRecords
      <3>2. agentPc = "model" /\ ~agentCall.streaming /\ UNCHANGED <<agentPc, agentTurn, agentEvents, agentMemory>>
        BY <2>2 DEF Agent!InvokeAgain
      <3> QED BY <3>1, <3>2, CallTypes DEF CallRecords
    <2> QED BY <2>1, <2>2
  <1>2. Wordless(agentTurn.out) /\ agentTurn.handler # "special" /\ agentPc \in Speaking /\ agentPc # "handle"
    BY <1>1 DEF AgentInv, TextInv, RouteInv, Speaking
  <1> QED BY <1>1, <1>2, TextStands

(* A stream that ends adds nothing; where nothing came, a buffered call    *)
(* may follow.                                                             *)
LEMMA StreamEndsKeeps == ASSUME AgentInv, Agent!StreamEnds PROVE AgentInv'
  <1>1. agentPc = "model" /\ agentCall.streaming /\ UNCHANGED <<agentTurn, agentEvents, agentMemory>>
    BY DEF Agent!StreamEnds
  <1>2. agentTurn.handler # "special" /\ agentPc \in Speaking /\ agentPc # "handle"
    BY <1>1 DEF AgentInv, RouteInv, Speaking
  <1>3. CASE agentCall.pieces = 0 /\ Agent!Calls(FALSE) /\ agentPc' = "model"
    <2>1. agentCall' \in CallRecords /\ Wordless(agentTurn.out)
      BY <1>1, <1>3, NewCall DEF AgentInv, TextInv
    <2> QED BY <1>1, <1>2, <1>3, <2>1, TextStands
  <1>4. CASE agentPc' = "settle" /\ agentCall' = agentCall
    BY <1>1, <1>2, <1>4, TextStands DEF AgentInv
  <1> QED BY <1>1, <1>3, <1>4 DEF Agent!StreamEnds

(* A call that returns at once speaks once.                                *)
LEMMA InvokeReturnsKeeps == ASSUME AgentInv, Agent!InvokeReturns PROVE AgentInv'
  <1>1. PICK piece \in {Agent!Word(agentCall.n), Agent!Said("fallback"), Agent!Said("failure")} : agentTurn' = Agent!Hear(agentTurn, piece)
    BY DEF Agent!InvokeReturns
  <1>2. agentPc = "model" /\ agentPc' = "settle" /\ ~agentCall.streaming /\ UNCHANGED <<agentCall, agentEvents, agentMemory>>
    BY DEF Agent!InvokeReturns
  <1>3. piece \in Pieces /\ (piece.kind = "word" => piece.call = agentCall.n)
    BY CallTypes, PieceTypes DEF Kinds
  <1>4. IsTurn(agentTurn) /\ TextIsOne(agentTurn) /\ Speaks(agentTurn.out, agentCall.n)
    BY <1>2 DEF AgentInv, TextInv, Speaking
  <1>5. /\ IsTurn(agentTurn') /\ TextIsOne(agentTurn') /\ SameRoute(agentTurn', agentTurn) /\ SameFlags(agentTurn', agentTurn)
        /\ Speaks(agentTurn'.out, agentCall'.n)
    BY <1>1, <1>2, <1>3, <1>4, HearKeeps, HearSays
  <1>6. agentTurn.handler # "special" /\ (agentTurn'.fellBack => agentTurn'.degraded \/ agentTurn.handler = "web")
    BY <1>2, <1>5 DEF SameFlags, AgentInv, RouteInv
  <1>7. agentPc \in Speaking /\ agentPc' \in Speaking \ {"handle"} /\ agentCall' \in CallRecords
    BY <1>2 DEF Speaking, AgentInv
  <1> QED BY <1>2, <1>5, <1>6, <1>7, TurnGoesOn

(* The text stays one when the turn changes nothing but its flags.         *)
LEMMA SameText ==
    ASSUME NEW t, NEW u, TextIsOne(t), SameRoute(u, t),
           u.shown = t.shown, u.held = t.held, u.out = t.out
    PROVE  TextIsOne(u)
  BY DEF TextIsOne, SameRoute

(* A handler that is chosen has heard and shown nothing.                   *)
LEMMA AtHandle ==
    ASSUME AgentInv, agentPc = "handle"
    PROVE  /\ IsTurn(agentTurn) /\ TextIsOne(agentTurn) /\ agentTurn.out = <<>> /\ Wordless(agentTurn.out)
           /\ ~agentTurn.attempted /\ ~agentTurn.fellBack /\ agentTurn.handler \notin {"none", "continue"}
           /\ agentPc \in Speaking /\ IsRouted(agentTurn) /\ agentCall \in CallRecords
           /\ agentTurn.handler = "special" => agentCall = Agent!NoCall
  BY NoText DEF AgentInv, TextInv, StartInv, RouteInv, Speaking

(* A turn that buffers has shown nothing yet.                              *)
LEMMA BufferedText ==
    ASSUME NEW t, NEW u, IsTurn(t), TextIsOne(t), t.buffered, SameRoute(u, t), u.shown = t.shown
    PROVE  TextIsOne(u)
  BY DEF TextIsOne, SameRoute

(* A reply made in one go shows nothing before it is final, also where it  *)
(* fails.                                                                  *)
LEMMA ReplyKeeps == ASSUME AgentInv, Agent!Reply \/ Agent!ReplyFails PROVE AgentInv'
  <1>1. agentPc = "handle" /\ Agent!AtOnce /\ agentPc' = "finalize" /\ UNCHANGED <<agentCall, agentEvents, agentMemory>>
    BY DEF Agent!Reply, Agent!ReplyFails
  <1>2. agentTurn.buffered
    BY <1>1, AtHandle DEF Agent!AtOnce, IsRouted
  <1>3. <<Agent!Said("reply")>> \in Texts /\ <<Agent!Said("failure")>> \in Texts /\ <<>> \in Texts
        /\ Wordless(<<Agent!Said("reply")>>) /\ Wordless(<<Agent!Said("failure")>>) /\ Wordless(<<>>)
    BY OneSaid, NoText DEF Kinds
  <1>4. /\ IsTurn(agentTurn') /\ SameRoute(agentTurn', agentTurn) /\ agentTurn'.shown = agentTurn.shown
        /\ Wordless(agentTurn'.out)
        /\ agentTurn'.fellBack => agentTurn'.degraded
        /\ agentTurn.handler = "special" => ~agentTurn'.attempted
    <2>1. CASE Agent!Reply
      <3>1. PICK text \in {<<Agent!Said("reply")>>, <<>>}, looksUp \in BOOLEAN :
               agentTurn' = [agentTurn EXCEPT !.out = text,
                     !.attempted = looksUp /\ agentTurn.handler = "skill" /\ agentTurn.stream]
        BY <2>1 DEF Agent!Reply
      <3> DEFINE looked == looksUp /\ agentTurn.handler = "skill" /\ agentTurn.stream
      <3>2. looked \in BOOLEAN /\ (agentTurn.handler = "special" => ~looked)
        OBVIOUS
      <3>3. agentTurn' = [agentTurn EXCEPT !.out = text, !.attempted = looked]
        BY <3>1
      <3> HIDE DEF looked
      <3>4. IsTurn(agentTurn') /\ SameRoute(agentTurn', agentTurn) /\ agentTurn'.shown = agentTurn.shown
            /\ agentTurn'.out = text /\ agentTurn'.fellBack = agentTurn.fellBack /\ agentTurn'.attempted = looked
        BY <1>1, <1>3, <3>2, <3>3, AtHandle DEF IsTurn, SameRoute
      <3> QED BY <1>1, <1>3, <3>2, <3>4, AtHandle
    <2>2. CASE Agent!ReplyFails
      <3> DEFINE text == IF agentTurn.handler = "assessment" THEN <<Agent!Said("failure")>> ELSE <<>>
      <3>1. agentTurn' = [agentTurn EXCEPT !.degraded = TRUE, !.fellBack = TRUE, !.out = text]
        BY <2>2 DEF Agent!ReplyFails
      <3>2. text \in Texts /\ Wordless(text)
        BY <1>3
      <3> HIDE DEF text
      <3>3. IsTurn(agentTurn') /\ SameRoute(agentTurn', agentTurn) /\ agentTurn'.shown = agentTurn.shown
            /\ agentTurn'.out = text /\ agentTurn'.degraded /\ agentTurn'.attempted = agentTurn.attempted
        BY <1>1, <3>1, <3>2, AtHandle DEF IsTurn, SameRoute
      <3> QED BY <1>1, <3>2, <3>3, AtHandle
    <2> QED BY <2>1, <2>2, <1>1
  <1>5. TextIsOne(agentTurn') /\ Speaks(agentTurn'.out, agentCall'.n)
    BY <1>1, <1>2, <1>4, AtHandle, BufferedText, WordlessSpeaks
  <1> QED BY <1>1, <1>2, <1>4, <1>5, AtHandle, TurnGoesOn DEF Speaking

(* A handler whose model call begins with nothing said.                    *)
LEMMA CallBegins ==
    ASSUME AgentInv, agentPc = "handle", agentPc' \in {"model", "answer", "explain"}, agentTurn.handler # "special",
           agentMemory' = agentMemory, agentEvents' \in {agentEvents, Append(agentEvents, "retrievalEnd")},
           NEW streaming \in BOOLEAN, Agent!Calls(streaming),
           IsTurn(agentTurn'), SameRoute(agentTurn', agentTurn), TextIsOne(agentTurn'), Wordless(agentTurn'.out),
           agentTurn'.fellBack => agentTurn'.degraded \/ agentTurn.handler = "web",
           agentPc' = "answer" => agentTurn.handler = "rag" /\ streaming,
           agentPc' = "explain" => agentTurn.handler = "skill" /\ ~agentTurn.buffered /\ streaming
    PROVE  AgentInv'
  <1>1. agentCall' \in CallRecords /\ agentCall'.streaming = streaming
    BY NewCall
  <1>2. Speaks(agentTurn'.out, agentCall'.n)
    BY WordlessSpeaks
  <1> QED BY <1>1, <1>2, AtHandle, TurnGoesOn DEF Speaking

(* The generic handler looks something up or not, and then calls the       *)
(* model.                                                                  *)
LEMMA GenericKeeps == ASSUME AgentInv, Agent!Generic PROVE AgentInv'
  <1>1. PICK looked \in BOOLEAN : agentTurn' = [agentTurn EXCEPT !.attempted = looked, !.used = looked]
    <2>1. PICK looksUp \in BOOLEAN :
             agentTurn' = [agentTurn EXCEPT !.attempted = looksUp /\ agentTurn.route.mode = "tools",
                                  !.used = looksUp /\ agentTurn.route.mode = "tools"]
      BY DEF Agent!Generic
    <2>2. (looksUp /\ agentTurn.route.mode = "tools") \in BOOLEAN
      OBVIOUS
    <2> QED BY <2>1, <2>2
  <1>2. agentPc = "handle" /\ agentTurn.handler = "generic" /\ Agent!Calls(agentTurn.stream) /\ agentPc' = "model"
        /\ UNCHANGED <<agentEvents, agentMemory>>
    BY DEF Agent!Generic
  <1>3. /\ IsTurn(agentTurn') /\ SameRoute(agentTurn', agentTurn) /\ agentTurn'.shown = agentTurn.shown
        /\ agentTurn'.held = agentTurn.held /\ agentTurn'.out = agentTurn.out /\ agentTurn'.fellBack = agentTurn.fellBack
        /\ agentTurn.stream \in BOOLEAN
    BY <1>1, <1>2, AtHandle DEF IsTurn, SameRoute
  <1>4. TextIsOne(agentTurn') /\ Wordless(agentTurn'.out) /\ ~agentTurn'.fellBack
    BY <1>2, <1>3, AtHandle, SameText
  <1> QED BY <1>2, <1>3, <1>4, CallBegins

(* A skill explains with a streamed call.                                  *)
LEMMA ExplainKeeps == ASSUME AgentInv, Agent!Explain PROVE AgentInv'
  <1>1. agentPc = "handle" /\ agentTurn.handler = "skill" /\ ~agentTurn.buffered /\ Agent!Calls(TRUE) /\ agentPc' = "explain"
        /\ UNCHANGED <<agentTurn, agentEvents, agentMemory>>
    BY DEF Agent!Explain
  <1>2. IsTurn(agentTurn') /\ SameRoute(agentTurn', agentTurn) /\ TextIsOne(agentTurn') /\ Wordless(agentTurn'.out) /\ ~agentTurn'.fellBack
    BY <1>1, AtHandle DEF SameRoute
  <1> QED BY <1>1, <1>2, CallBegins

(* Something is said and the handler's part is over, or a call begins.     *)
LEMMA SaysAndSettles ==
    ASSUME AgentInv, agentPc \in {"handle", "answer"}, agentPc' = "settle", agentTurn.handler # "special",
           UNCHANGED <<agentCall, agentMemory>>, agentEvents' \in {agentEvents, Append(agentEvents, "retrievalEnd")},
           NEW t, IsTurn(t), SameRoute(t, agentTurn), TextIsOne(t), Speaks(t.out, agentCall.n),
           t.fellBack => t.degraded \/ agentTurn.handler = "web",
           NEW k \in Kinds \ {"word"}, agentTurn' = Agent!Hear(t, Agent!Said(k))
    PROVE  AgentInv'
  <1>1. Agent!Said(k) \in Pieces /\ Agent!Said(k).kind # "word"
    BY PieceTypes
  <1>2. /\ IsTurn(agentTurn') /\ TextIsOne(agentTurn') /\ SameRoute(agentTurn', t) /\ SameFlags(agentTurn', t)
        /\ Speaks(agentTurn'.out, agentCall'.n)
    BY <1>1, HearKeeps, HearSays
  <1>3. SameRoute(agentTurn', agentTurn) /\ (agentTurn'.fellBack => agentTurn'.degraded \/ agentTurn.handler = "web")
    BY <1>2 DEF SameRoute, SameFlags
  <1>4. agentPc \in Speaking /\ agentTurn.handler # "continue" /\ agentCall' \in CallRecords
    BY AtHandle DEF Speaking, AgentInv, RouteInv
  <1> QED BY <1>2, <1>3, <1>4, TurnGoesOn DEF Speaking

(* Announcing adds at most the one event that retrieval ended.             *)
LEMMA AnnounceAppends ==
    ASSUME NEW t, Agent!Announce(t) PROVE agentEvents' \in {agentEvents, Append(agentEvents, "retrievalEnd")}
  BY DEF Agent!Announce

(* Before a handler has called the model the output has no words.          *)
LEMMA SpokenFor ==
    ASSUME AgentInv, agentPc = "handle", NEW t, t.out = agentTurn.out
    PROVE  Wordless(t.out) /\ Speaks(t.out, agentCall.n)
  BY AtHandle, WordlessSpeaks

(* Retrieval that answers is used, and the model is called with it.        *)
LEMMA RetrieveKeeps == ASSUME AgentInv, Agent!Retrieve PROVE AgentInv'
  <1> DEFINE used == [agentTurn EXCEPT !.attempted = TRUE, !.used = TRUE]
             tried == [agentTurn EXCEPT !.attempted = TRUE]
  <1>1. /\ agentPc = "handle" /\ agentTurn.handler = "rag" /\ agentMemory' = agentMemory
        /\ agentEvents' \in {agentEvents, Append(agentEvents, "retrievalEnd")}
    BY AnnounceAppends DEF Agent!Retrieve
  <1>2. /\ IsTurn(used) /\ SameRoute(used, agentTurn) /\ used.shown = agentTurn.shown
        /\ used.held = agentTurn.held /\ used.out = agentTurn.out /\ used.fellBack = agentTurn.fellBack
    BY <1>1, AtHandle DEF IsTurn, SameRoute
  <1>3. /\ IsTurn(tried) /\ SameRoute(tried, agentTurn) /\ tried.shown = agentTurn.shown
        /\ tried.held = agentTurn.held /\ tried.out = agentTurn.out /\ tried.fellBack = agentTurn.fellBack
    BY <1>1, AtHandle DEF IsTurn, SameRoute
  <1>4. \/ \E corrected \in BOOLEAN :
              /\ agentTurn' = IF corrected THEN Agent!Hear(used, Agent!Said("notice")) ELSE used
              /\ Agent!Calls(TRUE) /\ agentPc' = "answer"
        \/ agentTurn' = Agent!Hear(tried, Agent!Said("notice")) /\ agentPc' = "settle" /\ UNCHANGED agentCall
    BY DEF Agent!Retrieve
  <1> HIDE DEF used, tried
  <1>5. TextIsOne(used) /\ TextIsOne(tried) /\ ~used.fellBack /\ ~tried.fellBack
        /\ Wordless(used.out) /\ Speaks(tried.out, agentCall.n)
    BY <1>1, <1>2, <1>3, AtHandle, SameText, SpokenFor
  <1>6. "notice" \in Kinds \ {"word"} /\ Agent!Said("notice") \in Pieces /\ Agent!Said("notice").kind # "word"
    BY PieceTypes DEF Kinds
  <1>7. CASE agentTurn' = Agent!Hear(tried, Agent!Said("notice")) /\ agentPc' = "settle" /\ UNCHANGED agentCall
    BY <1>1, <1>3, <1>5, <1>6, <1>7, SaysAndSettles
  <1>8. ASSUME NEW corrected \in BOOLEAN,
               agentTurn' = IF corrected THEN Agent!Hear(used, Agent!Said("notice")) ELSE used,
               Agent!Calls(TRUE), agentPc' = "answer"
        PROVE  AgentInv'
    <2>1. CASE corrected
      <3>1. /\ IsTurn(agentTurn') /\ TextIsOne(agentTurn') /\ SameRoute(agentTurn', used) /\ SameFlags(agentTurn', used)
            /\ Wordless(agentTurn'.out)
        BY <1>2, <1>5, <1>6, <1>8, <2>1, HearKeeps, HearSays
      <3>2. SameRoute(agentTurn', agentTurn) /\ ~agentTurn'.fellBack
        BY <1>2, <1>5, <3>1 DEF SameRoute, SameFlags
      <3> QED BY <1>1, <1>8, <3>1, <3>2, CallBegins
    <2>2. CASE ~corrected
      BY <1>1, <1>2, <1>5, <1>8, <2>2, CallBegins
    <2> QED BY <2>1, <2>2
  <1> QED BY <1>4, <1>7, <1>8

(* Retrieval that fails degrades the turn and says so.                     *)
LEMMA RetrieveFailsKeeps == ASSUME AgentInv, Agent!RetrieveFails PROVE AgentInv'
  <1> DEFINE t == [agentTurn EXCEPT !.attempted = TRUE, !.degraded = TRUE, !.fellBack = TRUE]
  <1>1. /\ agentPc = "handle" /\ agentTurn.handler = "rag" /\ agentMemory' = agentMemory
        /\ agentEvents' \in {agentEvents, Append(agentEvents, "retrievalEnd")}
    BY AnnounceAppends DEF Agent!RetrieveFails
  <1>2. /\ IsTurn(t) /\ SameRoute(t, agentTurn) /\ t.shown = agentTurn.shown
        /\ t.held = agentTurn.held /\ t.out = agentTurn.out /\ t.degraded
    BY <1>1, AtHandle DEF IsTurn, SameRoute
  <1>3. \/ agentTurn' = Agent!Hear(t, Agent!Said("notice")) /\ Agent!Calls(TRUE) /\ agentPc' = "model"
        \/ agentTurn' = Agent!Hear(t, Agent!Said("failure")) /\ agentPc' = "settle" /\ UNCHANGED agentCall
    BY DEF Agent!RetrieveFails
  <1> HIDE DEF t
  <1>4. TextIsOne(t) /\ Wordless(t.out) /\ Speaks(t.out, agentCall.n)
    BY <1>1, <1>2, AtHandle, SameText, SpokenFor
  <1>5. /\ "failure" \in Kinds \ {"word"} /\ Agent!Said("notice") \in Pieces /\ Agent!Said("notice").kind # "word"
    BY PieceTypes DEF Kinds
  <1>6. CASE agentTurn' = Agent!Hear(t, Agent!Said("failure")) /\ agentPc' = "settle" /\ UNCHANGED agentCall
    BY <1>1, <1>2, <1>4, <1>5, <1>6, SaysAndSettles
  <1>7. CASE agentTurn' = Agent!Hear(t, Agent!Said("notice")) /\ Agent!Calls(TRUE) /\ agentPc' = "model"
    <2>1. /\ IsTurn(agentTurn') /\ TextIsOne(agentTurn') /\ SameRoute(agentTurn', t) /\ SameFlags(agentTurn', t)
          /\ Wordless(agentTurn'.out)
      BY <1>2, <1>4, <1>5, <1>7, HearKeeps, HearSays
    <2>2. SameRoute(agentTurn', agentTurn) /\ agentTurn'.degraded
      BY <1>2, <2>1 DEF SameRoute, SameFlags
    <2> QED BY <1>1, <1>7, <2>1, <2>2, CallBegins
  <1> QED BY <1>3, <1>6, <1>7

(* Research that finds nothing says so, and otherwise calls the model.     *)
LEMMA ResearchKeeps == ASSUME AgentInv, Agent!Research PROVE AgentInv'
  <1> DEFINE none == [agentTurn EXCEPT !.attempted = TRUE, !.fellBack = TRUE, !.degraded = ~agentTurn.stream]
             found == [agentTurn EXCEPT !.attempted = TRUE, !.used = TRUE]
  <1>1. agentPc = "handle" /\ agentTurn.handler = "web" /\ UNCHANGED <<agentEvents, agentMemory>> /\ agentTurn.stream \in BOOLEAN
    BY AtHandle DEF Agent!Research, IsTurn
  <1>2. /\ IsTurn(none) /\ SameRoute(none, agentTurn) /\ none.shown = agentTurn.shown
        /\ none.held = agentTurn.held /\ none.out = agentTurn.out
    BY <1>1, AtHandle DEF IsTurn, SameRoute
  <1>3. /\ IsTurn(found) /\ SameRoute(found, agentTurn) /\ found.shown = agentTurn.shown
        /\ found.held = agentTurn.held /\ found.out = agentTurn.out /\ found.fellBack = agentTurn.fellBack
    BY <1>1, AtHandle DEF IsTurn, SameRoute
  <1>4. \/ agentTurn' = Agent!Hear(none, Agent!Said("failure")) /\ agentPc' = "settle" /\ UNCHANGED agentCall
        \/ agentTurn' = found /\ Agent!Calls(agentTurn.stream) /\ agentPc' = "model"
    BY DEF Agent!Research
  <1> HIDE DEF none, found
  <1>5. TextIsOne(none) /\ Speaks(none.out, agentCall.n) /\ TextIsOne(found) /\ Wordless(found.out)
    BY <1>1, <1>2, <1>3, AtHandle, SameText, SpokenFor
  <1>6. "failure" \in Kinds \ {"word"}
    BY DEF Kinds
  <1>7. CASE agentTurn' = Agent!Hear(none, Agent!Said("failure")) /\ agentPc' = "settle" /\ UNCHANGED agentCall
    BY <1>1, <1>2, <1>5, <1>6, <1>7, SaysAndSettles
  <1>8. CASE agentTurn' = found /\ Agent!Calls(agentTurn.stream) /\ agentPc' = "model"
    BY <1>1, <1>3, <1>5, <1>8, CallBegins
  <1> QED BY <1>4, <1>7, <1>8

(* An answer that gave nothing is asked for once more, in one go.          *)
LEMMA AnswerEndsKeeps == ASSUME AgentInv, Agent!AnswerEnds PROVE AgentInv'
  <1>1. /\ agentPc = "answer" /\ agentPc' = "settle" /\ UNCHANGED <<agentEvents, agentMemory>>
        /\ agentTurn.handler = "rag" /\ agentPc \in Speaking
        /\ IsTurn(agentTurn) /\ TextIsOne(agentTurn) /\ agentCall \in CallRecords
        /\ agentTurn.fellBack => agentTurn.degraded \/ agentTurn.handler = "web"
    BY DEF Agent!AnswerEnds, AgentInv, TextInv, RouteInv, Speaking
  <1>2. CASE agentCall.pieces = 0
    <2>1. PICK piece \in {Agent!Word(agentCall.n + 1), Agent!Blank} : agentTurn' = Agent!Hear(agentTurn, piece)
      BY <1>2 DEF Agent!AnswerEnds
    <2>2. agentCall' \in CallRecords /\ agentCall'.n = agentCall.n + 1
      BY <1>2, NewCall DEF Agent!AnswerEnds
    <2>3. piece \in Pieces /\ (piece.kind = "word" => piece.call = agentCall.n + 1)
      BY CallTypes, PieceTypes
    <2>4. Speaks(agentTurn.out, agentCall.n + 1)
      BY <1>1, <1>2, WordlessSpeaks DEF AgentInv, TextInv
    <2>5. /\ IsTurn(agentTurn') /\ TextIsOne(agentTurn') /\ SameRoute(agentTurn', agentTurn) /\ SameFlags(agentTurn', agentTurn)
          /\ Speaks(agentTurn'.out, agentCall'.n)
      BY <1>1, <2>1, <2>2, <2>3, <2>4, HearKeeps, HearSays
    <2>6. agentTurn'.fellBack => agentTurn'.degraded \/ agentTurn.handler = "web"
      BY <1>1, <2>5 DEF SameFlags
    <2> QED BY <1>1, <2>2, <2>5, <2>6, TurnGoesOn DEF Speaking
  <1>3. CASE agentCall.pieces # 0
    <2>1. UNCHANGED <<agentTurn, agentCall>>
      BY <1>3 DEF Agent!AnswerEnds
    <2> QED BY <1>1, <2>1, TextStands
  <1> QED BY <1>2, <1>3

(* An answer that fails is followed by excerpts, and degrades the turn.    *)
LEMMA AnswerFailsKeeps == ASSUME AgentInv, Agent!AnswerFails PROVE AgentInv'
  <1> DEFINE t == [agentTurn EXCEPT !.degraded = TRUE, !.fellBack = TRUE]
  <1>1. /\ agentPc = "answer" /\ agentPc' = "settle" /\ UNCHANGED <<agentCall, agentMemory>>
        /\ agentEvents' \in {agentEvents, Append(agentEvents, "retrievalEnd")}
        /\ agentTurn.handler = "rag" /\ IsTurn(agentTurn) /\ TextIsOne(agentTurn) /\ Speaks(agentTurn.out, agentCall.n)
    BY AnnounceAppends DEF Agent!AnswerFails, AgentInv, TextInv, Speaking
  <1>2. /\ IsTurn(t) /\ SameRoute(t, agentTurn) /\ t.shown = agentTurn.shown
        /\ t.held = agentTurn.held /\ t.out = agentTurn.out /\ t.degraded
    BY <1>1 DEF IsTurn, SameRoute
  <1>3. agentTurn' = Agent!Hear(t, Agent!Said("excerpt"))
    BY DEF Agent!AnswerFails
  <1> HIDE DEF t
  <1>4. TextIsOne(t) /\ Speaks(t.out, agentCall.n) /\ "excerpt" \in Kinds \ {"word"}
    BY <1>1, <1>2, SameText DEF Kinds
  <1> QED BY <1>1, <1>2, <1>3, <1>4, SaysAndSettles

-----------------------------------------------------------------------------
(* How a turn ends.                                                        *)

(* What the student has read stands when the turn breaks off.              *)
LEMMA TurnBreaks ==
    ASSUME AgentInv, agentPc \in Speaking, agentPc' \in {"failed", "abandoned"} , UNCHANGED <<agentTurn, agentCall, agentMemory>>,
           agentEvents' = IF agentPc' = "failed" /\ agentTurn.handler # "continue"
                     THEN Append(agentEvents, "error") ELSE agentEvents
    PROVE  AgentInv'
  <1>1. agentPc \notin Ended /\ agentPc' # "done" /\ agentPc' \in Places /\ agentPc' \notin Speaking
    BY DEF Places, Speaking, Ended
  <1>2. agentMemory' \in Memories /\ MemoryInv'
    BY <1>1, MemoryStays
  <1>3. agentEvents' \in Seq(EventNames) /\ EventInv'
    <2>1. CASE agentEvents' = agentEvents
      BY <1>1, <2>1 DEF AgentInv, EventInv, Ended
    <2>2. CASE agentEvents' = Append(agentEvents, "error") /\ agentPc' = "failed"
      BY <1>1, <2>2, EventsAppended DEF EventInv, EventNames, Ended
    <2> QED BY <2>1, <2>2
  <1>4. TextInv'
    <2>1. IsTurn(agentTurn) /\ TextIsOne(agentTurn) /\ Speaks(agentTurn.shown, agentCall.n)
      BY DEF AgentInv, TextInv
    <2>2. agentTurn.shown = <<>> \/ ~Agent!IsBlank(agentTurn.shown) \/ agentTurn.handler = "continue"
      BY <2>1, WordShows DEF TextIsOne, IsTurn
    <2> QED BY <1>1, <2>1, <2>2 DEF TextInv, Speaking
  <1>5. RouteInv' /\ StartInv'
    BY DEF AgentInv, RouteInv, StartInv, Speaking
  <1> QED BY <1>1, <1>2, <1>3, <1>4, <1>5 DEF AgentInv

(* An exception ends a turn that streams and empties one that does not.    *)
LEMMA RaiseKeeps ==
    ASSUME AgentInv, agentPc \in Speaking, Agent!Raise, UNCHANGED <<agentCall, agentMemory>>,
           agentTurn.handler \notin {"continue", "special"}
    PROVE  AgentInv'
  <1>1. CASE agentTurn.buffered
    <2>1. agentTurn' = [agentTurn EXCEPT !.out = <<>>, !.degraded = TRUE, !.fellBack = TRUE]
          /\ agentPc' = "finalize" /\ UNCHANGED agentEvents
      BY <1>1 DEF Agent!Raise
    <2>2. IsTurn(agentTurn) /\ TextIsOne(agentTurn)
      BY DEF AgentInv, TextInv
    <2>3. IsTurn(agentTurn') /\ SameRoute(agentTurn', agentTurn) /\ agentTurn'.shown = agentTurn.shown /\ agentTurn'.degraded
          /\ agentTurn'.out = <<>>
      BY <2>1, <2>2, NoText DEF IsTurn, SameRoute
    <2>4. TextIsOne(agentTurn') /\ Speaks(agentTurn'.out, agentCall'.n)
      BY <1>1, <2>2, <2>3, BufferedText, NoText, WordlessSpeaks
    <2> QED BY <1>1, <2>1, <2>3, <2>4, TurnGoesOn DEF Speaking, AgentInv
  <1>2. CASE ~agentTurn.buffered
    BY <1>2, TurnBreaks DEF Agent!Raise
  <1> QED BY <1>1, <1>2

(* A stream that raises ends the turn with an error, or degrades it.       *)
LEMMA RaisingKeeps == ASSUME AgentInv, Agent!StreamRaises \/ Agent!ExplainEnds PROVE AgentInv'
  <1>1. agentPc \in {"model", "explain"} /\ agentPc \in Speaking /\ UNCHANGED <<agentCall, agentMemory>>
        /\ agentTurn.handler # "special" /\ agentPc # "handle"
    BY DEF Agent!StreamRaises, Agent!ExplainEnds, AgentInv, RouteInv, Speaking
  <1>2. \/ agentPc' = "settle" /\ UNCHANGED <<agentTurn, agentEvents>>
        \/ agentPc' = "failed" /\ UNCHANGED <<agentTurn, agentEvents>> /\ agentTurn.handler = "continue"
        \/ Agent!Raise /\ agentTurn.handler # "continue"
    BY DEF Agent!StreamRaises, Agent!ExplainEnds, AgentInv, TextInv
  <1>3. CASE agentPc' = "settle" /\ UNCHANGED <<agentTurn, agentEvents>>
    BY <1>1, <1>3, TextStands DEF AgentInv
  <1>4. CASE agentPc' = "failed" /\ UNCHANGED <<agentTurn, agentEvents>> /\ agentTurn.handler = "continue"
    BY <1>1, <1>4, TurnBreaks
  <1>5. CASE Agent!Raise /\ agentTurn.handler # "continue"
    BY <1>1, <1>5, RaiseKeeps
  <1> QED BY <1>2, <1>3, <1>4, <1>5

(* A turn that has its final text promises what the end needs.             *)
LEMMA TurnFinishes ==
    ASSUME AgentInv, agentPc \in {"finalize", "settle"}, agentTurn.handler # "continue", agentPc' = "finish",
           UNCHANGED <<agentCall, agentEvents, agentMemory>>, IsTurn(agentTurn'), SameRoute(agentTurn', agentTurn),
           Speaks(agentTurn'.shown, agentCall.n), ~Agent!IsBlank(agentTurn'.final),
           Agent!Trimmed(agentTurn'.final) = Agent!Trimmed(agentTurn'.shown),
           agentTurn'.fellBack => agentTurn'.degraded \/ agentTurn.handler = "web",
           agentTurn.handler = "special" => ~agentTurn'.attempted
    PROVE  AgentInv'
  <1>1. agentMemory' \in Memories /\ MemoryInv'
    BY MemoryStays DEF Ended
  <1>2. agentEvents' \in Seq(EventNames) /\ EventInv'
    BY EventsGoOn
  <1>3. TextInv' /\ StartInv'
    BY DEF TextInv, StartInv, Speaking
  <1>4. agentTurn'.handler # "none" /\ (agentTurn'.handler \notin {"none", "continue"} => IsRouted(agentTurn'))
    BY RouteStays DEF AgentInv, RouteInv, SameRoute
  <1>5. RouteInv'
    BY <1>4 DEF AgentInv, RouteInv, SameRoute
  <1> QED BY <1>1, <1>2, <1>3, <1>5 DEF AgentInv, Places

(* The final text is never blank, and has the speakers of the output.      *)
LEMMA FinalText ==
    ASSUME AgentInv, agentPc \in {"finalize", "settle"}, agentTurn.handler # "continue",
           NEW u \in Agent!Finalized(agentTurn)
    PROVE  /\ IsTurn(u) /\ SameRoute(u, agentTurn) /\ ~Agent!IsBlank(u.final) /\ Speaks(u.final, agentCall.n)
           /\ u.fellBack => u.degraded \/ agentTurn.handler = "web"
           /\ agentTurn.handler = "special" => ~u.attempted
           /\ u.final \in Texts
  <1>1. /\ IsTurn(agentTurn) /\ agentTurn.out \in Texts /\ Speaks(agentTurn.out, agentCall.n)
        /\ agentTurn.fellBack => agentTurn.degraded \/ agentTurn.handler = "web"
        /\ agentTurn.handler = "special" => ~agentTurn.attempted /\ ~agentTurn.route.learning
    BY DEF AgentInv, TextInv, RouteInv, IsRouted, IsTurn, Speaking
  <1>2. CASE ~Agent!IsBlank(agentTurn.out)
    <2>1. u = [agentTurn EXCEPT !.final = agentTurn.out]
      BY <1>2 DEF Agent!Finalized
    <2>2. IsTurn(u) /\ SameRoute(u, agentTurn) /\ u.final = agentTurn.out /\ u.fellBack = agentTurn.fellBack
          /\ u.degraded = agentTurn.degraded /\ u.attempted = agentTurn.attempted
      BY <1>1, <2>1 DEF IsTurn, SameRoute
    <2> QED BY <1>1, <1>2, <2>2
  <1>3. CASE Agent!IsBlank(agentTurn.out)
    <2> DEFINE failed == [agentTurn EXCEPT !.degraded = TRUE, !.fellBack = TRUE, !.final = <<Agent!Said("failure")>>]
               tried == [failed EXCEPT !.attempted = TRUE]
               grounded == [failed EXCEPT !.attempted = TRUE, !.used = TRUE, !.final = <<Agent!Said("excerpt")>>]
    <2>1. IF Agent!MayGround THEN u \in {tried, grounded} ELSE u = failed
      BY <1>3 DEF Agent!Finalized
    <2>2. /\ <<Agent!Said("failure")>> \in Texts /\ ~Agent!IsBlank(<<Agent!Said("failure")>>) /\ Wordless(<<Agent!Said("failure")>>)
          /\ <<Agent!Said("excerpt")>> \in Texts /\ ~Agent!IsBlank(<<Agent!Said("excerpt")>>) /\ Wordless(<<Agent!Said("excerpt")>>)
      BY OneSaid DEF Kinds
    <2>3. IsTurn(failed) /\ SameRoute(failed, agentTurn) /\ failed.final = <<Agent!Said("failure")>>
          /\ failed.degraded /\ failed.attempted = agentTurn.attempted
      BY <1>1, <2>2 DEF IsTurn, SameRoute
    <2> HIDE DEF failed
    <2>4. IsTurn(tried) /\ SameRoute(tried, failed) /\ tried.final = <<Agent!Said("failure")>> /\ tried.degraded
      BY <2>3 DEF IsTurn, SameRoute
    <2>5. IsTurn(grounded) /\ SameRoute(grounded, failed) /\ grounded.final = <<Agent!Said("excerpt")>>
          /\ grounded.degraded
      BY <2>2, <2>3 DEF IsTurn, SameRoute
    <2> HIDE DEF tried, grounded
    <2>6. SameRoute(tried, agentTurn) /\ SameRoute(grounded, agentTurn)
      BY <2>3, <2>4, <2>5 DEF SameRoute
    <2>7. Agent!MayGround => agentTurn.handler # "special"
      BY <1>1 DEF Agent!MayGround
    <2>8. IsTurn(u) /\ SameRoute(u, agentTurn) /\ u.degraded /\ (agentTurn.handler = "special" => ~u.attempted)
          /\ u.final \in {<<Agent!Said("failure")>>, <<Agent!Said("excerpt")>>}
      BY <1>1, <2>1, <2>3, <2>4, <2>5, <2>6, <2>7
    <2> QED BY <2>2, <2>8, WordlessSpeaks
  <1> QED BY <1>2, <1>3

(* A turn that shows its final text shows and remembers the same.          *)
LEMMA FinalIsShown ==
    ASSUME AgentInv, agentPc \in {"finalize", "settle"}, agentTurn.handler # "continue", agentPc' = "finish",
           UNCHANGED <<agentCall, agentEvents, agentMemory>>,
           NEW u \in Agent!Finalized(agentTurn), agentTurn' = [u EXCEPT !.shown = u.final]
    PROVE  AgentInv'
  <1>1. IsTurn(u) /\ SameRoute(u, agentTurn) /\ ~Agent!IsBlank(u.final) /\ Speaks(u.final, agentCall.n)
        /\ (u.fellBack => u.degraded \/ agentTurn.handler = "web")
        /\ (agentTurn.handler = "special" => ~u.attempted) /\ u.final \in Texts
    BY FinalText
  <1>2. /\ IsTurn(agentTurn') /\ SameRoute(agentTurn', u) /\ agentTurn'.shown = u.final /\ agentTurn'.final = u.final
        /\ agentTurn'.fellBack = u.fellBack /\ agentTurn'.degraded = u.degraded /\ agentTurn'.attempted = u.attempted
    BY <1>1 DEF IsTurn, SameRoute
  <1>3. SameRoute(agentTurn', agentTurn)
    BY <1>1, <1>2 DEF SameRoute
  <1> QED BY <1>1, <1>2, <1>3, TurnFinishes

(* A buffered text is shown once it is final.                              *)
LEMMA FinalizeKeeps == ASSUME AgentInv, Agent!Finalize PROVE AgentInv'
  <1>1. PICK u \in Agent!Finalized(agentTurn) : agentTurn' = [u EXCEPT !.shown = u.final]
    BY DEF Agent!Finalize
  <1>2. agentPc = "finalize" /\ agentPc' = "finish" /\ UNCHANGED <<agentCall, agentEvents, agentMemory>>
    BY DEF Agent!Finalize
  <1>3. agentTurn.handler # "continue"
    BY <1>2 DEF AgentInv, RouteInv
  <1> QED BY <1>1, <1>2, <1>3, FinalIsShown

(* Text that was streamed stands as it is; blank output is recovered.      *)
LEMMA SettleKeeps == ASSUME AgentInv, Agent!Settle PROVE AgentInv'
  <1>1. agentPc = "settle" /\ agentTurn.handler # "continue" /\ UNCHANGED <<agentCall, agentEvents, agentMemory>>
        /\ IsTurn(agentTurn) /\ TextIsOne(agentTurn) /\ Speaks(agentTurn.out, agentCall.n) /\ agentCall \in CallRecords
        /\ (agentTurn.fellBack => agentTurn.degraded \/ agentTurn.handler = "web")
        /\ (agentTurn.handler = "special" => ~agentTurn.attempted /\ agentCall = Agent!NoCall)
    BY DEF Agent!Settle, AgentInv, TextInv, RouteInv, Speaking
  <1>2. CASE agentTurn.buffered
    <2>1. agentPc' = "finalize" /\ UNCHANGED agentTurn /\ SameRoute(agentTurn, agentTurn)
      BY <1>1, <1>2 DEF Agent!Settle, SameRoute
    <2> QED BY <1>1, <1>2, <2>1, TurnGoesOn DEF Speaking
  <1>3. CASE ~agentTurn.buffered /\ Agent!IsBlank(agentTurn.out)
    <2>1. PICK u \in Agent!Finalized(agentTurn) : agentTurn' = [u EXCEPT !.shown = u.final]
      BY <1>3 DEF Agent!Settle
    <2> QED BY <1>1, <1>3, <2>1, FinalIsShown DEF Agent!Settle
  <1>4. CASE ~agentTurn.buffered /\ ~Agent!IsBlank(agentTurn.out)
    <2> DEFINE final == IF agentTurn.handler = "skill" THEN agentTurn.out ELSE agentTurn.shown
    <2>1. agentTurn' = [agentTurn EXCEPT !.final = final] /\ agentPc' = "finish"
      BY <1>4 DEF Agent!Settle
    <2>2. /\ agentTurn.out \in Texts /\ agentTurn.shown \in Texts /\ agentTurn.held \in Texts /\ Agent!IsBlank(agentTurn.held)
          /\ agentTurn.out = agentTurn.shown \o agentTurn.held
      BY <1>1, <1>4 DEF TextIsOne, IsTurn
    <2>3. Agent!Trimmed(agentTurn.out) = Agent!Trimmed(agentTurn.shown) /\ ~Agent!IsBlank(agentTurn.shown)
      BY <1>4, <2>2, BlankTail, Parts
    <2>4. final \in Texts /\ ~Agent!IsBlank(final) /\ Agent!Trimmed(final) = Agent!Trimmed(agentTurn.shown)
      BY <1>4, <2>2, <2>3
    <2> HIDE DEF final
    <2>5. IsTurn(agentTurn') /\ SameRoute(agentTurn', agentTurn) /\ agentTurn'.final = final /\ agentTurn'.shown = agentTurn.shown
          /\ agentTurn'.fellBack = agentTurn.fellBack /\ agentTurn'.degraded = agentTurn.degraded
          /\ agentTurn'.attempted = agentTurn.attempted
      BY <1>1, <2>1, <2>4 DEF IsTurn, SameRoute
    <2>6. Speaks(agentTurn'.shown, agentCall.n)
      BY <1>1, <2>5, ShownIsSpoken
    <2> QED BY <1>1, <2>1, <2>4, <2>5, <2>6, TurnFinishes
  <1> QED BY <1>2, <1>3, <1>4

(* Retrieval that was not announced is announced before the end.           *)
LEMMA AnnounceLateKeeps == ASSUME AgentInv, Agent!AnnounceLate PROVE AgentInv'
  <1>1. /\ agentPc = "finish" /\ agentPc' = "remember" /\ UNCHANGED <<agentTurn, agentCall, agentMemory>>
        /\ agentEvents' = IF agentTurn.stream /\ agentTurn.attempted /\ ~Agent!Contains(agentEvents, "retrievalEnd")
                     THEN Append(agentEvents, "retrievalEnd") ELSE agentEvents
    BY DEF Agent!AnnounceLate
  <1>2. agentMemory' \in Memories /\ MemoryInv'
    BY <1>1, MemoryStays DEF Ended
  <1>3. agentEvents' \in Seq(EventNames) /\ EventInv'
    <2>1. CASE agentEvents' = Append(agentEvents, "retrievalEnd")
      <3>1. agentPc \notin {"done", "failed"} /\ "retrievalEnd" \in EventNames
        BY <1>1 DEF EventNames
      <3>2. /\ agentEvents' \in Seq(EventNames)
            /\ Len(agentEvents') \in DOMAIN agentEvents' /\ agentEvents'[Len(agentEvents')] = "retrievalEnd"
            /\ \A i \in DOMAIN agentEvents' : agentEvents'[i] \notin {"end", "error"}
        BY <2>1, <3>1, EventsAppended
      <3> QED BY <1>1, <3>2 DEF EventInv
    <2>2. CASE agentEvents' = agentEvents /\ (agentTurn.stream /\ agentTurn.attempted => Agent!Contains(agentEvents, "retrievalEnd"))
      <3>1. DOMAIN agentEvents = 1 .. Len(agentEvents) /\ agentEvents \in Seq(EventNames)
        BY LenProperties DEF AgentInv
      <3> QED BY <1>1, <2>2, <3>1 DEF AgentInv, EventInv, Agent!Contains
    <2> QED BY <1>1, <2>1, <2>2
  <1>4. TextInv' /\ RouteInv' /\ StartInv'
    BY <1>1 DEF AgentInv, TextInv, RouteInv, StartInv, Speaking
  <1> QED BY <1>1, <1>2, <1>3, <1>4 DEF AgentInv, Places

(* Remembering stores the final text and sends the end of the turn.        *)
LEMMA RememberKeeps == ASSUME AgentInv, Agent!Remember PROVE AgentInv'
  <1>1. agentPc = "remember" /\ agentPc' = "done" /\ UNCHANGED <<agentTurn, agentCall>> /\ agentEvents' = Append(agentEvents, "end")
        /\ IsTurn(agentTurn)
    BY DEF Agent!Remember, AgentInv
  <1>2. PICK eligible \in BOOLEAN, scheduled \in BOOLEAN :
           agentMemory' = [agentMemory EXCEPT
                       !.answer = agentTurn.final,
                       !.facts = eligible /\ agentTurn.route.records /\ ~agentTurn.degraded
                                 /\ ~Agent!IsBlank(agentTurn.final),
                       !.practice = scheduled /\ agentTurn.route.records /\ ~agentTurn.degraded
                                 /\ (agentTurn.route.mode = "grounded" => agentTurn.used)]
    BY DEF Agent!Remember
  <1> DEFINE facts == eligible /\ agentTurn.route.records /\ ~agentTurn.degraded /\ ~Agent!IsBlank(agentTurn.final)
             practice == scheduled /\ agentTurn.route.records /\ ~agentTurn.degraded
                         /\ (agentTurn.route.mode = "grounded" => agentTurn.used)
  <1>3. facts \in BOOLEAN /\ practice \in BOOLEAN /\ (facts \/ practice => agentTurn.route.records /\ ~agentTurn.degraded)
    OBVIOUS
  <1>4. agentMemory' = [agentMemory EXCEPT !.answer = agentTurn.final, !.facts = facts, !.practice = practice]
    BY <1>2
  <1> HIDE DEF facts, practice
  <1>5. agentTurn.handler \notin {"none", "continue"} /\ agentMemory.told = <<>> /\ ~agentMemory.error
    BY <1>1 DEF AgentInv, RouteInv, MemoryInv, Ended
  <1>6. /\ agentMemory' \in Memories /\ agentMemory'.answer = agentTurn.final /\ agentMemory'.facts = facts
        /\ agentMemory'.practice = practice /\ agentMemory'.told = <<>> /\ ~agentMemory'.error
    <2>1. agentMemory' = [answer |-> agentTurn.final, facts |-> facts, practice |-> practice,
                     told |-> agentMemory.told, error |-> agentMemory.error]
      BY <1>4 DEF AgentInv, Memories
    <2>2. agentTurn.final \in Texts
      BY <1>1 DEF IsTurn
    <2>3. agentMemory.told = <<>> /\ agentMemory.error = FALSE /\ <<>> \in Texts
      BY <1>5, NoText DEF AgentInv, Memories
    <2> QED BY <1>3, <2>1, <2>2, <2>3 DEF Memories
  <1>7. agentTurn.route.records /\ ~agentTurn.degraded => ~agentTurn.fellBack
    BY <1>5 DEF AgentInv, RouteInv, IsRouted
  <1>8. MemoryInv'
    BY <1>1, <1>3, <1>6, <1>7 DEF MemoryInv
  <1>9. agentEvents' \in Seq(EventNames) /\ EventInv'
    <2>1. "end" \in EventNames
      BY DEF EventNames
    <2>2. agentTurn.stream /\ agentTurn.attempted => \E i \in DOMAIN agentEvents : agentEvents[i] = "retrievalEnd"
      BY <1>1 DEF AgentInv, EventInv
    <2> QED BY <1>1, <2>1, <2>2, EventsAppended DEF EventInv
  <1>10. TextInv' /\ RouteInv' /\ StartInv'
    BY <1>1 DEF AgentInv, TextInv, RouteInv, StartInv, Speaking
  <1> QED BY <1>1, <1>6, <1>8, <1>9, <1>10 DEF AgentInv, Places, Ended

(* A turn that breaks off after its text is settled remembers nothing      *)
(* more.                                                                   *)
LEMMA BreaksAfterwards ==
    ASSUME AgentInv, agentPc' \in {"failed", "abandoned", "continued"}, UNCHANGED <<agentTurn, agentCall, agentEvents, agentMemory>>,
           \/ agentPc \in {"finish", "remember"} /\ agentPc' # "continued"
           \/ agentPc = "settle" /\ agentTurn.handler = "continue" /\ agentPc' = "continued"
    PROVE  AgentInv'
  <1>1. agentMemory' \in Memories /\ MemoryInv'
    BY MemoryStays DEF Ended
  <1>2. EventInv' /\ StartInv' /\ RouteInv'
    BY DEF AgentInv, EventInv, StartInv, RouteInv
  <1>3. agentPc \in {"finish", "remember"} => ~Agent!IsBlank(agentTurn.shown)
    BY SameTrimmed DEF AgentInv, TextInv, IsTurn
  <1>4. TextInv'
    BY <1>3 DEF AgentInv, TextInv, Speaking
  <1> QED BY <1>1, <1>2, <1>4 DEF AgentInv, Places, Ended

(* A turn that cannot be remembered, was a continuation or is abandoned    *)
(* keeps the invariant.                                                    *)
LEMMA BreakingKeeps == ASSUME AgentInv, Agent!RememberFails \/ Agent!ContinueEnds \/ Agent!Abandon PROVE AgentInv'
  <1>1. CASE Agent!RememberFails
    BY <1>1, BreaksAfterwards DEF Agent!RememberFails
  <1>2. CASE Agent!ContinueEnds
    BY <1>2, BreaksAfterwards DEF Agent!ContinueEnds
  <1>3. CASE Agent!Abandon
    <2>1. agentPc \in Speaking \cup {"finish", "remember"} /\ agentPc' = "abandoned"
          /\ UNCHANGED <<agentTurn, agentCall, agentEvents, agentMemory>>
      BY <1>3 DEF Agent!Abandon, AgentInv, Places, Ended
    <2> QED BY <2>1, TurnBreaks, BreaksAfterwards
  <1> QED BY <1>1, <1>2, <1>3

-----------------------------------------------------------------------------
(* How a turn starts.                                                      *)

LEMMA LeastRule ==
    ASSUME NEW S \in SUBSET Nat, NEW m \in S, \A y \in S : m <= y
    PROVE  Agent!Min(S) = m
  <1>1. \A x \in S : (\A y \in S : x <= y) => x = m
    OBVIOUS
  <1> QED BY <1>1 DEF Agent!Min

(* The rules in the order of the router.                                   *)
LEMMA RuleTable ==
    /\ DOMAIN Agent!Rules = 1 .. 13
    /\ Agent!Rules[1] = "boundary" /\ Agent!Rules[2] = "datetime" /\ Agent!Rules[3] = "assessment"
    /\ Agent!Rules[4] = "schedule" /\ Agent!Rules[5] = "web"
  BY DEF Agent!Rules

(* The first rule that a question meets decides its intent.                *)
LEMMA FirstRule ==
    ASSUME NEW cues, NEW said
    PROVE  /\ "boundary" \in cues => Agent!Intent(cues, said) = "refusal"
           /\ "web" \in cues /\ cues \cap {"boundary", "datetime", "assessment", "schedule"} = {} =>
                 Agent!Intent(cues, said) = "web"
  <1> DEFINE taken == {i \in DOMAIN Agent!Rules : Agent!Rules[i] \in cues}
  <1>1. Agent!Intent(cues, said) = IF taken = {} THEN Agent!Semantic(cues, said) ELSE Agent!IntentOf(Agent!Rules[Agent!Min(taken)], cues)
    BY DEF Agent!Intent
  <1>2. taken \in SUBSET Nat /\ \A i \in taken : i \in 1 .. 13 /\ Agent!Rules[i] \in cues
    BY RuleTable
  <1>3. \A i \in 1 .. 13 : Agent!Rules[i] \in cues => i \in taken
    BY RuleTable
  <1> HIDE DEF taken
  <1>4. ASSUME "boundary" \in cues PROVE Agent!Intent(cues, said) = "refusal"
    <2>1. 1 \in taken /\ \A y \in taken : 1 <= y
      BY <1>2, <1>3, <1>4, RuleTable
    <2>2. Agent!Min(taken) = 1
      BY <1>2, <2>1, LeastRule
    <2> QED BY <1>1, <2>1, <2>2, RuleTable DEF Agent!IntentOf
  <1>5. ASSUME "web" \in cues, cues \cap {"boundary", "datetime", "assessment", "schedule"} = {}
        PROVE  Agent!Intent(cues, said) = "web"
    <2>1. 5 \in taken /\ 1 \notin taken /\ 2 \notin taken /\ 3 \notin taken /\ 4 \notin taken
      BY <1>2, <1>3, <1>5, RuleTable
    <2>2. \A y \in taken : 5 <= y
      BY <1>2, <2>1
    <2>3. Agent!Min(taken) = 5
      BY <1>2, <2>1, <2>2, LeastRule
    <2> QED BY <1>1, <2>1, <2>3, RuleTable DEF Agent!IntentOf
  <1> QED BY <1>4, <1>5

(* The handler of a route is one that may serve it: a refusal goes to no   *)
(* tool.                                                                   *)
LEMMA HandlerIsSound ==
    ASSUME NEW cues, NEW said
    PROVE  LET route == Agent!Decide(cues, said)
               handler == Agent!HandlerOf(route)
           IN  /\ handler \in Handlers \ {"none", "continue"}
               /\ handler = "web" => ~route.records
               /\ handler = "special" => ~route.learning
               /\ Agent!Intent(cues, said) = "refusal" => handler = "special"
               /\ Agent!Intent(cues, said) = "web" => handler = "web"
  <1> DEFINE intent == Agent!Intent(cues, said)
             route == Agent!Decide(cues, said)
  <1>1. /\ route.intent = intent
        /\ route.learning = (intent \in Agent!Learning \cup {"assessment"})
        /\ route.records = (intent \in Agent!Learning \ {"path", "misconception"})
        /\ intent \in {"refusal", "clarify"} => route.static
        /\ route.static => intent \in {"refusal", "clarify"}
        /\ intent = "web" => route.mode = "web"
        /\ intent = "refusal" => route.mode = "static"
    BY DEF Agent!Decide, Agent!RecordsEvents, Agent!Mode
  <1> HIDE DEF intent, route
  <1>2. Agent!HandlerOf(route) \in Handlers \ {"none", "continue"}
    BY DEF Agent!HandlerOf, Handlers
  <1>3. Agent!HandlerOf(route) = "web" => intent = "web"
    BY <1>1 DEF Agent!HandlerOf
  <1>4. Agent!HandlerOf(route) = "special" => route.static
    BY <1>1 DEF Agent!HandlerOf
  <1>5. intent = "refusal" => Agent!HandlerOf(route) = "special"
    BY <1>1 DEF Agent!HandlerOf
  <1>6. intent = "web" => Agent!HandlerOf(route) = "web"
    BY <1>1 DEF Agent!HandlerOf
  <1> QED BY <1>1, <1>2, <1>3, <1>4, <1>5, <1>6 DEF Agent!Learning, intent, route

(* A question that asks for an unsafe service, or for what is off the      *)
(* topic, meets the boundary; one about the lesson passes it.              *)
LEMMA CuesAreSound ==
    ASSUME NEW q \in TurnQuestions
    PROVE  LET signs == q.signs
               lesson == signs \cap {"topic", "task"} # {}
               service == signs \cap {"unsafe", "quote", "decide"} # {}
               simple == q.cues \cap {"datetime", "assessment", "schedule"} # {}
           IN  /\ service => "boundary" \in Agent!CuesOf(q)
               /\ q.web /\ ~lesson /\ signs \cap {"offTopic", "fact"} # {} => "boundary" \in Agent!CuesOf(q)
               /\ q.web /\ lesson /\ ~service /\ ~simple /\ signs \cap {"invest", "smalltalk"} = {} =>
                     /\ "web" \in Agent!CuesOf(q)
                     /\ Agent!CuesOf(q) \cap {"boundary", "datetime", "assessment", "schedule"} = {}
  <1>1. ASSUME q.signs \cap {"unsafe", "quote", "decide"} # {} PROVE ~Agent!InScope(q.signs, q.web)
    BY <1>1 DEF Agent!InScope, Agent!Commercial
  <1>2. ASSUME q.web, q.signs \cap {"topic", "task"} = {}, q.signs \cap {"offTopic", "fact"} # {}
        PROVE  ~Agent!InScope(q.signs, q.web)
    BY <1>2 DEF Agent!InScope
  <1>3. ASSUME q.signs \cap {"topic", "task"} # {}, q.signs \cap {"unsafe", "quote", "decide"} = {},
               q.signs \cap {"invest", "smalltalk"} = {}
        PROVE  Agent!InScope(q.signs, q.web)
    <2>1. q.signs \cap {"smalltalk", "unsafe"} = {} /\ ~Agent!Commercial(q.signs)
      BY <1>3 DEF Agent!Commercial
    <2> QED BY <1>3, <2>1 DEF Agent!InScope
  <1>4. ~Agent!InScope(q.signs, q.web) => "boundary" \in Agent!CuesOf(q)
    BY DEF Agent!CuesOf
  <1>5. ASSUME Agent!InScope(q.signs, q.web), q.web PROVE Agent!CuesOf(q) = q.cues \cup {"web"}
    BY <1>5 DEF Agent!CuesOf
  <1>6. "boundary" \notin q.cues
    BY TurnAssumption
  <1> QED BY <1>1, <1>2, <1>3, <1>4, <1>5, <1>6

(* Preparing fixes the route before anything is said.                      *)
LEMMA PrepareKeeps == ASSUME AgentInv, Agent!Prepare PROVE AgentInv'
  <1>1. PICK asked \in TurnQuestions, said \in Agent!Classified, stream \in BOOLEAN, postprocess \in BOOLEAN :
          LET route == Agent!Decide(Agent!CuesOf(asked), said)
              handler == Agent!HandlerOf(route)
          IN  /\ agentTurn' = [agentTurn EXCEPT !.asked = asked, !.route = route,
                    !.handler = handler, !.stream = stream,
                    !.buffered = \/ ~stream
                                 \/ handler \notin {"rag", "web", "skill", "generic"}
                                 \/ handler = "skill" /\ route.intent # "personal"
                                 \/ handler = "generic" /\ postprocess]
              /\ agentEvents' = IF stream /\ route.mode = "grounded"
                           THEN <<"selected", "retrievalStart">> ELSE <<"selected">>
    BY DEF Agent!Prepare
  <1> DEFINE route == Agent!Decide(Agent!CuesOf(asked), said)
             handler == Agent!HandlerOf(route)
             buffered == \/ ~stream
                         \/ handler \notin {"rag", "web", "skill", "generic"}
                         \/ handler = "skill" /\ route.intent # "personal"
                         \/ handler = "generic" /\ postprocess
  <1>2. /\ agentTurn' = [agentTurn EXCEPT !.asked = asked, !.route = route,
                       !.handler = handler, !.stream = stream, !.buffered = buffered]
        /\ agentEvents' \in {<<"selected", "retrievalStart">>, <<"selected">>}
    BY <1>1
  <1>3. /\ buffered \in BOOLEAN
        /\ ~buffered => stream /\ handler \in {"rag", "web", "skill", "generic"}
    OBVIOUS
  <1>4. /\ handler \in Handlers \ {"none", "continue"}
        /\ handler = "web" => ~route.records
        /\ handler = "special" => ~route.learning
        /\ "boundary" \in Agent!CuesOf(asked) => handler = "special"
        /\ "web" \in Agent!CuesOf(asked)
           /\ Agent!CuesOf(asked) \cap {"boundary", "datetime", "assessment", "schedule"} = {} =>
              handler = "web"
    BY HandlerIsSound, FirstRule
  <1> HIDE DEF route, handler, buffered
  <1>5. agentPc = "start" /\ agentPc' = "handle" /\ UNCHANGED <<agentCall, agentMemory>>
    BY DEF Agent!Prepare
  <1>6. /\ IsTurn(agentTurn') /\ agentTurn'.asked = asked /\ agentTurn'.route = route /\ agentTurn'.handler = handler
        /\ agentTurn'.stream = stream /\ agentTurn'.buffered = buffered
        /\ agentTurn'.out = agentTurn.out /\ agentTurn'.shown = agentTurn.shown /\ agentTurn'.held = agentTurn.held
        /\ agentTurn'.attempted = agentTurn.attempted /\ agentTurn'.fellBack = agentTurn.fellBack
    BY <1>2, <1>3, <1>4 DEF AgentInv, IsTurn
  <1>7. IsRouted(agentTurn')
    BY <1>3, <1>4, <1>6, CuesAreSound DEF IsRouted
  <1>8. RouteInv' /\ StartInv'
    BY <1>4, <1>5, <1>6, <1>7 DEF AgentInv, RouteInv, StartInv
  <1>9. TextInv'
    <2>1. agentTurn'.out = <<>> /\ agentTurn'.shown = <<>> /\ agentTurn'.held = <<>> /\ agentCall' = agentCall
      BY <1>5, <1>6 DEF AgentInv, StartInv
    <2>2. TextIsOne(agentTurn') /\ Speaks(agentTurn'.shown, agentCall'.n) /\ Speaks(agentTurn'.out, agentCall'.n)
      BY <2>1, NoText, WordlessSpeaks DEF TextIsOne
    <2> QED BY <1>5, <2>2 DEF TextInv
  <1>10. agentMemory' \in Memories /\ MemoryInv'
    BY <1>5, MemoryStays DEF Ended
  <1>11. agentEvents' \in Seq(EventNames) /\ EventInv'
    <2>1. agentEvents' \in Seq(EventNames) /\ \A i \in DOMAIN agentEvents' : agentEvents'[i] \notin {"end", "error"}
      <3>1. CASE agentEvents' = <<"selected", "retrievalStart">>
        BY <3>1 DEF EventNames
      <3>2. CASE agentEvents' = <<"selected">>
        BY <3>2 DEF EventNames
      <3> QED BY <1>2, <3>1, <3>2
    <2> QED BY <1>5, <2>1 DEF EventInv
  <1> QED BY <1>5, <1>6, <1>8, <1>9, <1>10, <1>11 DEF AgentInv, Places, Speaking

(* A turn that cannot be prepared says nothing.                            *)
LEMMA PrepareFailsKeeps == ASSUME AgentInv, Agent!PrepareFails PROVE AgentInv'
  <1>1. PICK stream \in BOOLEAN : agentTurn' = [agentTurn EXCEPT !.stream = stream]
    BY DEF Agent!PrepareFails
  <1>2. agentPc = "start" /\ agentPc' = "failed" /\ agentEvents' = <<"error">> /\ UNCHANGED <<agentCall, agentMemory>>
    BY DEF Agent!PrepareFails
  <1>3. /\ IsTurn(agentTurn') /\ agentTurn'.handler = "none" /\ agentTurn'.shown = <<>> /\ ~agentTurn'.fellBack
    BY <1>1, <1>2 DEF AgentInv, IsTurn, StartInv
  <1>4. agentMemory' \in Memories /\ MemoryInv'
    BY <1>2, MemoryStays DEF Ended
  <1>5. RouteInv' /\ StartInv'
    BY <1>2, <1>3 DEF RouteInv, StartInv
  <1>6. TextInv'
    BY <1>2, <1>3, NoText, WordlessSpeaks DEF TextInv, Speaking
  <1>7. agentEvents' \in Seq(EventNames) /\ EventInv'
    BY <1>2 DEF EventInv, EventNames
  <1> QED BY <1>2, <1>3, <1>4, <1>5, <1>6, <1>7 DEF AgentInv, Places, Ended

(* A continuation is not routed.                                           *)
LEMMA ContinueKeeps == ASSUME AgentInv, Agent!Continue PROVE AgentInv'
  <1>1. /\ agentPc = "start" /\ agentPc' = "model" /\ UNCHANGED <<agentEvents, agentMemory>> /\ Agent!Calls(TRUE)
        /\ agentTurn' = [agentTurn EXCEPT !.handler = "continue", !.stream = TRUE]
    BY DEF Agent!Continue
  <1>2. /\ IsTurn(agentTurn') /\ agentTurn'.handler = "continue" /\ agentTurn'.stream /\ ~agentTurn'.buffered
        /\ agentTurn'.out = <<>> /\ agentTurn'.shown = <<>> /\ agentTurn'.held = <<>> /\ ~agentTurn'.fellBack
    BY <1>1 DEF AgentInv, IsTurn, StartInv, Handlers
  <1>3. agentCall' \in CallRecords
    BY <1>1, NewCall
  <1>4. agentMemory' \in Memories /\ MemoryInv'
    BY <1>1, MemoryStays DEF Ended
  <1>5. RouteInv' /\ StartInv'
    BY <1>1, <1>2 DEF RouteInv, StartInv
  <1>6. TextInv'
    <2>1. TextIsOne(agentTurn') /\ Speaks(agentTurn'.shown, agentCall'.n) /\ Speaks(agentTurn'.out, agentCall'.n)
          /\ Wordless(agentTurn'.out)
      BY <1>2, NoText, WordlessSpeaks DEF TextIsOne
    <2> QED BY <1>1, <2>1 DEF TextInv
  <1>7. agentEvents' \in Seq(EventNames) /\ EventInv'
    BY <1>1, EventsGoOn
  <1> QED BY <1>1, <1>2, <1>3, <1>4, <1>5, <1>6, <1>7 DEF AgentInv, Places, Speaking

-----------------------------------------------------------------------------
(* What the API is told.                                                   *)

LEMMA ToldKeeps ==
    ASSUME AgentInv, agentPc \in Ended, agentMemory.told = <<>>, UNCHANGED <<agentPc, agentTurn, agentCall, agentEvents>>,
           NEW error \in BOOLEAN, error => agentPc = "failed", NEW told \in Texts, ~Agent!IsBlank(told),
           agentTurn.shown # <<>> =>
              Agent!Trimmed(told) \in {Agent!Trimmed(agentTurn.shown), Agent!Trimmed(<<Agent!Said("partial")>> \o agentTurn.shown)},
           agentMemory' = [agentMemory EXCEPT !.told = told, !.error = error]
    PROVE  AgentInv'
  <1>1. /\ agentMemory' \in Memories /\ agentMemory'.told = told /\ agentMemory'.error = error
        /\ agentMemory'.answer = agentMemory.answer /\ agentMemory'.facts = agentMemory.facts
        /\ agentMemory'.practice = agentMemory.practice
    BY DEF AgentInv, Memories
  <1>2. MemoryInv'
    BY <1>1 DEF AgentInv, MemoryInv
  <1>3. RouteInv' /\ StartInv' /\ TextInv' /\ EventInv'
    BY DEF AgentInv, RouteInv, StartInv, TextInv, EventInv
  <1> QED BY <1>1, <1>2, <1>3 DEF AgentInv

(* The final text of a finished turn is not blank and is what was shown,   *)
(* up to blanks at the end.                                                *)
LEMMA FinalIsTold ==
    ASSUME AgentInv, agentPc = "done"
    PROVE  /\ agentTurn.final \in Texts /\ ~Agent!IsBlank(agentTurn.final) /\ agentTurn.final # <<>>
           /\ Agent!Trimmed(agentTurn.final) = Agent!Trimmed(agentTurn.shown)
  BY NoText DEF AgentInv, TextInv, IsTurn

(* What is reported at the end is the final text, or what was shown before *)
(* an error.                                                               *)
LEMMA ReportKeeps == ASSUME AgentInv, Agent!Report PROVE AgentInv'
  <1>1. /\ agentPc \in Ended /\ agentMemory.told = <<>> /\ UNCHANGED <<agentPc, agentTurn, agentCall, agentEvents>>
        /\ agentMemory' = [agentMemory EXCEPT !.told = Agent!Told, !.error = (agentPc = "failed")]
    BY DEF Agent!Report, Ended
  <1>2. DOMAIN agentEvents = 1 .. Len(agentEvents) /\ agentTurn.shown \in Texts
    BY LenProperties DEF AgentInv, IsTurn
  <1>3. /\ Agent!Told \in Texts /\ ~Agent!IsBlank(Agent!Told)
        /\ agentTurn.shown # <<>> =>
              Agent!Trimmed(Agent!Told) \in {Agent!Trimmed(agentTurn.shown), Agent!Trimmed(<<Agent!Said("partial")>> \o agentTurn.shown)}
    <2>1. CASE agentTurn.handler = "continue"
      <3>1. Agent!Told = <<Agent!Said("partial")>> \o agentTurn.shown
        BY <2>1 DEF Agent!Told
      <3>2. <<Agent!Said("partial")>> \in Texts /\ ~Agent!IsBlank(<<Agent!Said("partial")>>)
        BY OneSaid DEF Kinds
      <3> QED BY <1>2, <3>1, <3>2, Parts
    <2>2. CASE agentTurn.handler # "continue" /\ \E e \in Agent!ToSet(agentEvents) : Agent!Payload(e) = "done"
      <3>1. PICK i \in DOMAIN agentEvents : Agent!Payload(agentEvents[i]) = "done"
        BY <2>2 DEF Agent!ToSet
      <3>2. agentEvents[i] = "end"
        BY <3>1 DEF Agent!Payload
      <3>3. agentPc = "done"
        BY <3>2 DEF AgentInv, EventInv
      <3>4. Agent!Told = agentTurn.final
        BY <2>2, <3>3, FinalIsTold DEF Agent!Told
      <3> QED BY <3>3, <3>4, FinalIsTold
    <2>3. CASE agentTurn.handler # "continue" /\ ~(\E e \in Agent!ToSet(agentEvents) : Agent!Payload(e) = "done")
      <3>1. agentPc # "done"
        BY <2>3 DEF AgentInv, EventInv, Agent!ToSet, Agent!Payload
      <3>2. agentPc = "failed"
        BY <1>1, <2>3, <3>1 DEF Ended, AgentInv, RouteInv, IsRouted
      <3>3. agentTurn.shown # <<>> => ~Agent!IsBlank(agentTurn.shown)
        BY <2>3, <3>2 DEF AgentInv, TextInv
      <3>4. Agent!Told = IF agentTurn.shown # <<>> THEN agentTurn.shown ELSE <<Agent!Said("failure")>>
        BY <2>3 DEF Agent!Told
      <3>5. <<Agent!Said("failure")>> \in Texts /\ ~Agent!IsBlank(<<Agent!Said("failure")>>)
        BY OneSaid DEF Kinds
      <3> QED BY <1>2, <3>3, <3>4, <3>5
    <2> QED BY <2>1, <2>2, <2>3
  <1> DEFINE error == (agentPc = "failed")
  <1>4. error \in BOOLEAN /\ agentMemory' = [agentMemory EXCEPT !.told = Agent!Told, !.error = error]
    BY <1>1
  <1> QED BY <1>1, <1>3, <1>4, ToldKeeps

(* What a finished turn returns is its final text.                         *)
LEMMA ReturnKeeps == ASSUME AgentInv, Agent!Return PROVE AgentInv'
  <1>1. /\ agentPc = "done" /\ agentMemory.told = <<>> /\ UNCHANGED <<agentPc, agentTurn, agentCall, agentEvents>>
        /\ agentMemory' = [agentMemory EXCEPT !.told = agentTurn.final] /\ agentPc \in Ended
    BY DEF Agent!Return, Ended
  <1>2. agentMemory.error = FALSE
    BY <1>1 DEF AgentInv, MemoryInv, Memories
  <1>3. agentMemory' = [agentMemory EXCEPT !.told = agentTurn.final, !.error = FALSE]
    BY <1>1, <1>2 DEF AgentInv, Memories
  <1> QED BY <1>1, <1>3, FinalIsTold, ToldKeeps

(* Every step of a turn keeps its invariant.                               *)
LEMMA AgentSteps == AgentInv /\ [Agent!Next]_Agent!vars => AgentInv'
  <1> SUFFICES ASSUME AgentInv, [Agent!Next]_Agent!vars PROVE AgentInv'
    OBVIOUS
  <1>1. CASE UNCHANGED Agent!vars
    BY <1>1 DEF Agent!vars, AgentInv, RouteInv, StartInv, TextInv, EventInv, MemoryInv
  <1>2. CASE Agent!Over
    BY <1>1, <1>2 DEF Agent!Over
  <1> QED BY <1>1, <1>2, PrepareKeeps, PrepareFailsKeeps, StreamPieceKeeps, AgainKeeps, RaisingKeeps,
             InvokeReturnsKeeps, StreamEndsKeeps, ReplyKeeps, GenericKeeps, ExplainKeeps, RetrieveKeeps,
             RetrieveFailsKeeps, AnswerEndsKeeps, AnswerFailsKeeps, ResearchKeeps, FinalizeKeeps,
             SettleKeeps, AnnounceLateKeeps, RememberKeeps, BreakingKeeps, ContinueKeeps, ReportKeeps,
             ReturnKeeps DEF Agent!Next

-----------------------------------------------------------------------------
(* The guard of the semantic summaries.                                    *)

(* A request is a record of which only its place matters here.             *)
IsRequest(q) ==
    q \in [at : {"idle", "summarize", "wait", "timedOut", "leave", "sent"},
           list : {q.list}, sent : {q.sent}, round : {q.round}]

(* What the place of a request says of its thread and of the guard.        *)
RequestIsGuarded(r) ==
    /\ modelThread[r] = "waited" =>
          modelRequest[r].at = "wait" /\ modelGuard.owner = r /\ modelGuard.retry = "unset"
    /\ modelRequest[r].at = "wait" => modelThread[r] \in {"waited", "done"}
    /\ modelRequest[r].at = "timedOut" => modelThread[r] \in {"left", "done"}

(* A call in flight that the guard does not stand for, or that its         *)
(* cool-down has given up, is paid for.                                    *)
GuardInv ==
    /\ modelRequest = [r \in Summarizers |-> modelRequest[r]]
    /\ \A r \in Summarizers : IsRequest(modelRequest[r])
    /\ modelThread \in [Summarizers -> {"none", "waited", "left", "done"}]
    /\ modelStrays \in Nat /\ modelCoolDowns \in Nat
    /\ modelGuard \in [owner : Summarizers \cup {None}, retry : {"unset", "armed", "over"}]
    /\ \A r \in Summarizers : RequestIsGuarded(r)
    /\ Model!Running(modelGuard.owner) =>
          modelGuard.retry # "unset" \/ modelRequest[modelGuard.owner].at \in {"wait", "timedOut"}
    /\ modelStrays + Cardinality(Model!InFlight) <=
          modelCoolDowns + (IF Model!Running(modelGuard.owner) /\ modelGuard.retry # "over" THEN 1 ELSE 0)

(* Cardinality in the instance is the library's.                           *)
LEMMA GuardCounts == ASSUME NEW S PROVE Model!Cardinality(S) = Cardinality(S)
  BY DEF Model!Cardinality, Cardinality

(* Only finitely many summaries are under way.                             *)
LEMMA InFlightIsFinite ==
    IsFiniteSet(Model!InFlight) /\ Cardinality(Model!InFlight) \in Nat /\ Model!InFlight \subseteq Summarizers
  <1>1. Model!InFlight \subseteq Summarizers
    BY DEF Model!InFlight
  <1> QED BY <1>1, GuardAssumption, FS_Subset, FS_CardinalityType

(* The guard starts unowned, with nothing under way.                       *)
LEMMA GuardStarts == Model!Init => GuardInv
  <1> SUFFICES ASSUME Model!Init PROVE GuardInv
    OBVIOUS
  <1>1. Model!InFlight = {} /\ Cardinality({}) = 0
    BY FS_EmptySet DEF Model!Init, Model!InFlight
  <1>2. ~Model!Running(modelGuard.owner)
    BY DEF Model!Init, Model!Running
  <1>3. \A r \in Summarizers : modelRequest[r] = Model!Idle
    BY DEF Model!Init
  <1>4. \A r \in Summarizers : IsRequest(modelRequest[r]) /\ RequestIsGuarded(r)
    BY <1>3 DEF Model!Idle, IsRequest, RequestIsGuarded, Model!Init
  <1> QED BY <1>1, <1>2, <1>4 DEF Model!Init, GuardInv

(* The invariant of the guard implies that it never sticks.                *)
LEMMA GuardInvSuffices == GuardInv => Model!GuardNeverSticks
  <1> SUFFICES ASSUME GuardInv PROVE Model!GuardNeverSticks
    OBVIOUS
  <1>1. modelStrays + Cardinality(Model!InFlight) <= modelCoolDowns + 1
    BY InFlightIsFinite DEF GuardInv
  <1> QED BY <1>1, GuardCounts DEF GuardInv, Model!GuardNeverSticks, RequestIsGuarded

(* A request goes on: only its own place changes.                          *)
LEMMA RequestSet ==
    ASSUME GuardInv, NEW r \in Summarizers, NEW q, IsRequest(q), Model!Set(r, q)
    PROVE  /\ modelRequest' = [o \in Summarizers |-> modelRequest'[o]]
           /\ \A o \in Summarizers : IsRequest(modelRequest'[o])
           /\ modelRequest'[r] = q
           /\ \A o \in Summarizers \ {r} : modelRequest'[o] = modelRequest[o]
  BY DEF GuardInv, Model!Set

(* Composing, taking a summary, and the next request.                      *)
LEMMA RequestGoesOn ==
    ASSUME GuardInv, NEW r \in Summarizers, NEW q, IsRequest(q), Model!Set(r, q),
           UNCHANGED <<modelThread, modelStrays, modelGuard, modelCoolDowns>>, modelThread[r] # "waited",
           q.at \notin {"wait", "timedOut"},
           modelGuard.owner = r /\ Model!Running(r) => modelGuard.retry # "unset"
    PROVE  GuardInv'
  <1>1. /\ modelRequest' = [o \in Summarizers |-> modelRequest'[o]]
        /\ \A o \in Summarizers : IsRequest(modelRequest'[o])
        /\ modelRequest'[r] = q
        /\ \A o \in Summarizers \ {r} : modelRequest'[o] = modelRequest[o]
    BY RequestSet
  <1>2. Model!InFlight' = Model!InFlight /\ Model!Running(modelGuard.owner)' = Model!Running(modelGuard.owner)
    BY DEF Model!InFlight, Model!Running
  <1>3. ASSUME NEW o \in Summarizers PROVE RequestIsGuarded(o)'
    <2>1. CASE o = r
      BY <1>1, <2>1 DEF GuardInv, RequestIsGuarded
    <2>2. CASE o # r
      BY <1>1, <2>2 DEF GuardInv, RequestIsGuarded
    <2> QED BY <2>1, <2>2
  <1>4. Model!Running(modelGuard.owner)' =>
          modelGuard'.retry # "unset" \/ modelRequest'[modelGuard'.owner].at \in {"wait", "timedOut"}
    <2> SUFFICES ASSUME Model!Running(modelGuard.owner)
                 PROVE  modelGuard.retry # "unset" \/ modelRequest'[modelGuard.owner].at \in {"wait", "timedOut"}
      BY <1>2
    <2>1. CASE modelGuard.owner = r
      BY <2>1
    <2>2. CASE modelGuard.owner # r
      BY <1>1, <2>2 DEF GuardInv, Model!Running, Model!InFlight
    <2> QED BY <2>1, <2>2
  <1> QED BY <1>1, <1>2, <1>3, <1>4 DEF GuardInv

(* What a summary makes of a request.                                      *)
LEMMA SummaryUsed ==
    ASSUME GuardInv, NEW r \in Summarizers, Model!Fallback(r)
    PROVE  \E q : IsRequest(q) /\ q.at \in {"summarize", "sent"} /\ Model!Set(r, q)
  <1>1. PICK size \in SummarySizes : Model!Use(r, size)
    BY DEF Model!Fallback
  <1> DEFINE list == modelRequest[r].list
             folded == Model!Folded(list, size)
             kept == IF Model!Tokens(folded) >= Model!Tokens(list) THEN list ELSE folded
             again == [modelRequest[r] EXCEPT !.at = "summarize", !.round = 2]
             sent == [modelRequest[r] EXCEPT !.at = "sent", !.sent = kept]
  <1>2. Model!Set(r, IF modelRequest[r].round = 1 /\ Model!Tokens(folded) > Budget /\ size > Short
               THEN again ELSE sent)
    BY <1>1 DEF Model!Use
  <1> HIDE DEF kept, list, folded
  <1>3. IsRequest(modelRequest[r])
    BY DEF GuardInv
  <1>4. IsRequest(again) /\ again.at = "summarize"
    BY <1>3 DEF IsRequest
  <1>5. IsRequest(sent) /\ sent.at = "sent"
    BY <1>3 DEF IsRequest
  <1> HIDE DEF again, sent
  <1> QED BY <1>2, <1>4, <1>5

(* Composing, and the next request, leave the guard alone.                 *)
LEMMA ComposeKeeps ==
    ASSUME GuardInv, NEW r \in Summarizers, Model!Compose(r) \/ Model!NextRequest(r) PROVE GuardInv'
  <1>1. PICK q : IsRequest(q) /\ q.at \in {"idle", "summarize", "sent"} /\ Model!Set(r, q)
    <2>1. CASE Model!NextRequest(r)
      BY <2>1 DEF Model!NextRequest, Model!Idle, IsRequest
    <2>2. CASE Model!Compose(r)
      <3>1. PICK sizes \in Histories :
               LET list == Model!Composed(sizes)
               IN  Model!Set(r, IF Model!CanFold(list)
                          THEN [Model!Idle EXCEPT !.at = "summarize", !.list = list, !.round = 1]
                          ELSE [Model!Idle EXCEPT !.at = "sent", !.list = list, !.sent = list])
        BY <2>2 DEF Model!Compose
      <3> DEFINE list == Model!Composed(sizes)
                 fold == [Model!Idle EXCEPT !.at = "summarize", !.list = list, !.round = 1]
                 send == [Model!Idle EXCEPT !.at = "sent", !.list = list, !.sent = list]
      <3>2. Model!Set(r, fold) \/ Model!Set(r, send)
        BY <3>1
      <3> HIDE DEF list
      <3>3. IsRequest(fold) /\ fold.at = "summarize"
        BY DEF Model!Idle, IsRequest
      <3>4. IsRequest(send) /\ send.at = "sent"
        BY DEF Model!Idle, IsRequest
      <3> HIDE DEF fold, send
      <3> QED BY <3>2, <3>3, <3>4
    <2> QED BY <2>1, <2>2
  <1>2. modelRequest[r].at \in {"idle", "sent"} /\ UNCHANGED <<modelThread, modelStrays, modelGuard, modelCoolDowns>>
    BY DEF Model!Compose, Model!NextRequest
  <1> QED BY <1>1, <1>2, RequestGoesOn DEF GuardInv, RequestIsGuarded

(* A summary made by the rules leaves the guard alone.                     *)
LEMMA RuleKeeps ==
    ASSUME GuardInv, NEW r \in Summarizers, Model!SummarizeByRule(r) PROVE GuardInv'
  <1>1. PICK q : IsRequest(q) /\ q.at \in {"summarize", "sent"} /\ Model!Set(r, q)
    BY SummaryUsed DEF Model!SummarizeByRule
  <1>2. modelRequest[r].at = "summarize" /\ UNCHANGED <<modelThread, modelStrays, modelGuard, modelCoolDowns>>
    BY DEF Model!SummarizeByRule
  <1> QED BY <1>1, <1>2, RequestGoesOn DEF GuardInv, RequestIsGuarded

(* A call that is let in was not in flight, or was counted as a stray.     *)
LEMMA EnterKeeps ==
    ASSUME GuardInv, NEW r \in Summarizers, Model!EnterGuard(r) PROVE GuardInv'
  <1>1. modelRequest[r].at = "summarize" /\ UNCHANGED modelCoolDowns
    BY DEF Model!EnterGuard
  <1>2. modelThread[r] # "waited"
    BY <1>1 DEF GuardInv, RequestIsGuarded
  <1>3. CASE Model!Running(modelGuard.owner) /\ modelGuard.retry # "over"
    <2>1. Model!Fallback(r) /\ UNCHANGED <<modelThread, modelStrays, modelGuard>>
      BY <1>3 DEF Model!EnterGuard
    <2>2. PICK q : IsRequest(q) /\ q.at \in {"summarize", "sent"} /\ Model!Set(r, q)
      BY <2>1, SummaryUsed
    <2> QED BY <1>1, <1>2, <2>1, <2>2, RequestGoesOn DEF GuardInv, RequestIsGuarded
  <1>4. CASE ~(Model!Running(modelGuard.owner) /\ modelGuard.retry # "over")
    <2> DEFINE q == [modelRequest[r] EXCEPT !.at = "wait"]
    <2>1. /\ modelGuard' = [owner |-> r, retry |-> "unset"]
          /\ modelThread' = [modelThread EXCEPT ![r] = "waited"]
          /\ modelStrays' = IF r \in Model!InFlight THEN modelStrays + 1 ELSE modelStrays
          /\ Model!Set(r, q)
      BY <1>4 DEF Model!EnterGuard
    <2>2. IsRequest(q) /\ q.at = "wait"
      BY DEF GuardInv, IsRequest
    <2> HIDE DEF q
    <2>3. /\ modelRequest' = [o \in Summarizers |-> modelRequest'[o]]
          /\ \A o \in Summarizers : IsRequest(modelRequest'[o])
          /\ modelRequest'[r] = q
          /\ \A o \in Summarizers \ {r} : modelRequest'[o] = modelRequest[o]
      BY <2>1, <2>2, RequestSet
    <2>4. modelThread' \in [Summarizers -> {"none", "waited", "left", "done"}] /\ modelThread'[r] = "waited"
          /\ \A o \in Summarizers \ {r} : modelThread'[o] = modelThread[o]
      BY <2>1 DEF GuardInv
    <2>5. \A o \in Summarizers : modelThread[o] # "waited"
      BY <1>4, GuardAssumption DEF GuardInv, RequestIsGuarded, Model!Running, Model!InFlight
    <2>6. Model!InFlight' = Model!InFlight \cup {r} /\ Model!Running(modelGuard.owner)'
      BY <2>1, <2>4, GuardAssumption DEF Model!InFlight, Model!Running
    <2>7. modelStrays' + Cardinality(Model!InFlight') = modelStrays + Cardinality(Model!InFlight) + 1
      <3>1. CASE r \in Model!InFlight
        <4>1. Model!InFlight' = Model!InFlight
          BY <2>6, <3>1
        <4> QED BY <2>1, <3>1, <4>1, InFlightIsFinite DEF GuardInv
      <3>2. CASE r \notin Model!InFlight
        <4>1. Cardinality(Model!InFlight') = Cardinality(Model!InFlight) + 1
          BY <2>6, <3>2, InFlightIsFinite, FS_AddElement
        <4> QED BY <2>1, <3>2, <4>1, InFlightIsFinite DEF GuardInv
      <3> QED BY <3>1, <3>2
    <2>8. modelStrays' + Cardinality(Model!InFlight') <= modelCoolDowns + 1
      BY <1>4, <2>7, InFlightIsFinite DEF GuardInv
    <2>9. ASSUME NEW o \in Summarizers PROVE RequestIsGuarded(o)'
      <3>1. CASE o = r
        BY <2>1, <2>2, <2>3, <2>4, <3>1 DEF RequestIsGuarded
      <3>2. CASE o # r
        BY <2>3, <2>4, <2>5, <3>2 DEF RequestIsGuarded, GuardInv
      <3> QED BY <3>1, <3>2
    <2>10. modelStrays' \in Nat /\ modelGuard'.retry = "unset" /\ modelGuard'.owner = r
      BY <2>1 DEF GuardInv
    <2> QED BY <1>1, <2>1, <2>2, <2>3, <2>4, <2>6, <2>8, <2>9, <2>10 DEF GuardInv
  <1> QED BY <1>3, <1>4

(* A thread ends: fewer are in flight.                                     *)
LEMMA EndKeeps ==
    ASSUME GuardInv, NEW r \in Summarizers, Model!EndThread(r) PROVE GuardInv'
  <1>1. r \in Model!InFlight /\ modelThread' = [modelThread EXCEPT ![r] = "done"]
        /\ UNCHANGED <<modelRequest, modelStrays, modelGuard, modelCoolDowns>>
    BY DEF Model!EndThread
  <1>2. modelThread' \in [Summarizers -> {"none", "waited", "left", "done"}] /\ modelThread'[r] = "done"
        /\ \A o \in Summarizers \ {r} : modelThread'[o] = modelThread[o]
    BY <1>1 DEF GuardInv
  <1>3. Model!InFlight' = Model!InFlight \ {r}
    BY <1>2 DEF Model!InFlight
  <1>4. Cardinality(Model!InFlight') = Cardinality(Model!InFlight) - 1
    BY <1>1, <1>3, InFlightIsFinite, FS_RemoveElement
  <1>5. Model!Running(modelGuard.owner)' <=> Model!Running(modelGuard.owner) /\ modelGuard.owner # r
    BY <1>1, <1>3 DEF Model!Running
  <1>6. modelStrays' + Cardinality(Model!InFlight') <=
            modelCoolDowns' + (IF Model!Running(modelGuard.owner)' /\ modelGuard'.retry # "over" THEN 1 ELSE 0)
    <2>1. CASE modelGuard.owner = r
      BY <1>1, <1>4, <1>5, <2>1, InFlightIsFinite DEF GuardInv
    <2>2. CASE modelGuard.owner # r
      BY <1>1, <1>4, <1>5, <2>2, InFlightIsFinite DEF GuardInv
    <2> QED BY <2>1, <2>2
  <1>7. ASSUME NEW o \in Summarizers PROVE RequestIsGuarded(o)'
    <2>1. CASE o = r
      BY <1>1, <1>2, <2>1 DEF RequestIsGuarded, GuardInv
    <2>2. CASE o # r
      BY <1>1, <1>2, <2>2 DEF RequestIsGuarded, GuardInv
    <2> QED BY <2>1, <2>2
  <1>8. Model!Running(modelGuard.owner)' =>
          modelGuard'.retry # "unset" \/ modelRequest'[modelGuard'.owner].at \in {"wait", "timedOut"}
    BY <1>1, <1>5 DEF GuardInv
  <1> QED BY <1>1, <1>2, <1>6, <1>7, <1>8 DEF GuardInv, IsRequest

(* A call left behind that ends, and a cool-down that is over, keep the    *)
(* count of those left behind.                                             *)
LEMMA StrayKeeps == ASSUME GuardInv, Model!EndStray \/ Model!CoolDown PROVE GuardInv'
  <1>1. UNCHANGED <<modelRequest, modelThread>> /\ modelGuard'.owner = modelGuard.owner
    BY DEF Model!EndStray, Model!CoolDown, GuardInv
  <1>2. Model!InFlight' = Model!InFlight /\ Model!Running(modelGuard.owner)' = Model!Running(modelGuard.owner)
    BY <1>1 DEF Model!InFlight, Model!Running
  <1>3. CASE Model!EndStray
    <2>1. modelStrays' \in Nat /\ modelStrays' = modelStrays - 1 /\ UNCHANGED <<modelGuard, modelCoolDowns>>
      BY <1>3 DEF Model!EndStray, GuardInv
    <2>2. modelStrays' + Cardinality(Model!InFlight') <=
            modelCoolDowns' + (IF Model!Running(modelGuard.owner)' /\ modelGuard'.retry # "over" THEN 1 ELSE 0)
      BY <1>2, <2>1, InFlightIsFinite DEF GuardInv
    <2> QED BY <1>1, <1>2, <2>1, <2>2 DEF GuardInv, RequestIsGuarded, IsRequest
  <1>4. CASE Model!CoolDown
    <2>1. /\ modelGuard.retry = "armed" /\ modelGuard' = [modelGuard EXCEPT !.retry = "over"]
          /\ modelCoolDowns' = modelCoolDowns + 1 /\ UNCHANGED modelStrays
      BY <1>4 DEF Model!CoolDown
    <2>2. /\ modelGuard' \in [owner : Summarizers \cup {None}, retry : {"unset", "armed", "over"}]
          /\ modelGuard'.retry = "over"
      BY <2>1 DEF GuardInv
    <2>3. modelStrays' + Cardinality(Model!InFlight') <=
            modelCoolDowns' + (IF Model!Running(modelGuard.owner)' /\ modelGuard'.retry # "over" THEN 1 ELSE 0)
      BY <1>2, <2>1, <2>2, InFlightIsFinite DEF GuardInv
    <2>4. \A o \in Summarizers : RequestIsGuarded(o)'
      BY <1>1, <2>1 DEF GuardInv, RequestIsGuarded
    <2> QED BY <1>1, <1>2, <2>1, <2>2, <2>3, <2>4 DEF GuardInv, IsRequest
  <1> QED BY <1>3, <1>4

(* A request stops waiting, and lets the guard go if its call is over.     *)
LEMMA LeaveKeeps ==
    ASSUME GuardInv, NEW r \in Summarizers, Model!Answered(r) \/ Model!Leave(r) PROVE GuardInv'
  <1>1. /\ Model!LetGo(r) /\ Model!Fallback(r) /\ UNCHANGED <<modelThread, modelStrays, modelCoolDowns>>
        /\ modelThread[r] # "waited"
    BY DEF Model!Answered, Model!Leave, GuardInv, RequestIsGuarded
  <1>2. PICK q : IsRequest(q) /\ q.at \in {"summarize", "sent"} /\ Model!Set(r, q)
    BY <1>1, SummaryUsed
  <1>3. /\ modelRequest' = [o \in Summarizers |-> modelRequest'[o]]
        /\ \A o \in Summarizers : IsRequest(modelRequest'[o])
        /\ modelRequest'[r] = q
        /\ \A o \in Summarizers \ {r} : modelRequest'[o] = modelRequest[o]
    BY <1>2, RequestSet
  <1>4. Model!InFlight' = Model!InFlight
    BY <1>1 DEF Model!InFlight
  <1>5. CASE modelGuard.owner = r /\ ~Model!Running(r)
    <2>1. modelGuard' = [owner |-> None, retry |-> "unset"]
      BY <1>1, <1>5 DEF Model!LetGo
    <2>2. ~Model!Running(modelGuard.owner)' /\ ~Model!Running(modelGuard.owner)
      BY <1>5, <2>1 DEF Model!Running
    <2>3. modelStrays' + Cardinality(Model!InFlight') <= modelCoolDowns'
      BY <1>1, <1>4, <2>2, InFlightIsFinite DEF GuardInv
    <2>4. ASSUME NEW o \in Summarizers PROVE RequestIsGuarded(o)'
      <3>1. modelThread[o] # "waited"
        BY <1>1, <1>5 DEF GuardInv, RequestIsGuarded
      <3>2. CASE o = r
        BY <1>1, <1>2, <1>3, <3>1, <3>2 DEF RequestIsGuarded
      <3>3. CASE o # r
        BY <1>1, <1>3, <3>1, <3>3 DEF RequestIsGuarded, GuardInv
      <3> QED BY <3>2, <3>3
    <2> QED BY <1>1, <1>3, <2>1, <2>2, <2>3, <2>4, InFlightIsFinite DEF GuardInv
  <1>6. CASE ~(modelGuard.owner = r /\ ~Model!Running(r))
    <2>1. UNCHANGED modelGuard
      BY <1>1, <1>6 DEF Model!LetGo
    <2>2. modelGuard.owner = r /\ Model!Running(r) => modelGuard.retry # "unset"
      BY <1>1 DEF Model!Answered, Model!Leave, GuardInv, Model!Running, Model!InFlight
    <2> QED BY <1>1, <1>2, <2>1, <2>2, RequestGoesOn
  <1> QED BY <1>5, <1>6

(* A request that times out leaves its thread running and goes on to arm   *)
(* the guard.                                                              *)
LEMMA TimeOutKeeps ==
    ASSUME GuardInv, NEW r \in Summarizers, Model!TimeOut(r) PROVE GuardInv'
  <1> DEFINE q == [modelRequest[r] EXCEPT !.at = "timedOut"]
  <1>1. /\ modelThread[r] = "waited" /\ modelThread' = [modelThread EXCEPT ![r] = "left"]
        /\ Model!Set(r, q) /\ UNCHANGED <<modelStrays, modelGuard, modelCoolDowns>>
    BY DEF Model!TimeOut
  <1>2. IsRequest(q) /\ q.at = "timedOut"
    BY DEF GuardInv, IsRequest
  <1> HIDE DEF q
  <1>3. /\ modelRequest' = [o \in Summarizers |-> modelRequest'[o]]
        /\ \A o \in Summarizers : IsRequest(modelRequest'[o])
        /\ modelRequest'[r] = q
        /\ \A o \in Summarizers \ {r} : modelRequest'[o] = modelRequest[o]
    BY <1>1, <1>2, RequestSet
  <1>4. modelThread' \in [Summarizers -> {"none", "waited", "left", "done"}] /\ modelThread'[r] = "left"
        /\ \A o \in Summarizers \ {r} : modelThread'[o] = modelThread[o]
    BY <1>1 DEF GuardInv
  <1>5. Model!InFlight' = Model!InFlight
    BY <1>1, <1>4 DEF Model!InFlight
  <1>6. Model!Running(modelGuard.owner)' = Model!Running(modelGuard.owner)
    BY <1>1, <1>5 DEF Model!Running
  <1>7. ASSUME NEW o \in Summarizers PROVE RequestIsGuarded(o)'
    <2>1. CASE o = r
      BY <1>1, <1>2, <1>3, <1>4, <2>1 DEF RequestIsGuarded
    <2>2. CASE o # r
      BY <1>1, <1>3, <1>4, <2>2 DEF RequestIsGuarded, GuardInv
    <2> QED BY <2>1, <2>2
  <1>8. modelGuard.owner = r
    BY <1>1 DEF GuardInv, RequestIsGuarded
  <1> QED BY <1>1, <1>2, <1>3, <1>4, <1>5, <1>6, <1>7, <1>8 DEF GuardInv

(* Arming starts the cool-down of the call that is left behind.            *)
LEMMA ArmKeeps ==
    ASSUME GuardInv, NEW r \in Summarizers, Model!Arm(r) PROVE GuardInv'
  <1> DEFINE q == [modelRequest[r] EXCEPT !.at = "leave"]
  <1>1. /\ modelRequest[r].at = "timedOut" /\ Model!Set(r, q)
        /\ modelGuard' = IF modelGuard.owner = r /\ Model!Running(r) THEN [modelGuard EXCEPT !.retry = "armed"] ELSE modelGuard
        /\ UNCHANGED <<modelThread, modelStrays, modelCoolDowns>>
    BY DEF Model!Arm
  <1>2. IsRequest(q) /\ q.at = "leave"
    BY DEF GuardInv, IsRequest
  <1> HIDE DEF q
  <1>3. /\ modelRequest' = [o \in Summarizers |-> modelRequest'[o]]
        /\ \A o \in Summarizers : IsRequest(modelRequest'[o])
        /\ modelRequest'[r] = q
        /\ \A o \in Summarizers \ {r} : modelRequest'[o] = modelRequest[o]
    BY <1>1, <1>2, RequestSet
  <1>4. Model!InFlight' = Model!InFlight
    BY <1>1 DEF Model!InFlight
  <1>5. /\ modelGuard' \in [owner : Summarizers \cup {None}, retry : {"unset", "armed", "over"}]
        /\ modelGuard'.owner = modelGuard.owner
        /\ modelGuard'.retry = IF modelGuard.owner = r /\ Model!Running(r) THEN "armed" ELSE modelGuard.retry
    BY <1>1 DEF GuardInv
  <1>6. Model!Running(modelGuard.owner)' = Model!Running(modelGuard.owner)
    BY <1>4, <1>5 DEF Model!Running
  <1>7. modelThread[r] # "waited"
    BY <1>1 DEF GuardInv, RequestIsGuarded
  <1>8. ASSUME NEW o \in Summarizers PROVE RequestIsGuarded(o)'
    <2>1. CASE o = r
      BY <1>1, <1>2, <1>3, <1>7, <2>1 DEF RequestIsGuarded
    <2>2. CASE o # r
      BY <1>1, <1>3, <1>5, <2>2 DEF RequestIsGuarded, GuardInv
    <2> QED BY <2>1, <2>2
  <1>9. modelStrays' + Cardinality(Model!InFlight') <=
            modelCoolDowns' + (IF Model!Running(modelGuard.owner)' /\ modelGuard'.retry # "over" THEN 1 ELSE 0)
    BY <1>1, <1>4, <1>5, <1>6, InFlightIsFinite DEF GuardInv
  <1>10. Model!Running(modelGuard.owner)' =>
           modelGuard'.retry # "unset" \/ modelRequest'[modelGuard'.owner].at \in {"wait", "timedOut"}
    <2>1. CASE modelGuard.owner = r
      BY <1>5, <1>6, <2>1
    <2>2. CASE modelGuard.owner # r
      BY <1>3, <1>5, <1>6, <2>2 DEF GuardInv, Model!Running, Model!InFlight
    <2> QED BY <2>1, <2>2
  <1> QED BY <1>1, <1>3, <1>5, <1>8, <1>9, <1>10 DEF GuardInv

(* Every step of the summarizer keeps the guard's invariant.               *)
LEMMA GuardSteps == GuardInv /\ [Model!Next]_Model!vars => GuardInv'
  <1> SUFFICES ASSUME GuardInv, [Model!Next]_Model!vars PROVE GuardInv'
    OBVIOUS
  <1>1. ASSUME NEW r \in Summarizers,
               \/ Model!Compose(r) \/ Model!SummarizeByRule(r) \/ Model!EnterGuard(r) \/ Model!EndThread(r)
               \/ Model!Answered(r) \/ Model!TimeOut(r) \/ Model!Arm(r) \/ Model!Leave(r) \/ Model!NextRequest(r)
        PROVE  GuardInv'
    BY <1>1, ComposeKeeps, RuleKeeps, EnterKeeps, EndKeeps, LeaveKeeps, TimeOutKeeps, ArmKeeps
  <1>2. CASE UNCHANGED Model!vars
    BY <1>2 DEF Model!vars, GuardInv, RequestIsGuarded, Model!Running, Model!InFlight, IsRequest
  <1> QED BY <1>1, <1>2, StrayKeeps DEF Model!Next

-----------------------------------------------------------------------------
(* What is kept of the output.                                             *)

LEMMA LeastOfTwo ==
    ASSUME NEW a \in Int, NEW b \in Int
    PROVE  /\ Code!Least(a, b) = IF a <= b THEN a ELSE b
           /\ Code!Most(a, b) = IF a <= b THEN b ELSE a
  <1> DEFINE p == IF a <= b THEN a ELSE b
             q == IF a <= b THEN b ELSE a
  <1>1. p \in {a, b} /\ \A y \in {a, b} : p <= y
    OBVIOUS
  <1>2. q \in {a, b} /\ \A y \in {a, b} : q >= y
    OBVIOUS
  <1>3. \A x \in {a, b} : (\A y \in {a, b} : x <= y) => x = p
    OBVIOUS
  <1>4. \A x \in {a, b} : (\A y \in {a, b} : x >= y) => x = q
    OBVIOUS
  <1>5. Code!Min({a, b}) = p
    BY <1>1, <1>3 DEF Code!Min
  <1>6. Code!Max({a, b}) = q
    BY <1>2, <1>4 DEF Code!Max
  <1> QED BY <1>5, <1>6 DEF Code!Least, Code!Most

(* Half of a number, rounded down.                                         *)
LEMMA HalfOf == ASSUME NEW n \in Nat PROVE n \div 2 \in Nat /\ 2 * (n \div 2) <= n
  OBVIOUS

IsWithin(text) == text \in [out : 0 .. MaxChars, err : 0 .. MaxChars]

(* Truncated output and errors are each within the limit.                  *)
LEMMA TruncatedIsWithin ==
    ASSUME NEW out \in Nat, NEW err \in Nat
    PROVE  IsWithin(Code!Truncated(out, err))
  <1> USE CodeAssumption
  <1> DEFINE budget == MaxChars - Marker
             short == MaxChars <= Marker
             half == Code!Least(out, Code!Most(1, budget \div 2))
             rest == Code!Least(err, Code!Most(1, budget - half))
             unused == Code!Most(0, budget - half - rest)
             more == Code!Least(unused, out - half)
             keptOut == IF short THEN 0 ELSE IF out > 0 /\ err > 0 THEN half + more
                   ELSE Code!Least(out, budget)
             keptErr == IF short THEN 0 ELSE IF out > 0 /\ err > 0
                   THEN rest + Code!Least(unused - more, err - rest)
                   ELSE Code!Least(err, budget - keptOut)
             mark == Code!Least(Marker, MaxChars)
  <1>1. mark = (IF Marker <= MaxChars THEN Marker ELSE MaxChars)
    BY LeastOfTwo
  <1>3. Code!Truncated(out, err) =
          IF out + err <= MaxChars THEN [out |-> out, err |-> err]
          ELSE [out |-> keptOut + (IF out > keptOut THEN mark ELSE 0),
                err |-> keptErr + (IF err > keptErr THEN mark ELSE 0)]
    BY DEF Code!Truncated
  <1>4. CASE out + err <= MaxChars
    <2>1. Code!Truncated(out, err) = [out |-> out, err |-> err]
      BY <1>3, <1>4
    <2> QED BY <1>4, <2>1 DEF IsWithin
  <1>5. CASE ~(out + err <= MaxChars) /\ short
    <2>1. keptOut = 0 /\ keptErr = 0 /\ mark = MaxChars
      BY <1>1, <1>5
    <2>2. Code!Truncated(out, err) = [out |-> IF out > 0 THEN MaxChars ELSE 0,
                                 err |-> IF err > 0 THEN MaxChars ELSE 0]
      BY <1>3, <1>5, <2>1
    <2> QED BY <2>2 DEF IsWithin
  <1>6. CASE ~(out + err <= MaxChars) /\ ~short
    <2>1. budget \in Nat \ {0} /\ budget \div 2 \in Nat /\ 2 * (budget \div 2) <= budget
          /\ mark = Marker /\ MaxChars = budget + Marker
      BY <1>1, <1>6, HalfOf
    <2>3. CASE ~(out > 0 /\ err > 0)
      <3>1. keptOut = Code!Least(out, budget) /\ keptErr = Code!Least(err, budget - keptOut)
        BY <2>3, <1>6
      <3>2. keptOut = IF out <= budget THEN out ELSE budget
        BY <3>1, <2>1, LeastOfTwo
      <3>3. keptErr = IF err <= budget - keptOut THEN err ELSE budget - keptOut
        BY <3>1, <3>2, <2>1, LeastOfTwo
      <3> HIDE DEF keptOut, keptErr, mark, budget
      <3>4. Code!Truncated(out, err) = [out |-> keptOut + (IF out > keptOut THEN Marker ELSE 0),
                                   err |-> keptErr + (IF err > keptErr THEN Marker ELSE 0)]
        BY <1>3, <1>6, <2>1
      <3> QED BY <2>1, <2>3, <1>6, <3>2, <3>3, <3>4 DEF IsWithin
    <2>4. CASE out > 0 /\ err > 0
      <3>1. Code!Most(1, budget \div 2) = IF 1 <= budget \div 2 THEN budget \div 2 ELSE 1
        BY <2>1, LeastOfTwo
      <3> DEFINE h == budget \div 2
      <3> HIDE DEF h
      <3>2. half = IF out <= Code!Most(1, budget \div 2) THEN out ELSE Code!Most(1, budget \div 2)
        BY <3>1, <2>1, LeastOfTwo
      <3>3. half \in Nat /\ 1 <= half /\ half <= out /\ half <= budget
        BY <3>1, <3>2, <2>1, <2>4
      <3> HIDE DEF half
      <3>4. Code!Most(1, budget - half) = IF 1 <= budget - half THEN budget - half ELSE 1
        BY <3>3, <2>1, LeastOfTwo
      <3>5. rest = IF err <= Code!Most(1, budget - half) THEN err ELSE Code!Most(1, budget - half)
        BY <3>3, <3>4, <2>1, LeastOfTwo
      <3>6. rest \in Nat /\ 1 <= rest /\ rest <= err
            /\ half + rest <= (IF budget = 1 THEN 2 ELSE budget)
        BY <3>1, <3>2, <3>3, <3>4, <3>5, <2>1, <2>4
      <3> HIDE DEF rest
      <3>7. unused = IF 0 <= budget - half - rest THEN budget - half - rest ELSE 0
        BY <3>3, <3>6, <2>1, LeastOfTwo
      <3> HIDE DEF unused
      <3>8. more = IF unused <= out - half THEN unused ELSE out - half
        BY <3>3, <3>6, <3>7, <2>1, LeastOfTwo
      <3> HIDE DEF more
      <3>9. Code!Least(unused - more, err - rest) =
              IF unused - more <= err - rest THEN unused - more ELSE err - rest
        BY <3>3, <3>6, <3>7, <3>8, <2>1, LeastOfTwo
      <3>10. keptOut = half + more /\ keptErr = rest + Code!Least(unused - more, err - rest)
        BY <2>4, <1>6
      <3>11. keptOut \in 0 .. budget /\ keptErr \in 0 .. budget
        BY <3>3, <3>6, <3>7, <3>8, <3>9, <3>10, <2>1
      <3> HIDE DEF keptOut, keptErr, mark, budget
      <3>12. Code!Truncated(out, err) = [out |-> keptOut + (IF out > keptOut THEN Marker ELSE 0),
                                    err |-> keptErr + (IF err > keptErr THEN Marker ELSE 0)]
        BY <1>3, <1>6, <2>1
      <3> QED BY <2>1, <3>11, <3>12 DEF IsWithin
    <2> QED BY <2>3, <2>4
  <1> QED BY <1>4, <1>5, <1>6

(* Output and errors as collected are each within the limit.               *)
LEMMA CollectedIsWithin ==
    ASSUME NEW out \in Nat, NEW err \in Nat
    PROVE  IsWithin(Code!Collected(out, err))
  <1> USE CodeAssumption
  <1> DEFINE keptOut == Code!Least(out, MaxChars)
             keptErr == Code!Least(err, MaxChars)
  <1>1. keptOut \in 0 .. MaxChars /\ keptErr \in 0 .. MaxChars
    BY LeastOfTwo
  <1>2. Code!Collected(out, err) =
          IF out = keptOut /\ err = keptErr THEN [out |-> out, err |-> err]
          ELSE IF keptOut > 0 THEN Code!Truncated(keptOut + 1, keptErr)
          ELSE Code!Truncated(keptOut, keptErr + 1)
    BY DEF Code!Collected
  <1> HIDE DEF keptOut, keptErr
  <1>3. IsWithin(Code!Truncated(keptOut + 1, keptErr)) /\ IsWithin(Code!Truncated(keptOut, keptErr + 1))
    BY <1>1, TruncatedIsWithin
  <1>4. out = keptOut /\ err = keptErr => IsWithin([out |-> out, err |-> err])
    BY <1>1 DEF IsWithin
  <1> QED BY <1>2, <1>3, <1>4

-----------------------------------------------------------------------------
(* Calls, their slots and their programs.                                  *)

CodePolicies == [backend : {"docker", "local", "disabled"}, fallback : BOOLEAN]

CodePrograms ==
    [place : {"none", "container", "host"}, running : BOOLEAN, open : BOOLEAN,
     ended : {"not", "running", "killed"} \cup Code!Exits, removal : {"none", "failed"}]

CodeStatuses ==
    {"none", "disabled", "busy", "success", "error", "internal_error", "timeout"}

CodeResults ==
    [status : CodeStatuses, infra : BOOLEAN, out : 0 .. MaxChars, err : 0 .. MaxChars]

CodeRecords ==
    [at : {"new", "choose", "launch", "run", "docker", "finish", "done"},
     program : CodePrograms, past : SUBSET CodePrograms, result : CodeResults]

(* The places of a call at which it holds the semaphore.                   *)
Holding == {"choose", "launch", "run", "docker", "finish"}

(* What a call has run, and what that entitles it to.                      *)
CallIsContained(call) ==
    LET program == call.program
    IN  /\ call.at \in {"new", "choose"} =>
              program = Code!NoProgram /\ call.past = {} /\ call.result.status = "none"
        /\ call.at \in {"launch", "run"} => program.place # "none"
        /\ program.running /\ ~program.open => program.place = "host"
        /\ call.at = "launch" => ~program.running /\ program.ended = "not"
                                 /\ call.result.status \notin {"busy", "disabled"}
        /\ call.at = "run" => program.ended # "not"
                              /\ call.result.status \notin {"busy", "disabled"}
        /\ call.at = "docker" => program.place = "container" /\ call.past = {}
                                 /\ call.result.status \notin {"busy", "disabled"}
        /\ call.at \in {"docker", "finish", "done"} /\ program.running => Code!Orphan(program)
        /\ call.at = "docker" /\ call.result.infra =>
              ~program.running /\ program.ended \in {"not", "reserved"}
        /\ \A p \in call.past : p.place = "container" /\ p.ended = "reserved"
        /\ call.past # {} => codePolicy.fallback /\ program.place = "host"
        /\ call.result.status \in {"busy", "disabled"} =>
              call.past = {} /\ program.ended = "not" /\ ~program.running

CodeInv ==
    /\ codePolicy \in CodePolicies
    /\ codeDaemon \in [up : BOOLEAN, cached : SUBSET BOOLEAN]
    /\ codeCalls \in [Programs -> CodeRecords]
    /\ codeSlots \subseteq Programs
    /\ Cardinality(codeSlots) <= MaxConcurrent
    /\ \A c \in Programs : (c \in codeSlots <=> codeCalls[c].at \in Holding) /\ CallIsContained(codeCalls[c])

(* Cardinality in the instance is the library's.                           *)
LEMMA CodeCounts == ASSUME NEW S PROVE Code!Cardinality(S) = Cardinality(S)
  BY DEF Code!Cardinality, Cardinality

(* Nothing runs and no slot is taken at the start.                         *)
LEMMA CodeStarts == Code!Init => CodeInv
  <1> SUFFICES ASSUME Code!Init PROVE CodeInv
    OBVIOUS
  <1>1. Cardinality(codeSlots) = 0 /\ 0 <= MaxConcurrent
    BY CodeAssumption, FS_EmptySet DEF Code!Init
  <1>2. 0 \in 0 .. MaxChars
    BY CodeAssumption
  <1>3. codeCalls \in [Programs -> CodeRecords]
    BY <1>2 DEF Code!Init, CodeRecords, CodePrograms, CodeResults, CodeStatuses, Code!NoProgram, Code!NoResult
  <1>4. ASSUME NEW c \in Programs PROVE CallIsContained(codeCalls[c]) /\ codeCalls[c].at = "new"
    BY DEF Code!Init, CallIsContained, Code!NoProgram, Code!NoResult
  <1> QED BY <1>1, <1>3, <1>4 DEF Code!Init, CodeInv, CodePolicies, Holding

(* The invariant of the calls implies that execution is contained.         *)
LEMMA CodeInvSuffices == CodeInv => Code!ExecutionIsContained
  BY CodeCounts DEF CodeInv, Code!ExecutionIsContained, CallIsContained, CodeRecords,
     CodeResults, CodePrograms, Holding, Code!OnHost, Code!Orphan, Code!NoProgram

(* A step that leaves the slots alone moves one call.                      *)
LEMMA CallMoves ==
    ASSUME CodeInv, NEW c \in Programs, NEW call \in CodeRecords, Code!Put(c, call),
           UNCHANGED <<codePolicy, codeSlots>>, codeDaemon' \in [up : BOOLEAN, cached : SUBSET BOOLEAN],
           CallIsContained(call),
           call.at \in Holding <=> codeCalls[c].at \in Holding
    PROVE  CodeInv'
  <1>1. codeCalls' \in [Programs -> CodeRecords] /\ codeCalls'[c] = call
        /\ \A d \in Programs \ {c} : codeCalls'[d] = codeCalls[d]
    BY DEF CodeInv, Code!Put
  <1>2. ASSUME NEW d \in Programs
        PROVE  (d \in codeSlots' <=> codeCalls'[d].at \in Holding) /\ CallIsContained(codeCalls[d])'
    <2>1. CASE d = c
      BY <1>1, <2>1 DEF CodeInv, CallIsContained
    <2>2. CASE d # c
      BY <1>1, <2>2 DEF CodeInv, CallIsContained
    <2> QED BY <2>1, <2>2
  <1> QED BY <1>1, <1>2 DEF CodeInv

(* What a call becomes when it is given a result.                          *)
LEMMA Results ==
    ASSUME CodeInv, NEW c \in Programs, NEW infra \in BOOLEAN, NEW text,
           NEW status \in CodeStatuses, IsWithin(text)
    PROVE  /\ Code!Result(c, status, infra, text) =
                [at |-> "finish", program |-> codeCalls[c].program, past |-> codeCalls[c].past,
                 result |-> [status |-> status, infra |-> infra, out |-> text.out,
                             err |-> text.err]]
           /\ Code!Result(c, status, infra, text) \in CodeRecords
  <1>1. codeCalls[c] \in CodeRecords
    BY DEF CodeInv
  <1>2. [status |-> status, infra |-> infra, out |-> text.out, err |-> text.err] \in CodeResults
    BY DEF CodeResults, IsWithin
  <1>3. Code!Result(c, status, infra, text) =
          [codeCalls[c] EXCEPT !.at = "finish",
              !.result = [status |-> status, infra |-> infra, out |-> text.out, err |-> text.err]]
    BY DEF Code!Result
  <1> DEFINE result == [status |-> status, infra |-> infra, out |-> text.out, err |-> text.err]
  <1> HIDE DEF result
  <1>4. Code!Result(c, status, infra, text) = [codeCalls[c] EXCEPT !.at = "finish", !.result = result]
    BY <1>3 DEF result
  <1>5. result \in CodeResults
    BY <1>2 DEF result
  <1>6. /\ Code!Result(c, status, infra, text) =
             [at |-> "finish", program |-> codeCalls[c].program, past |-> codeCalls[c].past,
              result |-> result]
        /\ Code!Result(c, status, infra, text) \in CodeRecords
    BY <1>1, <1>4, <1>5 DEF CodeRecords
  <1> QED BY <1>6 DEF result

(* The program's own messages are within the limit.                        *)
LEMMA SaidIsWithin == IsWithin(Code!Said)
  BY CodeAssumption DEF IsWithin, Code!Said

(* What a program looks like once it is sent somewhere.                    *)
LEMMA Sent ==
    ASSUME CodeInv, NEW c \in Programs, NEW place \in {"container", "host"}
    PROVE  /\ Code!Send(c, place).at = "launch"
           /\ Code!Send(c, place).program = [Code!NoProgram EXCEPT !.place = place]
           /\ Code!Send(c, place).result = codeCalls[c].result
           /\ Code!Send(c, place).past = IF codeCalls[c].program.ended = "not" THEN codeCalls[c].past
                                    ELSE codeCalls[c].past \cup {codeCalls[c].program}
           /\ Code!Send(c, place) \in CodeRecords
  <1>1. [Code!NoProgram EXCEPT !.place = place] \in CodePrograms
    BY DEF Code!NoProgram, CodePrograms
  <1>2. codeCalls[c] \in CodeRecords
    BY DEF CodeInv
  <1> DEFINE program == [Code!NoProgram EXCEPT !.place = place]
             past == IF codeCalls[c].program.ended = "not" THEN codeCalls[c].past
                     ELSE codeCalls[c].past \cup {codeCalls[c].program}
  <1>3. past \in SUBSET CodePrograms
    BY <1>2 DEF CodeRecords
  <1>4. Code!Send(c, place) = [codeCalls[c] EXCEPT !.at = "launch", !.past = past, !.program = program]
    BY <1>2 DEF Code!Send, CodeRecords
  <1>5. program \in CodePrograms
    BY <1>1
  <1> HIDE DEF program, past
  <1>6. Code!Send(c, place) = [at |-> "launch", program |-> program, past |-> past,
                          result |-> codeCalls[c].result]
    BY <1>2, <1>4 DEF CodeRecords
  <1>7. Code!Send(c, place) \in CodeRecords
    BY <1>2, <1>3, <1>5, <1>6 DEF CodeRecords
  <1> QED BY <1>6, <1>7 DEF program, past

(* A result of the sandbox itself, or of a program.                        *)
LEMMA Refusals ==
    ASSUME CodeInv, NEW c \in Programs, NEW status \in {"disabled", "busy"},
           codeCalls[c].at \in {"new", "choose"}
    PROVE  /\ Code!Result(c, status, FALSE, Code!Said) \in CodeRecords
           /\ CallIsContained(Code!Result(c, status, FALSE, Code!Said))
           /\ Code!Result(c, status, FALSE, Code!Said).at = "finish"
           /\ [Code!Result(c, status, FALSE, Code!Said) EXCEPT !.at = "done"] \in CodeRecords
           /\ CallIsContained([Code!Result(c, status, FALSE, Code!Said) EXCEPT !.at = "done"])
           /\ [Code!Result(c, status, FALSE, Code!Said) EXCEPT !.at = "done"].at = "done"
  <1> DEFINE call == Code!Result(c, status, FALSE, Code!Said)
             done == [call EXCEPT !.at = "done"]
             result == [status |-> status, infra |-> FALSE, out |-> Code!Said.out, err |-> Code!Said.err]
  <1>0. status \in CodeStatuses /\ FALSE \in BOOLEAN
    BY DEF CodeStatuses
  <1>1. call = [at |-> "finish", program |-> codeCalls[c].program, past |-> codeCalls[c].past,
                result |-> result]
    BY <1>0, SaidIsWithin, Results, Zenon
  <1>2. call \in CodeRecords
    BY <1>0, SaidIsWithin, Results
  <1>3. codeCalls[c].program = Code!NoProgram /\ codeCalls[c].past = {}
    BY DEF CodeInv, CallIsContained
  <1>4. Code!NoProgram.ended = "not" /\ Code!NoProgram.running = FALSE
    BY DEF Code!NoProgram
  <1>5. result.status = status /\ result.infra = FALSE
    OBVIOUS
  <1> HIDE DEF call, result
  <1>6. /\ done = [at |-> "done", program |-> call.program, past |-> call.past,
                   result |-> call.result]
        /\ done \in CodeRecords
    BY <1>2 DEF CodeRecords
  <1>7. CallIsContained(call) /\ call.at = "finish"
    BY <1>1, <1>3, <1>4, <1>5 DEF CallIsContained
  <1>8. done.at = "done" /\ done.program = call.program /\ done.past = call.past
        /\ done.result = call.result
    BY <1>6
  <1> HIDE DEF done
  <1>9. CallIsContained(done)
    BY <1>1, <1>3, <1>4, <1>5, <1>8 DEF CallIsContained
  <1>10. /\ call \in CodeRecords /\ CallIsContained(call) /\ call.at = "finish"
         /\ done \in CodeRecords /\ CallIsContained(done) /\ done.at = "done"
    BY <1>2, <1>6, <1>7, <1>8, <1>9
  <1> QED BY <1>10 DEF call, done

(* A call that is refused, by the switch or for want of a slot, starts no  *)
(* program.                                                                *)
LEMMA RefusingKeeps ==
    ASSUME CodeInv, NEW c \in Programs, Code!Disabled(c) \/ Code!Busy(c) PROVE CodeInv'
  <1>1. PICK status \in {"disabled", "busy"} :
            Code!Put(c, [Code!Result(c, status, FALSE, Code!Said) EXCEPT !.at = "done"])
    BY DEF Code!Disabled, Code!Busy
  <1>2. codeCalls[c].at = "new" /\ UNCHANGED <<codePolicy, codeDaemon, codeSlots>>
    BY DEF Code!Disabled, Code!Busy
  <1> DEFINE call == [Code!Result(c, status, FALSE, Code!Said) EXCEPT !.at = "done"]
  <1>3. call \in CodeRecords /\ CallIsContained(call) /\ call.at = "done"
    BY <1>2, Refusals
  <1> HIDE DEF call
  <1>4. Code!Put(c, call)
    BY <1>1 DEF call
  <1>5. codeDaemon' \in [up : BOOLEAN, cached : SUBSET BOOLEAN]
    BY <1>2 DEF CodeInv
  <1> QED BY <1>2, <1>3, <1>4, <1>5, CallMoves DEF Holding

(* A call takes a slot only when one is free.                              *)
LEMMA AcquireKeeps ==
    ASSUME CodeInv, NEW c \in Programs, Code!Acquire(c) PROVE CodeInv'
  <1>1. /\ codeCalls[c].at = "new" /\ codeCalls[c] \in CodeRecords /\ c \notin codeSlots
        /\ CallIsContained(codeCalls[c])
    BY DEF CodeInv, Code!Acquire, Holding
  <1>2. IsFiniteSet(codeSlots)
    BY CodeAssumption, FS_Subset DEF CodeInv
  <1>3. Cardinality(codeSlots') = Cardinality(codeSlots) + 1
    BY <1>1, <1>2, FS_AddElement DEF Code!Acquire
  <1>4. Cardinality(codeSlots') <= MaxConcurrent
    BY <1>2, <1>3, CodeAssumption, CodeCounts, FS_CardinalityType DEF Code!Acquire
  <1> DEFINE call == [codeCalls[c] EXCEPT !.at = "choose"]
  <1>5. call \in CodeRecords /\ call.at = "choose" /\ CallIsContained(call)
    BY <1>1 DEF CodeRecords, CallIsContained, CodeResults, CodePrograms
  <1> HIDE DEF call
  <1>6. /\ codeCalls' \in [Programs -> CodeRecords] /\ codeCalls'[c] = call
        /\ \A d \in Programs \ {c} : codeCalls'[d] = codeCalls[d]
    BY <1>5 DEF CodeInv, Code!Acquire, Code!Put, call
  <1>7. ASSUME NEW d \in Programs
        PROVE  (d \in codeSlots' <=> codeCalls'[d].at \in Holding) /\ CallIsContained(codeCalls[d])'
    <2>1. CASE d = c
      BY <1>5, <1>6, <2>1 DEF CodeInv, CallIsContained, Code!Acquire, Holding
    <2>2. CASE d # c
      BY <1>6, <2>2 DEF CodeInv, CallIsContained, Code!Acquire
    <2> QED BY <2>1, <2>2
  <1> QED BY <1>4, <1>6, <1>7 DEF CodeInv, Code!Acquire

(* A call that has its result gives back its slot.                         *)
LEMMA ReleaseKeeps ==
    ASSUME CodeInv, NEW c \in Programs, Code!Release(c) PROVE CodeInv'
  <1>1. codeCalls[c].at = "finish" /\ codeCalls[c] \in CodeRecords /\ CallIsContained(codeCalls[c])
    BY DEF CodeInv, Code!Release
  <1>2. IsFiniteSet(codeSlots) /\ codeSlots' \subseteq codeSlots
    BY CodeAssumption, FS_Subset DEF CodeInv, Code!Release
  <1>3. IsFiniteSet(codeSlots') /\ Cardinality(codeSlots') <= Cardinality(codeSlots)
    BY <1>2, FS_Subset
  <1>4. Cardinality(codeSlots') <= MaxConcurrent
    BY <1>2, <1>3, CodeAssumption, FS_CardinalityType DEF CodeInv
  <1> DEFINE call == [codeCalls[c] EXCEPT !.at = "done"]
  <1>5. call \in CodeRecords /\ call.at = "done" /\ CallIsContained(call)
    BY <1>1 DEF CodeRecords, CallIsContained, CodeResults, CodePrograms
  <1> HIDE DEF call
  <1>6. /\ codeCalls' \in [Programs -> CodeRecords] /\ codeCalls'[c] = call
        /\ \A d \in Programs \ {c} : codeCalls'[d] = codeCalls[d]
    BY <1>5 DEF CodeInv, Code!Release, Code!Put, call
  <1>7. ASSUME NEW d \in Programs
        PROVE  (d \in codeSlots' <=> codeCalls'[d].at \in Holding) /\ CallIsContained(codeCalls[d])'
    <2>1. CASE d = c
      BY <1>5, <1>6, <2>1 DEF CodeInv, CallIsContained, Code!Release, Holding
    <2>2. CASE d # c
      BY <1>6, <2>2 DEF CodeInv, CallIsContained, Code!Release
    <2> QED BY <2>1, <2>2
  <1> QED BY <1>4, <1>6, <1>7 DEF CodeInv, Code!Release

(* A call that was sent somewhere for the first time, or to the host after *)
(* docker had failed.                                                      *)
LEMMA SentIsContained ==
    ASSUME CodeInv, NEW c \in Programs, NEW place \in {"container", "host"},
           \/ codeCalls[c].at = "choose"
           \/ /\ codeCalls[c].at = "docker" /\ codeCalls[c].result.infra
              /\ codePolicy.fallback /\ place = "host"
    PROVE  CallIsContained(Code!Send(c, place))
  <1>1. codeCalls[c] \in CodeRecords /\ CallIsContained(codeCalls[c])
    BY DEF CodeInv
  <1> DEFINE sent == Code!Send(c, place)
  <1>2. /\ sent.at = "launch" /\ sent.result = codeCalls[c].result
        /\ sent.program = [Code!NoProgram EXCEPT !.place = place]
        /\ sent.past = IF codeCalls[c].program.ended = "not" THEN codeCalls[c].past
                       ELSE codeCalls[c].past \cup {codeCalls[c].program}
    BY Sent
  <1>3. sent.program.ended = "not" /\ sent.program.running = FALSE
        /\ sent.program.place = place
    BY <1>2 DEF Code!NoProgram
  <1> HIDE DEF sent
  <1>4. CASE codeCalls[c].at = "choose"
    <2>1. sent.past = {}
      BY <1>1, <1>2, <1>4 DEF CallIsContained, Code!NoProgram
    <2>2. CallIsContained(sent)
      BY <1>1, <1>2, <1>3, <1>4, <2>1 DEF CallIsContained
    <2> QED BY <2>2 DEF sent
  <1>5. CASE /\ codeCalls[c].at = "docker" /\ codeCalls[c].result.infra
             /\ codePolicy.fallback /\ place = "host"
    <2>1. \A p \in sent.past : p.place = "container" /\ p.ended = "reserved"
      BY <1>1, <1>2, <1>5 DEF CallIsContained
    <2>2. CallIsContained(sent)
      BY <1>1, <1>2, <1>3, <1>5, <2>1 DEF CallIsContained
    <2> QED BY <2>2 DEF sent
  <1> QED BY <1>4, <1>5

(* A call is sent to a place that its policy allows.                       *)
LEMMA ChooseKeeps ==
    ASSUME CodeInv, NEW c \in Programs, Code!Choose(c) PROVE CodeInv'
  <1>1. codeCalls[c].at = "choose" /\ UNCHANGED <<codePolicy, codeSlots>>
    BY DEF Code!Choose
  <1>2. ASSUME NEW place \in {"container", "host"}
        PROVE  Code!Send(c, place) \in CodeRecords /\ CallIsContained(Code!Send(c, place))
               /\ Code!Send(c, place).at \in Holding
    BY <1>1, Sent, SentIsContained DEF Holding
  <1>3. /\ Code!Result(c, "disabled", FALSE, Code!Said) \in CodeRecords
        /\ CallIsContained(Code!Result(c, "disabled", FALSE, Code!Said))
        /\ Code!Result(c, "disabled", FALSE, Code!Said).at \in Holding
    BY <1>1, Refusals DEF Holding
  <1>4. codeDaemon' \in [up : BOOLEAN, cached : SUBSET BOOLEAN]
    <2>1. CASE codePolicy.backend = "local"
      BY <2>1 DEF CodeInv, Code!Choose
    <2>2. CASE codePolicy.backend # "local"
      <3>1. PICK available \in codeDaemon.cached \cup {codeDaemon.up} :
                codeDaemon' = [codeDaemon EXCEPT !.cached = {available}]
        BY <2>2 DEF Code!Choose
      <3>2. available \in BOOLEAN
        BY DEF CodeInv
      <3> QED BY <3>1, <3>2 DEF CodeInv
    <2> QED BY <2>1, <2>2
  <1>5. PICK call \in {Code!Send(c, "host"), Code!Send(c, "container"),
                       Code!Result(c, "disabled", FALSE, Code!Said)} : Code!Put(c, call)
    BY DEF Code!Choose
  <1>6. call \in CodeRecords /\ CallIsContained(call) /\ call.at \in Holding
    BY <1>2, <1>3, <1>5
  <1> QED BY <1>1, <1>4, <1>5, <1>6, CallMoves DEF Holding

(* A call that has run, or failed to: what became of its program is kept.  *)
LEMMA GivenResults ==
    ASSUME CodeInv, NEW c \in Programs, NEW infra \in BOOLEAN, NEW text, IsWithin(text),
           NEW status \in {"success", "error", "internal_error", "timeout"},
           codeCalls[c].at \in {"launch", "run"}, NEW at \in {"docker", "finish"},
           NEW program \in CodePrograms, program.place = codeCalls[c].program.place,
           program.running => Code!Orphan(program),
           program.running /\ ~program.open => program.place = "host",
           at = "docker" => ~Code!OnHost(c),
           at = "docker" /\ infra => ~program.running /\ program.ended \in {"not", "reserved"},
           NEW result,
           result = [status |-> status, infra |-> infra, out |-> text.out, err |-> text.err],
           NEW call,
           call = [at |-> at, program |-> program, past |-> codeCalls[c].past, result |-> result]
    PROVE  call \in CodeRecords /\ call.at \in Holding /\ CallIsContained(call)
  <1>1. /\ status \in CodeStatuses /\ status \notin {"none", "busy", "disabled"}
        /\ codeCalls[c] \in CodeRecords /\ CallIsContained(codeCalls[c])
    BY DEF CodeStatuses, CodeInv
  <1>2. result \in CodeResults /\ result.status = status /\ result.infra = infra
    BY <1>1 DEF CodeResults, IsWithin
  <1>3. call \in CodeRecords
    BY <1>1, <1>2 DEF CodeRecords
  <1>4. /\ call.at = at /\ call.program = program /\ call.past = codeCalls[c].past
        /\ call.result.status = status /\ call.result.infra = infra
    BY <1>2
  <1>5. at = "docker" => program.place = "container" /\ codeCalls[c].past = {}
    BY <1>1 DEF CallIsContained, Code!OnHost, CodePrograms
  <1>6. \A p \in codeCalls[c].past : p.place = "container" /\ p.ended = "reserved"
    BY <1>1 DEF CallIsContained
  <1>7. codeCalls[c].past # {} => codePolicy.fallback /\ program.place = "host"
    BY <1>1 DEF CallIsContained
  <1> QED BY <1>1, <1>3, <1>4, <1>5, <1>6, <1>7 DEF CallIsContained, Holding

(* The same, as the steps write it.                                        *)
LEMMA GivenBack ==
    ASSUME CodeInv, NEW c \in Programs, NEW infra \in BOOLEAN, NEW text, IsWithin(text),
           NEW status \in {"success", "error", "internal_error", "timeout"}
    PROVE  Code!Back(c, Code!Result(c, status, infra, text)) =
              [at |-> IF Code!OnHost(c) THEN "finish" ELSE "docker", program |-> codeCalls[c].program,
               past |-> codeCalls[c].past,
               result |-> [status |-> status, infra |-> infra, out |-> text.out,
                           err |-> text.err]]
  <1> DEFINE call == Code!Result(c, status, infra, text)
             result == [status |-> status, infra |-> infra, out |-> text.out, err |-> text.err]
  <1>0. status \in CodeStatuses
    BY DEF CodeStatuses
  <1>1. call = [at |-> "finish", program |-> codeCalls[c].program, past |-> codeCalls[c].past,
                result |-> result]
    BY <1>0, Results
  <1> HIDE DEF call, result
  <1>2. [call EXCEPT !.at = "docker"] =
            [at |-> "docker", program |-> codeCalls[c].program, past |-> codeCalls[c].past,
             result |-> result]
    BY <1>1
  <1>3. Code!Back(c, call) = [at |-> IF Code!OnHost(c) THEN "finish" ELSE "docker",
                         program |-> codeCalls[c].program, past |-> codeCalls[c].past,
                         result |-> result]
    BY <1>1, <1>2 DEF Code!Back
  <1> QED BY <1>3 DEF call, result

(* A call with another stage and another program.                          *)
LEMMA Changed ==
    ASSUME NEW call \in CodeRecords, NEW at, NEW program
    PROVE  [call EXCEPT !.at = at, !.program = program] =
              [at |-> at, program |-> program, past |-> call.past, result |-> call.result]
  <1> DEFINE moved == [call EXCEPT !.at = at]
  <1>1. moved = [at |-> at, program |-> call.program, past |-> call.past,
                 result |-> call.result]
    BY DEF CodeRecords
  <1> HIDE DEF moved
  <1>2. [moved EXCEPT !.program = program] =
            [at |-> at, program |-> program, past |-> call.past, result |-> call.result]
    BY <1>1
  <1> QED BY <1>2 DEF moved

(* A launch starts the program in the place it was sent to, or reports why *)
(* not.                                                                    *)
LEMMA LaunchKeeps ==
    ASSUME CodeInv, NEW c \in Programs, Code!Launch(c) PROVE CodeInv'
  <1>1. /\ codeCalls[c].at = "launch" /\ UNCHANGED <<codePolicy, codeDaemon, codeSlots>>
        /\ codeCalls[c] \in CodeRecords /\ CallIsContained(codeCalls[c])
    BY DEF Code!Launch, CodeInv
  <1>2. codeDaemon' \in [up : BOOLEAN, cached : SUBSET BOOLEAN]
    BY <1>1 DEF CodeInv
  <1>3. CASE Code!Put(c, [codeCalls[c] EXCEPT !.at = "run", !.program = Code!Begun(@)])
    <2> DEFINE program == Code!Begun(codeCalls[c].program)
               call == [at |-> "run", program |-> program, past |-> codeCalls[c].past,
                        result |-> codeCalls[c].result]
    <2>1. program \in CodePrograms /\ program.place = codeCalls[c].program.place
          /\ program.running = TRUE /\ program.open = TRUE /\ program.ended = "running"
      BY <1>1 DEF CodeRecords, CodePrograms, Code!Begun
    <2>2. Code!Put(c, [codeCalls[c] EXCEPT !.at = "run", !.program = program])
      BY <1>3
    <2>3. codeCalls[c].result.status \notin {"busy", "disabled"} /\ codeCalls[c].program.place # "none"
      BY <1>1 DEF CallIsContained
    <2> HIDE DEF program
    <2>0. codeCalls[c] \in CodeRecords
      BY <1>1
    <2>4. [codeCalls[c] EXCEPT !.at = "run", !.program = program] = call
      BY <2>0, Changed
    <2>5. call \in CodeRecords /\ call.at = "run" /\ call.program = program
          /\ call.past = codeCalls[c].past /\ call.result = codeCalls[c].result
      BY <1>1, <2>1 DEF CodeRecords
    <2>6. Code!Put(c, call)
      BY <2>2, <2>4
    <2> HIDE DEF call
    <2>7. CallIsContained(call)
      BY <1>1, <2>1, <2>3, <2>5 DEF CallIsContained
    <2> QED BY <1>1, <1>2, <2>5, <2>6, <2>7, CallMoves DEF Holding
  <1>4. CASE Code!Put(c, Code!Back(c, Code!Result(c, "internal_error", ~Code!OnHost(c), Code!Said)))
    <2> DEFINE infra == ~Code!OnHost(c)
               result == [status |-> "internal_error", infra |-> infra, out |-> Code!Said.out,
                          err |-> Code!Said.err]
               at == IF Code!OnHost(c) THEN "finish" ELSE "docker"
               call == [at |-> at, program |-> codeCalls[c].program, past |-> codeCalls[c].past,
                        result |-> result]
    <2>1. infra \in BOOLEAN
      OBVIOUS
    <2>2. Code!Put(c, call)
      BY <1>4, <2>1, SaidIsWithin, GivenBack, Zenon
    <2>3. codeCalls[c].program \in CodePrograms /\ ~codeCalls[c].program.running
          /\ codeCalls[c].program.ended = "not"
      BY <1>1 DEF CodeRecords, CallIsContained
    <2>4. at \in {"docker", "finish"} /\ (at = "docker" => ~Code!OnHost(c))
      OBVIOUS
    <2>5. /\ result = [status |-> "internal_error", infra |-> infra, out |-> Code!Said.out,
                       err |-> Code!Said.err]
          /\ call = [at |-> at, program |-> codeCalls[c].program, past |-> codeCalls[c].past,
                     result |-> result]
      OBVIOUS
    <2> HIDE DEF infra, at, result, call
    <2>6. call \in CodeRecords /\ call.at \in Holding /\ CallIsContained(call)
      BY <1>1, <2>1, <2>3, <2>4, <2>5, SaidIsWithin, GivenResults
    <2> QED BY <1>1, <1>2, <2>2, <2>6, CallMoves DEF Holding
  <1> QED BY <1>3, <1>4 DEF Code!Launch

(* A step of the program itself.                                           *)
LEMMA ProgramMoves ==
    ASSUME CodeInv, NEW c \in Programs, UNCHANGED <<codePolicy, codeDaemon, codeSlots>>,
           codeCalls[c].program.running, NEW program \in CodePrograms,
           program.place = codeCalls[c].program.place, program.removal = codeCalls[c].program.removal,
           \/ /\ ~program.running /\ program.ended # "not"
           \/ /\ program.running /\ program.place = "host" /\ ~program.open
              /\ program.ended = codeCalls[c].program.ended,
           Code!Put(c, [codeCalls[c] EXCEPT !.program = program])
    PROVE  CodeInv'
  <1>1. codeCalls[c] \in CodeRecords /\ CallIsContained(codeCalls[c])
    BY DEF CodeInv
  <1> DEFINE call == [at |-> codeCalls[c].at, program |-> program, past |-> codeCalls[c].past,
                      result |-> codeCalls[c].result]
  <1>2. [codeCalls[c] EXCEPT !.program = program] = call
    BY <1>1 DEF CodeRecords
  <1>3. call \in CodeRecords /\ call.at = codeCalls[c].at /\ call.program = program
        /\ call.past = codeCalls[c].past /\ call.result = codeCalls[c].result
    BY <1>1 DEF CodeRecords
  <1>4. Code!Put(c, call)
    BY <1>2
  <1> HIDE DEF call
  <1>5. codeCalls[c].at \notin {"new", "choose", "launch"}
    BY <1>1 DEF CallIsContained, Code!NoProgram
  <1>6. CallIsContained(call)
    BY <1>1, <1>3, <1>5 DEF CallIsContained, Code!Orphan
  <1>7. codeDaemon' \in [up : BOOLEAN, cached : SUBSET BOOLEAN]
    BY DEF CodeInv
  <1> QED BY <1>3, <1>4, <1>6, <1>7, CallMoves

(* A program may close its output, and may exit on its own.                *)
LEMMA ProgramKeeps ==
    ASSUME CodeInv, NEW c \in Programs, Code!CloseOutput(c) \/ Code!Exit(c) PROVE CodeInv'
  <1>1. codeCalls[c].program.running /\ UNCHANGED <<codePolicy, codeDaemon, codeSlots>>
        /\ codeCalls[c].program \in CodePrograms /\ CallIsContained(codeCalls[c])
    BY DEF Code!CloseOutput, Code!Exit, CodeInv, CodeRecords
  <1>2. CASE Code!CloseOutput(c)
    <2> DEFINE program == [codeCalls[c].program EXCEPT !.open = FALSE]
    <2>1. Code!Put(c, [codeCalls[c] EXCEPT !.program = program])
      BY <1>2 DEF Code!CloseOutput
    <2>2. /\ program \in CodePrograms /\ program.place = codeCalls[c].program.place
          /\ program.removal = codeCalls[c].program.removal /\ program.running
          /\ ~program.open /\ program.ended = codeCalls[c].program.ended
      BY <1>1 DEF CodePrograms
    <2>3. program.place = "host"
      BY <1>2, <2>2 DEF Code!CloseOutput, Code!OnHost
    <2> HIDE DEF program
    <2> QED BY <1>1, <2>1, <2>2, <2>3, ProgramMoves
  <1>3. CASE Code!Exit(c)
    <2>1. PICK how \in Code!Exits : Code!Put(c, [codeCalls[c] EXCEPT !.program = Code!Ended(@, how)])
      BY <1>3 DEF Code!Exit
    <2> DEFINE program == Code!Ended(codeCalls[c].program, how)
    <2>2. Code!Put(c, [codeCalls[c] EXCEPT !.program = program])
      BY <2>1
    <2>3. /\ program \in CodePrograms /\ program.place = codeCalls[c].program.place
          /\ program.removal = codeCalls[c].program.removal /\ ~program.running
          /\ program.ended = how /\ how # "not"
      BY <1>1 DEF CodePrograms, Code!Ended, Code!Exits
    <2> HIDE DEF program
    <2> QED BY <1>1, <2>2, <2>3, ProgramMoves
  <1> QED BY <1>2, <1>3

(* A program the reader waited for, or did not.                            *)
LEMMA CompletedKeeps ==
    ASSUME CodeInv, NEW c \in Programs, Code!Completed(c) PROVE CodeInv'
  <1>1. /\ codeCalls[c].at = "run" /\ ~codeCalls[c].program.running
        /\ UNCHANGED <<codePolicy, codeDaemon, codeSlots>>
        /\ codeCalls[c] \in CodeRecords /\ CallIsContained(codeCalls[c])
    BY DEF Code!Completed, CodeInv
  <1>2. codeDaemon' \in [up : BOOLEAN, cached : SUBSET BOOLEAN]
    BY <1>1 DEF CodeInv
  <1> DEFINE how == codeCalls[c].program.ended
             status == IF how = "zero" THEN "success" ELSE "error"
             infra == ~Code!OnHost(c) /\ how = "reserved"
             at == IF Code!OnHost(c) THEN "finish" ELSE "docker"
  <1>3. PICK text \in Outputs :
            Code!Put(c, Code!Back(c, Code!Result(c, status, infra, Code!Collected(text[1], text[2]))))
    BY DEF Code!Completed
  <1>4. text[1] \in Nat /\ text[2] \in Nat
    BY CodeAssumption
  <1> DEFINE kept == Code!Collected(text[1], text[2])
             result == [status |-> status, infra |-> infra, out |-> kept.out, err |-> kept.err]
             call == [at |-> at, program |-> codeCalls[c].program, past |-> codeCalls[c].past,
                      result |-> result]
  <1>5. IsWithin(kept) /\ infra \in BOOLEAN /\ status \in {"success", "error"}
    BY <1>4, CollectedIsWithin
  <1>6. codeCalls[c].program \in CodePrograms
        /\ (infra => codeCalls[c].program.ended = "reserved")
        /\ at \in {"docker", "finish"} /\ (at = "docker" => ~Code!OnHost(c))
    BY <1>1 DEF CodeRecords
  <1> HIDE DEF kept, infra, status
  <1>7. Code!Put(c, call)
    <2>1. Code!Put(c, Code!Back(c, Code!Result(c, status, infra, kept)))
      BY <1>3 DEF kept, infra, status
    <2>2. status \in {"success", "error", "internal_error", "timeout"}
      BY <1>5
    <2>3. Code!Back(c, Code!Result(c, status, infra, kept)) = call
      BY <2>2, <1>5, GivenBack
    <2> QED BY <2>1, <2>3
  <1> HIDE DEF at
  <1>8. call \in CodeRecords /\ call.at \in Holding /\ CallIsContained(call)
    BY <1>1, <1>5, <1>6, GivenResults
  <1> HIDE DEF call
  <1> QED BY <1>1, <1>2, <1>7, <1>8, CallMoves DEF Holding

(* A program that was told to stop has ended, or runs on in a container    *)
(* that could not be removed.                                              *)
LEMMA StoppedProgram ==
    ASSUME NEW p \in CodePrograms, p.place # "none",
           p.running /\ ~p.open => p.place = "host", NEW q \in Code!Stopped(p)
    PROVE  /\ q \in CodePrograms /\ q.place = p.place
           /\ q.running => q.place = "container" /\ q.open /\ q.removal = "failed"
  <1>1. CASE ~p.running
    BY <1>1 DEF Code!Stopped
  <1>2. CASE p.running /\ q = Code!Ended(p, "killed")
    BY <1>2 DEF Code!Ended, CodePrograms
  <1>3. CASE p.running /\ p.place # "host"
             /\ q = [p EXCEPT !.removal = "failed", !.ended = "killed"]
    BY <1>3 DEF CodePrograms
  <1> QED BY <1>1, <1>2, <1>3 DEF Code!Stopped

(* A call that times out stops its program and says that it did.           *)
LEMMA TimedOutKeeps ==
    ASSUME CodeInv, NEW c \in Programs, Code!TimedOut(c) PROVE CodeInv'
  <1>1. /\ codeCalls[c].at = "run" /\ UNCHANGED <<codePolicy, codeDaemon, codeSlots>>
        /\ codeCalls[c] \in CodeRecords /\ CallIsContained(codeCalls[c])
    BY DEF Code!TimedOut, CodeInv
  <1>2. codeDaemon' \in [up : BOOLEAN, cached : SUBSET BOOLEAN]
    BY <1>1 DEF CodeInv
  <1> DEFINE Text(written) == Code!Collected(written[1], written[2])
             TextSaid(written) == [Text(written) EXCEPT !.err = IF @ = 0 THEN 1 ELSE @]
  <1>3. PICK written \in Outputs, program \in Code!Stopped(codeCalls[c].program) :
            Code!Put(c, [Code!Back(c, Code!Result(c, "timeout", FALSE, TextSaid(written)))
                        EXCEPT !.program = program])
    BY DEF Code!TimedOut
  <1>4. IsWithin(Text(written))
    BY CodeAssumption, CollectedIsWithin
  <1> DEFINE text == Text(written)
             kept == [text EXCEPT !.err = IF @ = 0 THEN 1 ELSE @]
  <1> HIDE DEF Text
  <1>5. IsWithin(kept)
    BY <1>4, CodeAssumption DEF IsWithin
  <1> DEFINE infra == FALSE
             result == [status |-> "timeout", infra |-> infra, out |-> kept.out,
                        err |-> kept.err]
             at == IF Code!OnHost(c) THEN "finish" ELSE "docker"
             call == [at |-> at, program |-> program, past |-> codeCalls[c].past,
                      result |-> result]
  <1>6. /\ program \in CodePrograms /\ program.place = codeCalls[c].program.place
        /\ program.running => program.place = "container" /\ program.open
                              /\ program.removal = "failed"
    BY <1>1, <1>3, StoppedProgram DEF CodeRecords, CallIsContained
  <1>0. infra \in BOOLEAN /\ ~infra
    OBVIOUS
  <1> HIDE DEF infra, kept, at
  <1>7. Code!Put(c, call)
    <2> DEFINE back == [at |-> at, program |-> codeCalls[c].program, past |-> codeCalls[c].past,
                        result |-> result]
    <2>1. "timeout" \in {"success", "error", "internal_error", "timeout"}
      OBVIOUS
    <2>2. Code!Back(c, Code!Result(c, "timeout", infra, kept)) = back
      BY <1>0, <2>1, <1>5, GivenBack DEF at
    <2>3. kept = TextSaid(written)
      BY DEF kept
    <2>4. Code!Put(c, [Code!Back(c, Code!Result(c, "timeout", infra, kept)) EXCEPT !.program = program])
      BY <1>3, <2>3 DEF infra
    <2> HIDE DEF result
    <2>5. [back EXCEPT !.program = program] = call
      OBVIOUS
    <2> HIDE DEF back, call
    <2> QED BY <2>2, <2>4, <2>5
  <1>8. call \in CodeRecords /\ call.at \in Holding /\ CallIsContained(call)
    <2>1. at \in {"docker", "finish"} /\ (at = "docker" => ~Code!OnHost(c))
      BY DEF at
    <2>2. program.running => Code!Orphan(program)
      BY <1>6 DEF Code!Orphan
    <2>3. /\ result = [status |-> "timeout", infra |-> infra, out |-> kept.out, err |-> kept.err]
          /\ call = [at |-> at, program |-> program, past |-> codeCalls[c].past, result |-> result]
      OBVIOUS
    <2> HIDE DEF result, call
    <2> QED BY <1>0, <1>1, <1>5, <1>6, <2>1, <2>2, <2>3, GivenResults
  <1> HIDE DEF call
  <1> QED BY <1>1, <1>2, <1>7, <1>8, CallMoves DEF Holding

(* A program that closed its output and runs on is left behind, on the     *)
(* host.                                                                   *)
LEMMA ClosedEarlyKeeps ==
    ASSUME CodeInv, NEW c \in Programs, Code!ClosedEarly(c) PROVE CodeInv'
  <1>1. /\ codeCalls[c].at = "run" /\ UNCHANGED <<codePolicy, codeDaemon, codeSlots>>
        /\ codeCalls[c].program.running /\ ~codeCalls[c].program.open
        /\ Code!Put(c, Code!Result(c, "internal_error", FALSE, Code!Said))
        /\ codeCalls[c] \in CodeRecords /\ CallIsContained(codeCalls[c])
    BY DEF Code!ClosedEarly, CodeInv
  <1>2. codeDaemon' \in [up : BOOLEAN, cached : SUBSET BOOLEAN]
    BY <1>1 DEF CodeInv
  <1> DEFINE result == [status |-> "internal_error", infra |-> FALSE, out |-> Code!Said.out,
                        err |-> Code!Said.err]
             call == [at |-> "finish", program |-> codeCalls[c].program, past |-> codeCalls[c].past,
                      result |-> result]
  <1>3. "internal_error" \in CodeStatuses /\ FALSE \in BOOLEAN
    BY DEF CodeStatuses
  <1>4. Code!Result(c, "internal_error", FALSE, Code!Said) = call
    BY <1>3, SaidIsWithin, Results
  <1>5. codeCalls[c].program \in CodePrograms /\ Code!Orphan(codeCalls[c].program)
        /\ codeCalls[c].program.place = "host"
    BY <1>1 DEF CodeRecords, CallIsContained, Code!Orphan
  <1>6. call \in CodeRecords /\ call.at \in Holding /\ CallIsContained(call)
    BY <1>1, <1>3, <1>5, SaidIsWithin, GivenResults
  <1>7. Code!Put(c, call)
    BY <1>1, <1>4
  <1> HIDE DEF call
  <1> QED BY <1>1, <1>2, <1>6, <1>7, CallMoves DEF Holding

(* A program goes on to the host only when the policy allows it and Docker *)
(* itself failed.                                                          *)
LEMMA FallBackKeeps ==
    ASSUME CodeInv, NEW c \in Programs, Code!FallBack(c) PROVE CodeInv'
  <1>1. /\ codeCalls[c].at = "docker" /\ UNCHANGED <<codePolicy, codeDaemon, codeSlots>>
        /\ codeCalls[c] \in CodeRecords /\ CallIsContained(codeCalls[c])
    BY DEF Code!FallBack, CodeInv
  <1>2. codeDaemon' \in [up : BOOLEAN, cached : SUBSET BOOLEAN]
    BY <1>1 DEF CodeInv
  <1>3. CASE codePolicy.fallback /\ codeCalls[c].result.infra
    <2>1. Code!Put(c, Code!Send(c, "host"))
      BY <1>3 DEF Code!FallBack
    <2>2. Code!Send(c, "host") \in CodeRecords /\ CallIsContained(Code!Send(c, "host"))
          /\ Code!Send(c, "host").at \in Holding
      BY <1>1, <1>3, Sent, SentIsContained DEF Holding
    <2> QED BY <1>1, <1>2, <2>1, <2>2, CallMoves DEF Holding
  <1>4. CASE ~(codePolicy.fallback /\ codeCalls[c].result.infra)
    <2> DEFINE call == [codeCalls[c] EXCEPT !.at = "finish"]
    <2>1. Code!Put(c, call)
      BY <1>4 DEF Code!FallBack
    <2>2. call = [at |-> "finish", program |-> codeCalls[c].program, past |-> codeCalls[c].past,
                  result |-> codeCalls[c].result] /\ call \in CodeRecords
      BY <1>1 DEF CodeRecords
    <2> HIDE DEF call
    <2>3. call.at = "finish" /\ call.program = codeCalls[c].program /\ call.past = codeCalls[c].past
          /\ call.result = codeCalls[c].result
      BY <2>2
    <2>4. CallIsContained(call)
      BY <1>1, <2>3 DEF CallIsContained
    <2> QED BY <1>1, <1>2, <2>1, <2>2, <2>3, <2>4, CallMoves DEF Holding
  <1> QED BY <1>3, <1>4

(* Every step of the calls keeps their invariant.                          *)
LEMMA CodeSteps == CodeInv /\ [Code!Next]_Code!vars => CodeInv'
  <1> SUFFICES ASSUME CodeInv, [Code!Next]_Code!vars PROVE CodeInv'
    OBVIOUS
  <1>1. ASSUME NEW c \in Programs,
               \/ Code!Disabled(c) \/ Code!Acquire(c) \/ Code!Busy(c) \/ Code!Choose(c) \/ Code!Launch(c)
               \/ Code!CloseOutput(c) \/ Code!Exit(c) \/ Code!Completed(c) \/ Code!TimedOut(c) \/ Code!ClosedEarly(c)
               \/ Code!FallBack(c) \/ Code!Release(c)
        PROVE  CodeInv'
    BY <1>1, RefusingKeeps, AcquireKeeps, ChooseKeeps, LaunchKeeps, ProgramKeeps,
       CompletedKeeps, TimedOutKeeps, ClosedEarlyKeeps, FallBackKeeps, ReleaseKeeps
  <1>2. CASE Code!DaemonChanges
    <2>1. codeDaemon' \in [up : BOOLEAN, cached : SUBSET BOOLEAN]
      BY <1>2 DEF Code!DaemonChanges, CodeInv
    <2> QED BY <1>2, <2>1 DEF Code!DaemonChanges, CodeInv, CallIsContained
  <1>3. CASE UNCHANGED Code!vars
    BY <1>3 DEF Code!vars, CodeInv, CallIsContained
  <1> QED BY <1>1, <1>2, <1>3 DEF Code!Next

-----------------------------------------------------------------------------
(* One part runs alone.                                                    *)

(* Sandboxed code is run within the limit.                                 *)
THEOREM CodeStaysContained == TeachingSpec => []ExecutionIsContained
  <1> DEFINE Kept == which = "code" => CodeInv
  <1>1. TeachingInit => Kept
    BY CodeStarts DEF TeachingInit
  <1>2. Kept /\ [TeachingNext]_teachingVars => Kept'
    <2> SUFFICES ASSUME Kept, [TeachingNext]_teachingVars, which' = "code" PROVE CodeInv'
      OBVIOUS
    <2>1. which = "code" /\ [Code!Next]_Code!vars
      BY DEF TeachingNext, AgentStep, ContextStep, ModelStep, WebStep, MappingStep, CodeStep,
             SpotsStep, PracticeStep, teachingVars, codeVars, Code!vars
    <2> QED BY <2>1, CodeSteps
  <1>3. Kept => ExecutionIsContained
    BY CodeInvSuffices DEF ExecutionIsContained
  <1> HIDE DEF Kept
  <1> QED BY <1>1, <1>2, <1>3, PTL DEF TeachingSpec

(* However requests and threads end, the guard of the semantic summaries   *)
(* opens again, and every call left behind is paid for with a cool-down.   *)
THEOREM GuardStaysOpenable == TeachingSpec => []GuardNeverSticks
  <1> DEFINE Kept == which = "model" => GuardInv
  <1>1. TeachingInit => Kept
    BY GuardStarts DEF TeachingInit
  <1>2. Kept /\ [TeachingNext]_teachingVars => Kept'
    <2> SUFFICES ASSUME Kept, [TeachingNext]_teachingVars, which' = "model" PROVE GuardInv'
      OBVIOUS
    <2>1. which = "model" /\ [Model!Next]_Model!vars
      BY DEF TeachingNext, AgentStep, ContextStep, ModelStep, WebStep, MappingStep, CodeStep,
             SpotsStep, PracticeStep, teachingVars, modelVars, Model!vars
    <2> QED BY <2>1, GuardSteps
  <1>3. Kept => GuardNeverSticks
    BY GuardInvSuffices DEF GuardNeverSticks
  <1> HIDE DEF Kept
  <1> QED BY <1>1, <1>2, <1>3, PTL DEF TeachingSpec

(* A turn has one truth: what the student saw is what the memory keeps and *)
(* the final event repeats, one model call spoke all of it, only a real    *)
(* answer teaches, and what is out of scope is not answered.               *)
THEOREM TurnsStayHonest == TeachingSpec => []TurnsTeachWhatTheyShow
  <1> DEFINE Kept == which = "agent" => AgentInv
  <1>1. TeachingInit => Kept
    BY AgentStarts DEF TeachingInit
  <1>2. Kept /\ [TeachingNext]_teachingVars => Kept'
    <2> SUFFICES ASSUME Kept, [TeachingNext]_teachingVars, which' = "agent" PROVE AgentInv'
      OBVIOUS
    <2>1. which = "agent" /\ [Agent!Next]_Agent!vars
      BY DEF TeachingNext, AgentStep, ContextStep, ModelStep, WebStep, MappingStep, CodeStep,
             SpotsStep, PracticeStep, teachingVars, agentVars, Agent!vars
    <2> QED BY <2>1, AgentSteps
  <1>3. Kept => TurnsTeachWhatTheyShow
    BY AgentInvSuffices DEF TurnsTeachWhatTheyShow
  <1> HIDE DEF Kept
  <1> QED BY <1>1, <1>2, <1>3, PTL DEF TeachingSpec

=============================================================================
