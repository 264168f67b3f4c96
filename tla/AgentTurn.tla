----------------------------- MODULE AgentTurn -----------------------------
(***************************************************************************)
(* One turn of the teaching agent, from the question to TurnEndEvent:      *)
(*   agent/turn_runner.py       the events the API sees, what is kept      *)
(*   agent/route_executor.py    blank output, recovery                     *)
(*   agent/handlers.py          one handler per route                      *)
(*   agent/result_finalizer.py  the fallback for an empty answer           *)
(*   runtime/model_runtime.py   model calls and their retries              *)
(*   api/core_bridge.py         the answer the API is given; "continue"    *)
(*                                                                         *)
(* Text is a sequence of pieces.  A piece is a word of some model call, a  *)
(* blank, or one of the texts the code puts there itself.                  *)
(***************************************************************************)
EXTENDS Routing, Integers

CONSTANTS Questions,   \* [cues, signs, web]: a text, and the web switch
          MaxPieces,   \* pieces one model call streams
          MaxRetries   \* CHAT_MAX_RETRIES

VARIABLES pc,
          turn,    \* the route, the text so far, the trace of retrieval
          call,    \* the model call under way
          events,  \* turn events other than deltas, in order
          memory   \* what the turn leaves behind

vars == <<pc, turn, call, events, memory>>

Word(n)  == [kind |-> "word", call |-> n]
Said(k)  == [kind |-> k, call |-> 0]
Blank    == Said("blank")
IsBlank(text) == \A i \in DOMAIN text : text[i] = Blank

NoCall == [n |-> 0, streaming |-> FALSE, attempt |-> 0, pieces |-> 0]

Start == [intent |-> "none", mode |-> "none", required |-> FALSE, learning |-> FALSE,
          records |-> FALSE, static |-> FALSE]

NoQuestion == [cues |-> {}, signs |-> {}, web |-> FALSE]

Init ==
    /\ pc = "start"
    /\ turn = [asked |-> NoQuestion, route |-> Start, handler |-> "none",
               stream |-> FALSE, buffered |-> FALSE, shown |-> <<>>, held |-> <<>>,
               out |-> <<>>, final |-> <<>>, degraded |-> FALSE, attempted |-> FALSE, used |-> FALSE,
               fellBack |-> FALSE]
    /\ call = NoCall
    /\ events = <<>>
    /\ memory = [answer |-> <<>>, facts |-> FALSE, practice |-> FALSE,
                 told |-> <<>>, error |-> FALSE]

(* Mutant of Hear: blanks kept back are forgotten when a word arrives.     *)
HearWithoutBlanks(t, piece) ==
    IF t.buffered \/ piece = Blank
    THEN [t EXCEPT !.out = Append(@, piece)]
    ELSE [t EXCEPT !.out = Append(@, piece), !.shown = Append(@, piece)]

-----------------------------------------------------------------------------
(* iter_route_response passes a word on at once, keeps a blank back until  *)
(* a word follows it, and drops what is left; a buffered handler's text is *)
(* collected; a continuation passes everything on.                         *)
Hear(t, piece) ==
    IF t.buffered
    THEN [t EXCEPT !.out = Append(@, piece)]
    ELSE IF t.handler = "continue"
    THEN [t EXCEPT !.out = Append(@, piece), !.shown = Append(@, piece)]
    ELSE IF piece = Blank
    THEN [t EXCEPT !.out = Append(@, piece), !.held = Append(@, piece)]
    ELSE [t EXCEPT !.out = Append(@, piece), !.held = <<>>,
                   !.shown = @ \o t.held \o <<piece>>]

(* RetrievalEndEvent reaches the API from a handler that streams.          *)
Announce(t) ==
    events' = IF t.buffered THEN events ELSE Append(events, "retrievalEnd")

(* QueryPipeline.prepare; a route that is prepared without error starts.   *)
Prepare ==
    /\ pc = "start"
    /\ \E asked \in Questions, said \in Classified, stream, postprocess \in BOOLEAN :
          LET route == Decide(CuesOf(asked), said)
              handler == HandlerOf(route)
          IN  /\ turn' = [turn EXCEPT !.asked = asked, !.route = route,
                    !.handler = handler, !.stream = stream,
                    !.buffered = \/ ~stream
                                 \/ handler \notin {"rag", "web", "skill", "generic"}
                                 \/ handler = "skill" /\ route.intent # "personal"
                                 \/ handler = "generic" /\ postprocess]
              /\ events' = IF stream /\ route.mode = "grounded"
                           THEN <<"selected", "retrievalStart">> ELSE <<"selected">>
    /\ pc' = "handle"
    /\ UNCHANGED <<call, memory>>

PrepareFails ==
    /\ pc = "start"
    /\ \E stream \in BOOLEAN : turn' = [turn EXCEPT !.stream = stream]
    /\ events' = <<"error">>
    /\ pc' = "failed"
    /\ UNCHANGED <<call, memory>>

-----------------------------------------------------------------------------
(* Model calls.                                                            *)

Calls(streaming) ==
    call' = [n |-> call.n + 1, streaming |-> streaming, attempt |-> 0, pieces |-> 0]

(* One chunk of a stream; a chunk may be white space.                      *)
StreamPiece ==
    /\ pc \in {"model", "answer", "explain"} /\ call.streaming
    /\ call.pieces < MaxPieces
    /\ \E piece \in {Word(call.n), Blank} : turn' = Hear(turn, piece)
    /\ call' = [call EXCEPT !.pieces = @ + 1]
    /\ UNCHANGED <<pc, events, memory>>

(* An exception in execute is turned into an empty degraded result; one    *)
(* that reaches iter_turn_events ends the turn.                            *)
Raise ==
    IF turn.buffered
    THEN /\ turn' = [turn EXCEPT !.out = <<>>, !.degraded = TRUE, !.fellBack = TRUE]
         /\ pc' = "finalize"
         /\ UNCHANGED events
    ELSE /\ events' = Append(events, "error")
         /\ pc' = "failed"
         /\ UNCHANGED turn

(* Mutant of StreamIsRetried: whatever was shown before.                   *)
StreamIsAlwaysRetried ==
    /\ pc = "model" /\ call.streaming
    /\ MaxRetries > 0
    /\ call' = [call EXCEPT !.n = @ + 1, !.streaming = FALSE, !.attempt = 1]
    /\ UNCHANGED <<pc, turn, events, memory>>

(* _stream_*_with_recovery: a stream that has shown nothing may be tried   *)
(* again as a buffered call, which starts at the second attempt.           *)
StreamIsRetried ==
    /\ pc = "model" /\ call.streaming
    /\ call.pieces = 0 /\ MaxRetries > 0
    /\ call' = [call EXCEPT !.n = @ + 1, !.streaming = FALSE, !.attempt = 1]
    /\ UNCHANGED <<pc, turn, events, memory>>

(* Not retryable, or too late to retry.  The general answer that stands in *)
(* for a failed retrieval has its own except branch.                       *)
StreamRaises ==
    /\ pc = "model" /\ call.streaming
    /\ CASE turn.handler = "rag" -> pc' = "settle" /\ UNCHANGED <<turn, events>>
         [] turn.handler = "continue" -> pc' = "failed" /\ UNCHANGED <<turn, events>>
         [] OTHER -> Raise
    /\ UNCHANGED <<call, memory>>

(* _invoke_with_retry: a retryable error or a blank response is tried      *)
(* again while attempts are left.                                          *)
InvokeAgain ==
    /\ pc = "model" /\ ~call.streaming
    /\ call.attempt < MaxRetries
    /\ call' = [call EXCEPT !.n = @ + 1, !.attempt = @ + 1]
    /\ UNCHANGED <<pc, turn, events, memory>>

(* It always returns text: the model's, the basic retrieval fallback's or  *)
(* an error response.                                                      *)
InvokeReturns ==
    /\ pc = "model" /\ ~call.streaming
    /\ \E piece \in {Word(call.n), Said("fallback"), Said("failure")} :
          turn' = Hear(turn, piece)
    /\ pc' = "settle"
    /\ UNCHANGED <<call, events, memory>>

(* A stream that ends without a piece is followed by a buffered call where *)
(* the handler makes one; the direct path leaves it to the recovery.       *)
StreamEnds ==
    /\ pc = "model" /\ call.streaming
    /\ IF call.pieces = 0 /\ (turn.handler = "web" \/ (turn.handler = "generic" /\ turn.buffered))
       THEN Calls(FALSE) /\ UNCHANGED pc
       ELSE pc' = "settle" /\ UNCHANGED call
    /\ UNCHANGED <<turn, events, memory>>

-----------------------------------------------------------------------------
(* Handlers.                                                               *)

AtOnce == \/ turn.handler \in {"special", "schedule", "datetime", "assessment", "python"}
          \/ turn.handler = "skill" /\ turn.buffered

(* A text made in one go.  Outside a stream no retrieval trace is open     *)
(* while a skill runs; an assignment that fails says so itself.            *)
Reply ==
    /\ pc = "handle" /\ AtOnce
    /\ \E text \in {<<Said("reply")>>, <<>>}, looksUp \in BOOLEAN :
          turn' = [turn EXCEPT !.out = text,
                     !.attempted = looksUp /\ turn.handler = "skill" /\ turn.stream]
    /\ pc' = "finalize"
    /\ UNCHANGED <<call, events, memory>>

ReplyFails ==
    /\ pc = "handle" /\ AtOnce
    /\ turn' = [turn EXCEPT !.degraded = TRUE, !.fellBack = TRUE,
                  !.out = IF turn.handler = "assessment" THEN <<Said("failure")>> ELSE <<>>]
    /\ pc' = "finalize"
    /\ UNCHANGED <<call, events, memory>>

(* Direct model and tool agent; the tools of the allowlist may retrieve.   *)
Generic ==
    /\ pc = "handle" /\ turn.handler = "generic"
    /\ \E looksUp \in BOOLEAN :
          turn' = [turn EXCEPT !.attempted = looksUp /\ turn.route.mode = "tools",
                               !.used = looksUp /\ turn.route.mode = "tools"]
    /\ Calls(turn.stream)
    /\ pc' = "model"
    /\ UNCHANGED <<events, memory>>

(* SkillRouteHandler.stream_execute for a personalized explanation.        *)
Explain ==
    /\ pc = "handle" /\ turn.handler = "skill" /\ ~turn.buffered
    /\ Calls(TRUE)
    /\ pc' = "explain"
    /\ UNCHANGED <<turn, events, memory>>

ExplainEnds ==
    /\ pc = "explain"
    /\ \/ pc' = "settle" /\ UNCHANGED <<turn, events>>
       \/ Raise
    /\ UNCHANGED <<call, memory>>

(* _iter_grounded_rag_response                                             *)
Retrieve ==
    /\ pc = "handle" /\ turn.handler = "rag"
    /\ \/ /\ \E corrected \in BOOLEAN :
                LET t == [turn EXCEPT !.attempted = TRUE, !.used = TRUE]
                IN  turn' = IF corrected THEN Hear(t, Said("notice")) ELSE t
          /\ Calls(TRUE)
          /\ pc' = "answer"
       \/ /\ turn' = Hear([turn EXCEPT !.attempted = TRUE], Said("notice"))
          /\ pc' = "settle"
          /\ UNCHANGED call
    /\ Announce(turn)
    /\ UNCHANGED memory

(* Mutant of RetrieveFails: the event does not say that it is degraded.    *)
RetrieveFailsQuietly ==
    /\ pc = "handle" /\ turn.handler = "rag"
    /\ \/ /\ turn' = Hear([turn EXCEPT !.attempted = TRUE, !.fellBack = TRUE],
                          Said("notice"))
          /\ Calls(TRUE)
          /\ pc' = "model"
       \/ /\ turn' = Hear([turn EXCEPT !.attempted = TRUE, !.fellBack = TRUE],
                          Said("failure"))
          /\ pc' = "settle"
          /\ UNCHANGED call
    /\ Announce(turn)
    /\ UNCHANGED memory

(* Retrieval raised: a general answer, announced as such, or an apology.   *)
RetrieveFails ==
    /\ pc = "handle" /\ turn.handler = "rag"
    /\ LET t == [turn EXCEPT !.attempted = TRUE, !.degraded = TRUE, !.fellBack = TRUE]
       IN  \/ /\ turn' = Hear(t, Said("notice"))
              /\ Calls(TRUE)
              /\ pc' = "model"
           \/ /\ turn' = Hear(t, Said("failure"))
              /\ pc' = "settle"
              /\ UNCHANGED call
    /\ Announce(turn)
    /\ UNCHANGED memory

(* stream_answer_with_context, or answer_with_context if it gave nothing.  *)
AnswerEnds ==
    /\ pc = "answer"
    /\ IF call.pieces = 0
       THEN /\ \E piece \in {Word(call.n + 1), Blank} : turn' = Hear(turn, piece)
            /\ Calls(FALSE)
       ELSE UNCHANGED <<turn, call>>
    /\ pc' = "settle"
    /\ UNCHANGED <<events, memory>>

(* Either call raised: excerpts follow whatever was already said.          *)
AnswerFails ==
    /\ pc = "answer"
    /\ turn' = Hear([turn EXCEPT !.degraded = TRUE, !.fellBack = TRUE], Said("excerpt"))
    /\ Announce(turn)
    /\ pc' = "settle"
    /\ UNCHANGED <<call, memory>>

(* WebResearchPipeline: no results, which only the buffered path calls     *)
(* degraded; or evidence for the model.  It asks the scope guard again,    *)
(* about the same text with the switch on, and cannot be refused there.    *)
Research ==
    /\ pc = "handle" /\ turn.handler = "web"
    /\ \/ /\ turn' = Hear([turn EXCEPT !.attempted = TRUE, !.fellBack = TRUE,
                                       !.degraded = ~turn.stream], Said("failure"))
          /\ pc' = "settle"
          /\ UNCHANGED call
       \/ /\ turn' = [turn EXCEPT !.attempted = TRUE, !.used = TRUE]
          /\ Calls(turn.stream)
          /\ pc' = "model"
    /\ UNCHANGED <<events, memory>>

-----------------------------------------------------------------------------
(* finalize_route_result.  RetrievalGuardHook forces retrieval only where  *)
(* a tool agent is required to retrieve, which no policy does.             *)
MayGround == turn.route.learning /\ (turn.route.mode = "grounded" \/ turn.route.required)

Finalized(t) ==
    IF ~IsBlank(t.out) THEN {[t EXCEPT !.final = t.out]}
    ELSE LET failed == [t EXCEPT !.degraded = TRUE, !.fellBack = TRUE,
                                 !.final = <<Said("failure")>>]
         IN  IF ~MayGround THEN {failed}
             ELSE {[failed EXCEPT !.attempted = TRUE],
                   [failed EXCEPT !.attempted = TRUE, !.used = TRUE,
                                  !.final = <<Said("excerpt")>>]}

(* A buffered text is shown once it is final.                              *)
Finalize ==
    /\ pc = "finalize"
    /\ \E t \in Finalized(turn) : turn' = [t EXCEPT !.shown = t.final]
    /\ pc' = "finish"
    /\ UNCHANGED <<call, events, memory>>

(* Mutant of Settle: output that is blank is what the turn answers.        *)
SettleForBlanks ==
    /\ pc = "settle"
    /\ IF turn.buffered
       THEN pc' = "finalize" /\ UNCHANGED turn
       ELSE turn' = [turn EXCEPT !.final = turn.out] /\ pc' = "finish"
    /\ UNCHANGED <<call, events, memory>>

(* The end of a handler: blank output is recovered by the finalizer, text  *)
(* that was streamed stands as it is.  Only the personalized explanation   *)
(* reports its own text.                                                   *)
Settle ==
    /\ pc = "settle" /\ turn.handler # "continue"
    /\ IF turn.buffered
       THEN pc' = "finalize" /\ UNCHANGED turn
       ELSE /\ IF IsBlank(turn.out)
               THEN \E t \in Finalized(turn) : turn' = [t EXCEPT !.shown = t.final]
               ELSE turn' = [turn EXCEPT !.final =
                                IF turn.handler = "skill" THEN turn.out ELSE turn.shown]
            /\ pc' = "finish"
    /\ UNCHANGED <<call, events, memory>>

(* A retrieval nobody has announced is announced before the end.           *)
AnnounceLate ==
    /\ pc = "finish"
    /\ events' = IF turn.stream /\ turn.attempted /\ ~Contains(events, "retrievalEnd")
                 THEN Append(events, "retrievalEnd") ELSE events
    /\ pc' = "remember"
    /\ UNCHANGED <<turn, call, memory>>

(* The answer goes to the history, then the facts it teaches, then the     *)
(* practice it calls for; each of the last two may fail and is then left   *)
(* out.                                                                    *)
Remember ==
    /\ pc = "remember"
    /\ \E eligible, scheduled \in BOOLEAN :
          memory' = [memory EXCEPT
                       !.answer = turn.final,
                       !.facts = eligible /\ turn.route.records /\ ~turn.degraded
                                 /\ ~IsBlank(turn.final),
                       !.practice = scheduled /\ turn.route.records /\ ~turn.degraded
                                 /\ (turn.route.mode = "grounded" => turn.used)]
    /\ events' = Append(events, "end")
    /\ pc' = "done"
    /\ UNCHANGED <<turn, call>>

(* The history cannot be written: add_messages raises, after the student   *)
(* has seen the whole answer.                                              *)
RememberFails ==
    /\ pc = "remember"
    /\ pc' = "failed"
    /\ UNCHANGED <<turn, call, events, memory>>

-----------------------------------------------------------------------------
(* api/core_bridge.                                                        *)

(* stream_continue_with_history: one direct call over the history and the  *)
(* text a stopped answer had reached; nothing is routed or remembered.     *)
Continue ==
    /\ pc = "start"
    /\ turn' = [turn EXCEPT !.handler = "continue", !.stream = TRUE]
    /\ Calls(TRUE)
    /\ pc' = "model"
    /\ UNCHANGED <<events, memory>>

ContinueEnds ==
    /\ pc = "settle" /\ turn.handler = "continue"
    /\ pc' = "continued"
    /\ UNCHANGED <<turn, call, events, memory>>

(* What a turn event is to the API: turn_event_payload.                    *)
Payload(event) ==
    CASE event = "end" -> "done"
      [] event = "error" -> "error"
      [] OTHER -> "progress"

(* Mutant of Told: what was streamed before an error is not repeated.      *)
ToldOfResults ==
    IF turn.handler = "continue" THEN <<Said("partial")>> \o turn.shown
    ELSE IF turn.final # <<>> THEN turn.final
    ELSE <<Said("failure")>>

(* The content of the final event: the result's, or else what was          *)
(* streamed; for an error before the first word, a text that says so.  A   *)
(* continuation repeats the part it continues.                             *)
Told ==
    IF turn.handler = "continue" THEN <<Said("partial")>> \o turn.shown
    ELSE IF \E e \in ToSet(events) : Payload(e) = "done"
    THEN IF turn.final = <<>> THEN turn.shown ELSE turn.final
    ELSE IF turn.shown # <<>> THEN turn.shown
    ELSE <<Said("failure")>>

(* The final event of a stream; it is sent after an error too.             *)
Report ==
    /\ pc \in {"done", "failed", "continued"} /\ turn.stream /\ memory.told = <<>>
    /\ memory' = [memory EXCEPT !.told = Told, !.error = (pc = "failed")]
    /\ UNCHANGED <<pc, turn, call, events>>

(* chat_with_history returns the result's content; a failure is raised.    *)
Return ==
    /\ pc = "done" /\ ~turn.stream /\ memory.told = <<>>
    /\ memory' = [memory EXCEPT !.told = turn.final]
    /\ UNCHANGED <<pc, turn, call, events>>

(* The consumer stops asking for events: nothing after the yield runs.     *)
Abandon ==
    /\ turn.stream /\ pc \notin {"start", "done", "failed", "continued", "abandoned"}
    /\ pc' = "abandoned"
    /\ UNCHANGED <<turn, call, events, memory>>

Over == pc \in {"done", "failed", "continued", "abandoned"} /\ UNCHANGED vars

Next ==
    \/ Prepare \/ PrepareFails
    \/ StreamPiece \/ StreamIsRetried \/ StreamRaises \/ InvokeAgain \/ InvokeReturns
    \/ StreamEnds
    \/ Reply \/ ReplyFails \/ Generic \/ Explain \/ ExplainEnds
    \/ Retrieve \/ RetrieveFails \/ AnswerEnds \/ AnswerFails \/ Research
    \/ Finalize \/ Settle \/ AnnounceLate \/ Remember \/ RememberFails
    \/ Continue \/ ContinueEnds \/ Report \/ Return
    \/ Abandon \/ Over

Spec == Init /\ [][Next]_vars

-----------------------------------------------------------------------------

(* Up to and including the last word.                                      *)
Trimmed(text) ==
    [i \in {i \in DOMAIN text : \E j \in DOMAIN text : i <= j /\ text[j] # Blank} |-> text[i]]

(* What the student has read is what the history keeps and what            *)
(* TurnEndEvent reports, whichever handler spoke and whatever had to be    *)
(* recovered; and it is never empty.                                       *)
ShownIsRemembered ==
    pc = "done" => /\ Trimmed(turn.shown) = Trimmed(memory.answer)
                   /\ ~IsBlank(memory.answer)
                   /\ Last(events) = "end"
                   /\ (turn.stream /\ turn.attempted) => Contains(events, "retrievalEnd")

(* A model call that was retried or replaced has left no words behind: all *)
(* the words of an answer come from one call.                              *)
OneCallSpeaks ==
    \A i, j \in DOMAIN turn.shown :
       turn.shown[i].kind = "word" /\ turn.shown[j].kind = "word"
       => turn.shown[i].call = turn.shown[j].call

(* An answer that is a stand-in, an excerpt, a general answer or an        *)
(* apology, teaches nothing and calls for no practice, and an abandoned or *)
(* failed turn leaves nothing at all.                                      *)
OnlyAnswersTeach ==
    memory.facts \/ memory.practice => pc = "done" /\ ~turn.fellBack

(* The final event replaces the text on the screen: it takes back nothing  *)
(* that was shown, even when the model, or the write of the history, fails *)
(* in the middle, and is never blank.                                      *)
ReportIsWhole ==
    /\ memory.told # <<>> => ~IsBlank(memory.told)
    /\ memory.told # <<>> /\ turn.shown # <<>> =>
         Trimmed(memory.told) \in
            {Trimmed(turn.shown), Trimmed(<<Said("partial")>> \o turn.shown)}
    /\ memory.error => memory.answer = <<>>
    /\ \A i \in DOMAIN events :
          Payload(events[i]) # "progress" => i = Len(events)

(* What is unsafe or a commercial service reaches no model and no search,  *)
(* whatever the course covers; the web switch makes no search engine of    *)
(* the assistant, and a question of the course asked with it is searched   *)
(* for and not taken for smalltalk or homework, unless it is one that a    *)
(* clock, the schedule or an exercise answers.                             *)
ScopeIsKept ==
    LET signs == turn.asked.signs
        refused == turn.handler = "special" /\ call = NoCall /\ ~turn.attempted
        lesson == signs \cap {"topic", "task"} # {}
        service == signs \cap {"unsafe", "quote", "decide"} # {}
        simple == turn.asked.cues \cap {"datetime", "assessment", "schedule"} # {}
    IN  turn.handler \notin {"none", "continue"} =>
          /\ service => refused
          /\ turn.asked.web /\ ~lesson /\ signs \cap {"offTopic", "fact"} # {} => refused
          /\ turn.asked.web /\ lesson /\ ~service /\ ~simple
             /\ signs \cap {"invest", "smalltalk"} = {} => turn.handler = "web"

(* A turn has one truth: what the student saw is what the memory keeps and *)
(* the final event repeats, one call spoke all of it, only a real answer   *)
(* teaches, and what is out of scope is not answered at all.               *)
TurnsTeachWhatTheyShow ==
    ShownIsRemembered /\ OneCallSpeaks /\ OnlyAnswersTeach /\ ReportIsWhole /\ ScopeIsKept

=============================================================================
