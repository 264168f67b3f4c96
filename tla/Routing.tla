------------------------------ MODULE Routing ------------------------------
(***************************************************************************)
(* Which way a student's turn takes: agent/routing, behind                 *)
(* agent/scope_guard.  A query is the set of cues its text gives; the rule *)
(* table is tried in the order of priority, and what no rule takes is      *)
(* classified by the semantic router.  What the scope guard looks for are  *)
(* signs:                                                                  *)
(*   smalltalk, polite  nothing but a greeting or thanks; begins with one  *)
(*   homework           asks to have the homework done                     *)
(*   unsafe             privacy, cheating, getting round the platform      *)
(*   quote, invest, decide, risk, direct                                   *)
(*                      a live price; a recommendation; "should I buy";    *)
(*                      a lesson about the risk; asked for right here      *)
(*   topic, task        the course covers it; learning or data analysis    *)
(*   offTopic, fact     politics, stars, weather, ...; "who is", "how old" *)
(***************************************************************************)
EXTENDS Sequences, SequencesExt

(* A lesson about investment risk is a lesson, unless a recommendation is  *)
(* asked for with it.                                                      *)
Commercial(signs) ==
    \/ signs \cap {"quote", "decide"} # {}
    \/ "invest" \in signs /\ ("risk" \notin signs \/ "direct" \in signs)

(* Mutant of InScope: what the course covers is allowed at once.           *)
InScopeByTopic(signs, web) ==
    \/ signs \cap {"topic", "task"} # {}
    \/ /\ signs \cap {"smalltalk", "unsafe", "offTopic"} = {}
       /\ ~Commercial(signs) /\ ~(web /\ "fact" \in signs)

(* assess_query_scope(...).allowed                                         *)
InScope(signs, web) ==
    /\ signs \cap {"smalltalk", "unsafe"} = {}
    /\ ~Commercial(signs)
    /\ \/ signs \cap {"topic", "task"} # {}
       \/ "offTopic" \notin signs /\ ~(web /\ "fact" \in signs)

(* special_case_response, which the web switch turns off.                  *)
SpecialCase(signs) == signs \cap {"smalltalk", "polite", "homework"} # {}

(* The rules read a response that is already there, and the web switch.    *)
CuesOf(question) ==
    question.cues
    \cup (IF \/ ~InScope(question.signs, question.web)
             \/ ~question.web /\ SpecialCase(question.signs)
          THEN {"boundary"} ELSE {})
    \cup (IF question.web THEN {"web"} ELSE {})

(* build_route_rules, by priority.                                         *)
Rules == <<"boundary", "datetime", "assessment", "schedule", "web", "review",
           "execution", "codeLearning", "shortTerm", "misconception", "path",
           "personal", "grounded">>

(* What the semantic router can say.  "unavailable" stands for every way   *)
(* its transports fail: each is tried in turn, one that timed out is left  *)
(* alone for a while, and a malformed answer counts as none.               *)
Learning == {"concept", "example", "explanation", "review", "execution", "path",
             "misconception", "personal", "open"}
Classified == Learning \cup {"notLearning", "unclear", "unavailable"}

(* A classification is worth nothing below ROUTER_MIN_CONFIDENCE, and none *)
(* makes code run that the student did not ask to run.                     *)
Semantic(cues, said) ==
    CASE said = "notLearning" -> "refusal"
      [] said = "unclear" -> "clarify"
      [] said = "unavailable" -> IF "question" \in cues THEN "concept" ELSE "clarify"
      [] said = "execution" /\ "execution" \notin cues -> "clarify"
      [] OTHER -> said

IntentOf(rule, cues) ==
    CASE rule = "boundary" -> "refusal"
      [] rule = "codeLearning" -> IF "payload" \in cues THEN "explanation" ELSE "example"
      [] rule \in {"shortTerm", "grounded"} -> "concept"
      [] OTHER -> rule

Intent(cues, said) ==
    LET taken == {i \in DOMAIN Rules : Rules[i] \in cues}
    IN  IF taken = {} THEN Semantic(cues, said) ELSE IntentOf(Rules[Min(taken)], cues)

(* _LEARNING_POLICIES and the rules' own decisions, which agree.           *)
Mode(intent) ==
    CASE intent \in {"refusal", "clarify"} -> "static"
      [] intent \in {"datetime", "schedule", "assessment"} -> "deterministic"
      [] intent = "web" -> "web"
      [] intent = "execution" -> "sandbox"
      [] intent \in {"review", "path", "misconception", "personal"} -> "skill"
      [] intent = "concept" -> "grounded"
      [] intent \in {"example", "explanation"} -> "direct"
      [] intent = "open" -> "tools"

(* "required" decides whether the finalizer may ground an empty answer.    *)
RetrievalRequired(intent) == intent \in {"concept", "misconception", "personal", "web"}

RecordsEvents(intent) ==
    intent \in Learning \ {"path", "misconception"}

(* A textbook asked for by name turns a classified code question into a    *)
(* grounded one (build_learning_decision).                                 *)
Decide(cues, said) ==
    LET intent == Intent(cues, said)
        ground == /\ "textbook" \in cues
                  /\ intent \in {"example", "explanation"}
                  /\ "codeLearning" \notin cues
    IN  [intent   |-> intent,
         mode     |-> IF ground THEN "grounded" ELSE Mode(intent),
         required |-> ground \/ RetrievalRequired(intent),
         learning |-> intent \in Learning \cup {"assessment"},
         records  |-> RecordsEvents(intent),
         static   |-> intent \in {"refusal", "clarify"}]

(* The first handler of default_route_handlers that can handle it.         *)
HandlerOf(decision) ==
    CASE decision.static -> "special"
      [] decision.intent \in {"schedule", "datetime", "assessment"} -> decision.intent
      [] decision.mode = "grounded" -> "rag"
      [] decision.intent = "web" -> "web"
      [] decision.mode = "sandbox" -> "python"
      [] decision.mode = "skill" -> "skill"
      [] OTHER -> "generic"

=============================================================================
