--------------------------- MODULE ConceptMapping ---------------------------
(***************************************************************************)
(* teaching/knowledge_mapper.py: the concepts of a course that a question  *)
(* is about, by the aliases it holds, by rules, and where these do not     *)
(* suffice by the similarity of its embedding, remembered per course       *)
(* graph.  Retrieval (retrieval/service.py) asks the same embedding        *)
(* service.  A text is a sequence of words, and an answer the set of its   *)
(* matches: their scores and places are the order of the code's list.      *)
(***************************************************************************)
EXTENDS EmbeddingCircuit, FiniteSetsExt

CONSTANTS Courses,
          Concepts,        \* of each course: [concept |-> display name]
          Aliases,         \* of each course: a sequence of [text, concept, emits]
          Questions,       \* each [text, rules, similar]: the concepts whose rule it
                           \* meets and, in order, those it resembles, of each course
          TopK,            \* the values of top_k
          MinRules,        \* CONCEPT_MAP_MIN_RULE_MATCHES_TO_SKIP
          AnswersKept,     \* QUERY_CACHE_SIZE
          Masked

VARIABLES settings,        \* whether rule matches make embedding unnecessary
          requests,        \* what each caller's embedding is for
          answers,         \* _map_question_to_concepts_cached, the least recent first
          unlucky          \* ghost: the keys whose embedding once failed

vars == <<cvars, settings, requests, answers, unlucky>>

Places(part, text) ==
    {from \in 1 .. Len(text) - Len(part) + 1 : SubSeq(text, from, from + Len(part) - 1) = part}

Occurs(part, text) == Places(part, text) # {}

-----------------------------------------------------------------------------
(* match_question_rules                                                    *)

(* _score_alias_match: the whole question, or a part of it, the more the   *)
(* longer; some aliases count only with others.                            *)
Score(alias, course, text) ==
    IF alias.text = text
    THEN IF alias.emits \/ alias.text = Concepts[course][alias.concept] THEN 100 ELSE 0
    ELSE IF alias.emits /\ Occurs(alias.text, text) THEN 70 + Len(alias.text) ELSE 0

(* The aliases that score at all, each with its place in the graph.        *)
Scoring(course, text) ==
    {a \in {[concept |-> Aliases[course][i].concept, alias |-> Aliases[course][i].text,
             score |-> Score(Aliases[course][i], course, text), at |-> i] : i \in DOMAIN Aliases[course]} :
        a.score > 0}

(* A concept's place is that of its first alias that scores; it is scored  *)
(* by its best, the first of equals.                                       *)
Candidates(course, text) ==
    LET found == Scoring(course, text)
        mine == [a \in found |-> {b \in found : b.concept = a.concept}]
        best == {a \in found : \A b \in mine[a] :
                    b.score < a.score \/ (b.score = a.score /\ a.at <= b.at)}
    IN  {[a EXCEPT !.at = Min({b.at : b \in mine[a]})] : a \in best}

Blotted(text, parts) ==
    [i \in DOMAIN text |->
        IF \E part \in parts : \E from \in Places(part, text) : i \in from .. from + Len(part) - 1
        THEN Masked ELSE text[i]]

(* The aliases of matched subtypes of a candidate that hold its own.       *)
SubtypeAliases(course, candidate, others) ==
    {other.alias : other \in
        {o \in others : /\ o.concept # candidate.concept /\ o.alias # candidate.alias
                      /\ Occurs(candidate.alias, o.alias)
                      /\ Occurs(Concepts[course][candidate.concept], Concepts[course][o.concept])}}

(* Nothing of the alias is left once theirs are taken out, the longest     *)
(* first (of equal ones the code's order is that of a set).                *)
Shadowed(course, candidate, others, text) ==
    LET subtypes == SubtypeAliases(course, candidate, others)
        residual[n \in 0 .. Len(text)] ==
            IF n = 0 THEN text
            ELSE Blotted(residual[n - 1], {part \in subtypes : Len(part) = Len(text) + 1 - n})
    IN  subtypes # {} /\ ~Occurs(candidate.alias, residual[Len(text)])

(* _suppress_shadowed_aliases: one candidate after the other, among those  *)
(* that are left.                                                          *)
Unshadowed(course, text) ==
    LET left[n \in 0 .. Len(Aliases[course])] ==
            IF n = 0 THEN Candidates(course, text)
            ELSE {c \in left[n - 1] : c.at # n \/ ~Shadowed(course, c, left[n - 1], text)}
    IN  left[Len(Aliases[course])]

Match(concept, method, score, place) ==
    [concept |-> concept, method |-> method, score |-> score, place |-> place]

RuleMatches(course, question) ==
    LET byAlias == {Match(c.concept, "exact_alias", c.score, <<1, c.at>>) :
                        c \in Unshadowed(course, question.text)}
        named == {m.concept : m \in byAlias}
        met == question.rules[course]
    IN  byAlias \cup {Match(met[n], "regex_rule", 95, <<2, n>>) :
                        n \in {i \in DOMAIN met : met[i] \notin named}}

(* The rules depend on nothing but the graph.                              *)
ByRules == [course \in Courses |-> [question \in Questions |-> RuleMatches(course, question)]]

-----------------------------------------------------------------------------
(* map_question                                                            *)

(* Matches are sorted by their scores, equal ones by layer and place.      *)
Before(a, b) ==
    \/ a.score > b.score
    \/ /\ a.score = b.score
       /\ a.place[1] < b.place[1] \/ (a.place[1] = b.place[1] /\ a.place[2] < b.place[2])

Top(k, matches) == {m \in matches : Cardinality({o \in matches : Before(o, m)}) < k}

SkipsEmbedding(course, question, k) ==
    LET found == Cardinality(ByRules[course][question])
    IN  (settings.skip /\ found >= MinRules) \/ found >= k

(* The concepts most similar that no rule names, as many as there is room. *)
Alike(key, room) ==
    LET named == {m.concept : m \in ByRules[key.course][key.question]}
        similar == key.question.similar[key.course]
        others == {n \in DOMAIN similar : similar[n].concept \notin named}
    IN  {Match(similar[n].concept, "embedding", similar[n].score, <<3, n>>) :
            n \in {i \in others : Cardinality({j \in others : j < i}) < room}}

(* Mutant of Mapped: the similar ones fill up to top_k by themselves.      *)
MappedAmongAll(key, embedded) ==
    Top(key.k, ByRules[key.course][key.question] \cup (IF embedded THEN Alike(key, key.k) ELSE {}))

(* What a question maps to, with or without its embedding: the similar     *)
(* ones fill the room that the rules leave.                                *)
Mapped(key, embedded) ==
    LET matches == ByRules[key.course][key.question]
        added == IF embedded THEN Alike(key, key.k - Cardinality(matches)) ELSE {}
    IN  Top(key.k, matches \cup added)

(* The cache key holds the graph's contents, the settings and the model.   *)
Key(course, question, k) == [course |-> course, question |-> question, k |-> k]
Remembered(key) == {answers[n] : n \in {m \in DOMAIN answers : answers[m].key = key}}

Remember(key, matches) ==
    answers' = Kept(answers, [key |-> key, matches |-> matches], AnswersKept)

(* A second answer for a key that another caller has just put there takes  *)
(* its place only if it is gone (functools.lru_cache).                     *)
RememberNew(key, matches) ==
    IF Remembered(key) # {} THEN UNCHANGED answers ELSE Remember(key, matches)

NoRequest == [kind |-> "none"]

Init ==
    /\ InitCircuit
    /\ settings \in {[skip |-> skip] : skip \in BOOLEAN}
    /\ requests = [c \in Callers |-> NoRequest]
    /\ answers = <<>> /\ unlucky = {}

(* map_question_to_concepts: from the cache, or by rules alone, or with an *)
(* embedding that only observes the breaker.                               *)
MapQuestion(c, course, question, k) ==
    LET key == Key(course, question, k)
    IN  /\ calls[c].at = "idle"
        /\ IF Remembered(key) # {} \/ SkipsEmbedding(course, question, k)
           THEN /\ Remember(key, IF Remembered(key) # {} THEN (CHOOSE a \in Remembered(key) : TRUE).matches
                                 ELSE Mapped(key, FALSE))
                /\ UNCHANGED <<cvars, requests>>
           ELSE /\ Ask(c, FALSE, <<course, question.text>>)
                /\ requests' = [requests EXCEPT ![c] = [kind |-> "map", key |-> key]]
                /\ UNCHANGED answers
    /\ UNCHANGED <<settings, unlucky>>

FinishMap(c) ==
    /\ requests[c].kind = "map" /\ calls[c].at \in {"vector", "none"}
    /\ LET embedded == calls[c].at = "vector"
       IN  /\ RememberNew(requests[c].key, Mapped(requests[c].key, embedded))
           /\ unlucky' = IF embedded THEN unlucky ELSE unlucky \union {requests[c].key}
    /\ calls' = [calls EXCEPT ![c] = Quiet]
    /\ requests' = [requests EXCEPT ![c] = NoRequest]
    /\ UNCHANGED <<circuit, vectors, clock, ended, settings>>

(* RAGService.retrieve, of a question that is not of a short term: by its  *)
(* embedding, and otherwise by words (what it finds is in CorpusReaders).  *)
Retrieve(c, question) ==
    /\ Ask(c, TRUE, <<"retrieval", question.text>>)
    /\ requests' = [requests EXCEPT ![c] = [kind |-> "retrieve"]]
    /\ UNCHANGED <<settings, answers, unlucky>>

FinishRetrieve(c) ==
    /\ requests[c].kind = "retrieve" /\ calls[c].at \in {"vector", "none"}
    /\ calls' = [calls EXCEPT ![c] = Quiet]
    /\ requests' = [requests EXCEPT ![c] = NoRequest]
    /\ UNCHANGED <<circuit, vectors, clock, ended, settings, answers, unlucky>>

Embedding(c) == Step(c) /\ UNCHANGED <<settings, requests, answers, unlucky>>
Time == Tick /\ UNCHANGED <<settings, requests, answers, unlucky>>

Next ==
    \/ \E c \in Callers :
          \/ \E course \in Courses, question \in Questions, k \in TopK : MapQuestion(c, course, question, k)
          \/ \E question \in Questions : Retrieve(c, question)
          \/ FinishMap(c) \/ FinishRetrieve(c) \/ Embedding(c)
    \/ Time

Spec == Init /\ [][Next]_vars

-----------------------------------------------------------------------------

(* The concepts that are really named: an alias that counts stands in the  *)
(* question where no alias of a more special concept covers it, whichever  *)
(* order the candidates are looked at.                                     *)
NamedAlone == [course \in Courses |-> [question \in Questions |->
    LET all == Candidates(course, question.text)
    IN  {c.concept : c \in {d \in all : ~Shadowed(course, d, all, question.text)}}]]

(* An answer is of the course it was asked for; it names every concept the *)
(* question names by itself before any that is only similar, and a similar *)
(* one only where the rules leave room; similar ones are missing only      *)
(* where the rules were enough or an embedding failed: such an answer is   *)
(* remembered although the service may long be back.                       *)
AnswersAreFaithful ==
    \A n \in DOMAIN answers :
        LET key == answers[n].key
            matches == answers[n].matches
            names == {m.concept : m \in matches}
            named == {concept \in DOMAIN Concepts[key.course] :
                        \/ concept \in NamedAlone[key.course][key.question]
                        \/ Contains(key.question.rules[key.course], concept)}
            alike == {s.concept : s \in ToSet(key.question.similar[key.course])}
        IN  /\ names \subseteq DOMAIN Concepts[key.course]
            /\ Cardinality(matches) <= key.k /\ Cardinality(names) = Cardinality(matches)
            /\ IF Cardinality(named) >= key.k THEN names \subseteq named ELSE named \subseteq names
            /\ names \ named \subseteq alike
            /\ names # named /\ Cardinality(named) < key.k
                  => ~(settings.skip /\ Cardinality(named) >= MinRules)
            /\ (~alike \subseteq names /\ Cardinality(matches) < key.k) =>
                  (settings.skip /\ Cardinality(named) >= MinRules) \/ key \in unlucky

(* Embedding outages stay contained: the breaker opens on failures in a    *)
(* row only, and whatever it does, an answer says what the question and    *)
(* the course make of it.                                                  *)
MappingIsFaithful == BreakerIsEarned /\ AnswersAreFaithful

=============================================================================
