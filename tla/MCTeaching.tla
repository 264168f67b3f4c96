----------------------------- MODULE MCTeaching -----------------------------
(***************************************************************************)
(* Each part of Teaching on a small instance.                              *)
(***************************************************************************)
EXTENDS Teaching, TLC

\* Questions without a sign of the scope guard, and some it has to look at.
Plain(cues) == [cues |-> cues, signs |-> {}, web |-> FALSE]
Guarded(signs, web) == [cues |-> {"shortTerm"}, signs |-> signs, web |-> web]
MCTurnQuestions ==
    {Plain(cues) : cues \in
       {{"datetime"}, {"assessment"}, {"schedule"}, {"review"}, {"execution"},
        {"codeLearning", "textbook"}, {"codeLearning", "payload"}, {"shortTerm"},
        {"misconception"}, {"path"}, {"personal"}, {"question"}, {"textbook"}, {}}}
    \cup {Guarded(signs, FALSE) : signs \in
       {{"smalltalk"}, {"homework", "task"}, {"unsafe", "topic"}, {"quote", "topic"},
        {"decide", "risk", "topic"}, {"invest", "risk", "direct"}, {"offTopic"},
        {"invest", "risk", "task"}, {"fact"}}}
    \cup {Guarded(signs, TRUE) : signs \in
       {{}, {"polite", "homework", "task"}, {"quote", "topic"}, {"offTopic", "task"},
        {"offTopic"}, {"fact"}}}

\* Sizes of the messages of a session, the oldest first.
MCHistories == {<<5, 3>>, <<4, 1, 3>>, <<1, 1, 4, 1, 1>>, <<5, 1, 5, 4, 1, 2>>}

\* Search results: two of one site (a, d), one that is read last (b), one skipped (s),
\* one without content (e), redirects (a, c) and a redirect to itself (l).
Addresses == {"a", "b", "c", "d", "e", "s", "l"}

MCAnswers == {<<"a", "b", "c">>, <<"a", "a", "d", "b", "e">>, <<"s", "a">>, <<"s">>,
              <<"l", "b", "e">>}

MCDomain == [u \in Addresses |-> IF u = "d" THEN "a" ELSE u]

MCRank == [u \in Addresses |-> IF u = "b" THEN 30 ELSE 0]

MCLeads == [u \in Addresses |-> CASE u = "a" -> "b" [] u = "e" -> None [] u = "c" -> "a" [] OTHER -> u]

\* A concept (g), one whose name contains the other's (s), and a third (o).
MCCourses == {"ds"}

MCConcepts == [ds |-> [g |-> <<"k">>, s |-> <<"v", "k">>, o |-> <<"o">>]]

Alias(text, concept, emits) == [text |-> text, concept |-> concept, emits |-> emits]

MCAliases == [ds |-> <<Alias(<<"k">>, "g", TRUE), Alias(<<"v", "k">>, "s", TRUE),
                     Alias(<<"v">>, "s", FALSE), Alias(<<"o">>, "o", TRUE)>>]

Similar(concept, score) == [concept |-> concept, score |-> score]

MCQuestions ==
    {[text |-> <<"w", "v", "k">>, rules |-> [ds |-> <<>>],
      similar |-> [ds |-> <<Similar("o", 99), Similar("g", 98)>>]],
     [text |-> <<"w", "v">>, rules |-> [ds |-> <<>>],
      similar |-> [ds |-> <<Similar("s", 99), Similar("o", 90), Similar("g", 85)>>]]}

\* Characters a program prints to its two streams.
MCOutputs == {<<0, 0>>, <<6, 6>>, <<7, 8>>}

\* Callers stands for the other sets of two of its elements.
Symmetry == Permutations(Callers) \cup Permutations(Targets)
=============================================================================
