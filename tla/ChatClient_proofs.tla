-------------------------- MODULE ChatClient_proofs --------------------------
(***************************************************************************)
(* Every connection is sent the log, and what the tab shows is the answer, *)
(* for any number of reconnections and any length of the answer.           *)
(***************************************************************************)
EXTENDS ChatClient, FiniteSetTheorems, SequenceTheorems, TLAPS

(* The log starts with a snapshot of nothing, ends with its final event if *)
(* it has one, and leaves room for it as long as it has none.              *)
LogIsSound ==
    /\ log # <<>> => log[1].kind = "snapshot" /\ log[1].text = <<>>
    /\ \A i \in DOMAIN log : /\ log[i].kind = "snapshot" => i = 1
                             /\ log[i].kind = "final" => i = Len(log)
    /\ Len(log) <= MaxEvents
    /\ ~Terminal => Len(log) < MaxEvents

(* Before the job there is nothing to read.                                *)
NothingBeforeLaunch ==
    /\ phase[Author] \in {"new", "queued"} => log = <<>>
    /\ log = <<>> => ~registered /\ \A c \in Connections : phase[c] \notin Open \cup {"ended"}

Blank(c) == sent[c] = <<>> /\ cursor[c] = 0 /\ upto[c] = 0

(* The cursor is the last event sent; a snapshot that is still polled from *)
(* was taken before the final event.                                       *)
AtCursor(c) ==
    /\ cursor[c] <= upto[c]
    /\ upto[c] <= Len(log)
    /\ sent[c] = <<>> => cursor[c] = 0
    /\ sent[c] # <<>> => LET last == sent[c][Len(sent[c])] IN
                         /\ last.id = cursor[c]
                         /\ last.kind = "snapshot" => log[last.id].kind # "final"

(* The reader has met a finished job.                                      *)
BeforeFinale(c) ==
    /\ Terminal
    /\ Len(sent[c]) = 1
    /\ sent[c][1].kind = "snapshot" /\ sent[c][1].id = Len(log)

Window(c) ==
    \A i \in DOMAIN sent[c] :
        LET e == sent[c][i] IN
        /\ e.id \in DOMAIN log
        /\ e.kind = "snapshot" => i = 1 /\ e.text = TextUpTo(e.id)
        /\ e.kind # "snapshot" =>
              /\ e.kind = log[e.id].kind
              /\ i > 1
              /\ \/ e.id = sent[c][i - 1].id + 1
                 \/ e.kind = "final" /\ sent[c][i - 1].kind = "snapshot"
                                     /\ e.id = sent[c][i - 1].id

Complete(c) ==
    /\ phase[c] = "ended" => /\ sent[c] # <<>>
                             /\ sent[c][Len(sent[c])].kind = "final"
    /\ \A i \in DOMAIN sent[c] : sent[c][i].kind = "final" => i = Len(sent[c])

Reader(c) ==
    /\ phase[c] \in Phases
    /\ cursor[c] \in Nat /\ upto[c] \in Nat
    /\ sent[c] \in Seq(Events)
    /\ phase[c] \notin {"poll", "finale", "ended"} => Blank(c)
    /\ phase[c] = "poll" => AtCursor(c)
    /\ phase[c] = "finale" => BeforeFinale(c)
    /\ Window(c)
    /\ Complete(c)

JobInv == /\ StreamTypeOK
        /\ LogIsSound
        /\ NothingBeforeLaunch
        /\ \A c \in Connections : Reader(c)

(* The invariant holds before anything is posted.                          *)
LEMMA JobStarts == InitStream => JobInv
  <1> SUFFICES ASSUME InitStream PROVE JobInv
    OBVIOUS
  <1> USE EventsAssumption, AuthorAssumption
  <1>1. StreamTypeOK
    <2>1. log \in Seq(Logged)
      BY DEF InitStream
    <2>2. \A c \in Connections : <<>> \in Seq(Events)
      OBVIOUS
    <2>3. QED
      BY <2>1, <2>2 DEF InitStream, StreamTypeOK, Phases
  <1>2. LogIsSound /\ NothingBeforeLaunch
    BY DEF InitStream, LogIsSound, NothingBeforeLaunch, Terminal, Open
  <1>3. ASSUME NEW c \in Connections PROVE Reader(c)
    BY DEF InitStream, Reader, Blank, Window, Complete, Phases
  <1>4. QED
    BY <1>1, <1>2, <1>3 DEF JobInv

-----------------------------------------------------------------------------
(* One more element.                                                       *)
LEMMA OneMore ==
    ASSUME NEW S, NEW s \in Seq(S), NEW e \in S
    PROVE  /\ Append(s, e) \in Seq(S)
           /\ Append(s, e) # <<>>
           /\ Len(Append(s, e)) = Len(s) + 1
           /\ DOMAIN Append(s, e) = DOMAIN s \cup {Len(s) + 1}
           /\ \A i \in DOMAIN s : Append(s, e)[i] = s[i] /\ i <= Len(s) /\ i \in Nat
           /\ Append(s, e)[Len(s) + 1] = e
           /\ Len(s) \in Nat
           /\ s # <<>> => Len(s) \in DOMAIN s
           /\ s = <<>> <=> Len(s) = 0
  <1>1. /\ Append(s, e) \in Seq(S) /\ Len(Append(s, e)) = Len(s) + 1 /\ Len(s) \in Nat
        /\ Append(s, e)[Len(s) + 1] = e
    OBVIOUS
  <1>2. DOMAIN s = 1 .. Len(s) /\ DOMAIN Append(s, e) = 1 .. Len(s) + 1
    BY <1>1
  <1>3. \A i \in DOMAIN s : Append(s, e)[i] = s[i]
    BY <1>2
  <1>4. s = <<>> <=> Len(s) = 0
    OBVIOUS
  <1>5. Append(s, e) # <<>>
    BY <1>1
  <1>6. QED
    BY <1>1, <1>2, <1>3, <1>4, <1>5

(* What a step does to the log.                                            *)

Launched == /\ phase[Author] = "queued"
            /\ log = <<>>
            /\ log' = <<[kind |-> "snapshot", text |-> <<>>]>>

Extended == /\ log # <<>> /\ ~Terminal
            /\ \E e \in Logged :
                  /\ log' = Append(log, e)
                  /\ e.kind # "snapshot"
                  /\ e.kind # "final" => Len(log) + 1 < MaxEvents

(* The log is started, extended while it has no final event, or left alone. *)
LEMMA LogSteps ==
    ASSUME JobInv, [StreamNext]_streamVars
    PROVE  Launched \/ Extended \/ UNCHANGED log
  <1> USE DEF JobInv, StreamTypeOK, Running
  <1>t. log # <<>> => TextUpTo(Len(log)) \in Texts
    <2>1. SUFFICES ASSUME log # <<>> PROVE TextUpTo(Len(log)) \in Texts
      OBVIOUS
    <2>2. Len(log) # 0 /\ log[Len(log)] \in Logged
      BY <2>1
    <2>3. log[Len(log)].text \in Texts
      BY <2>2 DEF Logged
    <2>4. QED
      BY <2>2, <2>3 DEF TextUpTo
  <1>1. CASE Launch
    BY <1>1 DEF Launch, Launched, NothingBeforeLaunch
  <1>2. ASSUME NEW k \in {"delta", "progress"}, Publish(k) PROVE Extended
    <2> DEFINE text == TextUpTo(Len(log))
               e == [kind |-> k, text |-> IF k = "delta" THEN Append(text, Len(log) + 1) ELSE text]
    <2>1. Len(log) + 1 \in 1 .. MaxEvents /\ Len(log) + 1 < MaxEvents
      BY <1>2, EventsAssumption DEF Publish
    <2>2. text \in Texts /\ Append(text, Len(log) + 1) \in Texts
      BY <1>t, <1>2, <2>1 DEF Publish, Texts
    <2>3. e \in Logged
      BY <2>2 DEF Logged, Kinds
    <2>4. log' = Append(log, e) /\ log # <<>> /\ ~Terminal
      BY <1>2 DEF Publish
    <2>5. QED
      BY <2>1, <2>3, <2>4 DEF Extended
  <1>3. CASE PublishFinal
    <2> DEFINE e == [kind |-> "final", text |-> TextUpTo(Len(log))]
    <2>1. e \in Logged
      BY <1>t, <1>3 DEF PublishFinal, Logged, Kinds
    <2>2. QED
      BY <1>3, <2>1 DEF PublishFinal, Extended
  <1>4. CASE UNCHANGED log
    BY <1>4
  <1>5. QED
    BY <1>1, <1>2, <1>3, <1>4
    DEF StreamNext, Post, Job, SaveAnswer, Expire, Crash, OpenResume, Generator, SendSnapshot,
        SendFinale, Fetch, YieldNext, End, Cut, streamVars, jobVars

(* What the log holds stays; it stays sound.                               *)
LEMMA LogStays ==
    ASSUME JobInv, [StreamNext]_streamVars
    PROVE  /\ log' \in Seq(Logged)
           /\ Len(log) <= Len(log')
           /\ \A i \in DOMAIN log : i \in DOMAIN log' /\ log'[i] = log[i]
           /\ Terminal => UNCHANGED log
           /\ LogIsSound'
  <1> USE DEF JobInv, StreamTypeOK
  <1>1. CASE Launched
    BY <1>1, EventsAssumption DEF Launched, LogIsSound, Terminal, Logged, Kinds, Texts
  <1>2. CASE Extended
    <2> PICK e \in Logged : /\ log' = Append(log, e)
                            /\ e.kind # "snapshot"
                            /\ e.kind # "final" => Len(log) + 1 < MaxEvents
      BY <1>2 DEF Extended
    <2>1. /\ Len(log') = Len(log) + 1
          /\ DOMAIN log' = DOMAIN log \cup {Len(log) + 1}
          /\ \A i \in DOMAIN log : i \in DOMAIN log' /\ log'[i] = log[i]
          /\ log'[Len(log) + 1] = e
          /\ log' \in Seq(Logged) /\ log' # <<>>
      BY OneMore
    <2>2. \A i \in DOMAIN log : log[i].kind # "final"
      BY <1>2 DEF Extended, Terminal, LogIsSound
    <2>3. Terminal' <=> e.kind = "final"
      BY <2>1 DEF Terminal
    <2>4. 1 \in DOMAIN log /\ Len(log) < MaxEvents
      BY <1>2 DEF Extended, LogIsSound
    <2>5. LogIsSound'
      BY <2>1, <2>2, <2>3, <2>4, <1>2, EventsAssumption DEF LogIsSound, Extended
    <2>6. QED
      BY <1>2, <2>1, <2>5 DEF Extended
  <1>3. CASE UNCHANGED log
    BY <1>3 DEF LogIsSound, Terminal
  <1>4. QED
    BY <1>1, <1>2, <1>3, LogSteps

-----------------------------------------------------------------------------
(* One reader.                                                             *)

(* A reader that stands still stays right while the log goes on.           *)
LEMMA StillReader ==
    ASSUME JobInv, [StreamNext]_streamVars, NEW c \in Connections,
           phase'[c] = phase[c], cursor'[c] = cursor[c], upto'[c] = upto[c],
           sent'[c] = sent[c]
    PROVE  Reader(c)'
  <1>1. /\ Len(log) <= Len(log') /\ Len(log) \in Nat /\ Len(log') \in Nat
        /\ \A i \in DOMAIN log : i \in DOMAIN log' /\ log'[i] = log[i]
        /\ Terminal => UNCHANGED log
    BY LogStays DEF JobInv, StreamTypeOK
  <1>2. Reader(c) /\ DOMAIN log = 1 .. Len(log)
    BY DEF JobInv, StreamTypeOK
  <1>3. Window(c)'
    <2> SUFFICES ASSUME NEW i \in DOMAIN sent[c]
                 PROVE  /\ sent[c][i].id \in DOMAIN log'
                        /\ sent[c][i].kind = "snapshot" =>
                              i = 1 /\ sent[c][i].text = TextUpTo(sent[c][i].id)'
                        /\ sent[c][i].kind # "snapshot" => sent[c][i].kind = log'[sent[c][i].id].kind
      BY <1>2 DEF Window, Reader
    <2>1. /\ sent[c][i].id \in DOMAIN log
          /\ sent[c][i].kind = "snapshot" => i = 1 /\ sent[c][i].text = TextUpTo(sent[c][i].id)
          /\ sent[c][i].kind # "snapshot" => sent[c][i].kind = log[sent[c][i].id].kind
      BY <1>2 DEF Reader, Window
    <2>2. log'[sent[c][i].id] = log[sent[c][i].id] /\ sent[c][i].id \in DOMAIN log'
      BY <2>1, <1>1
    <2>3. QED
      BY <2>1, <2>2 DEF TextUpTo
  <1>4. Complete(c)' /\ (Blank(c) => Blank(c)')
    BY <1>2 DEF Reader, Complete, Blank
  <1>5. ASSUME phase[c] = "poll" PROVE AtCursor(c)'
    <2>1. AtCursor(c) /\ Window(c)
      BY <1>2, <1>5 DEF Reader
    <2>2. CASE sent[c] = <<>>
      BY <2>1, <2>2, <1>1, <1>2 DEF AtCursor, Reader
    <2>3. CASE sent[c] # <<>>
      <3>1. Len(sent[c]) \in DOMAIN sent[c]
        BY <2>3, <1>2 DEF Reader
      <3>2. sent[c][Len(sent[c])].id \in DOMAIN log
        BY <3>1, <2>1 DEF Window
      <3>3. QED
        BY <2>1, <2>3, <3>2, <1>1, <1>2 DEF AtCursor, Reader
    <2>4. QED
      BY <2>2, <2>3
  <1>6. phase[c] = "finale" => BeforeFinale(c)'
    BY <1>1, <1>2 DEF Reader, BeforeFinale, Terminal
  <1>7. QED
    BY <1>2, <1>3, <1>4, <1>5, <1>6 DEF Reader

(* A reader that has been sent nothing needs little.                       *)
LEMMA BlankReader ==
    ASSUME NEW c \in Connections, Blank(c)', phase'[c] \in Phases \ {"finale", "ended"},
           log' \in Seq(Logged)
    PROVE  Reader(c)'
  BY DEF Blank, Reader, AtCursor, Window, Complete

(* A reader that is sent a snapshot.                                       *)
LEMMA ReaderTakesSnapshot ==
    ASSUME JobInv, NEW c \in Connections, SendSnapshot(c)
    PROVE  Reader(c)'
  <1> USE DEF JobInv, StreamTypeOK
  <1> DEFINE e == Event("snapshot", Len(log), TextUpTo(Len(log)))
  <1>1. log # <<>> /\ Len(log) \in DOMAIN log /\ Len(log) \in 1 .. MaxEvents
    BY EventsAssumption DEF SendSnapshot, NothingBeforeLaunch, Open, LogIsSound
  <1>2. e \in Events /\ e.kind = "snapshot" /\ e.id = Len(log) /\ e.text = TextUpTo(Len(log))
    <2>1. Len(log) # 0 /\ log[Len(log)] \in Logged
      BY <1>1
    <2>2. TextUpTo(Len(log)) \in Texts
      BY <2>1 DEF TextUpTo, Logged
    <2>3. QED
      BY <1>1, <2>2 DEF Event, Events, Kinds
  <1>3. Reader(c) /\ sent[c] = <<>>
    BY DEF SendSnapshot, Reader, Blank
  <1>4. /\ sent'[c] = <<e>>
        /\ cursor'[c] = Len(log) /\ upto'[c] = Len(log)
        /\ phase'[c] = IF Terminal THEN "finale" ELSE "poll"
        /\ UNCHANGED log
    BY <1>3 DEF SendSnapshot, Yield, jobVars
  <1>5. Window(c)' /\ Complete(c)'
    BY <1>1, <1>2, <1>4 DEF Window, Complete, TextUpTo
  <1>6. CASE Terminal
    BY <1>1, <1>2, <1>4, <1>5, <1>6 DEF Reader, BeforeFinale, Terminal, Phases
  <1>7. CASE ~Terminal
    <2>1. AtCursor(c)'
      BY <1>1, <1>2, <1>4, <1>7 DEF AtCursor, Terminal
    <2>2. QED
      BY <1>1, <1>2, <1>4, <1>5, <1>7, <2>1 DEF Reader, Phases
  <1>8. QED
    BY <1>6, <1>7

(* A reader that is sent the final event from the job.                     *)
LEMMA ReaderIsTold ==
    ASSUME JobInv, NEW c \in Connections, SendFinale(c)
    PROVE  Reader(c)'
  <1> USE DEF JobInv, StreamTypeOK
  <1> DEFINE e == Event("final", Len(log), <<>>)
  <1>1. Reader(c) /\ BeforeFinale(c) /\ Window(c)
    BY DEF SendFinale, Reader
  <1>2. log # <<>> /\ Len(log) \in DOMAIN log /\ Len(log) \in 1 .. MaxEvents
        /\ log[Len(log)].kind = "final"
    BY <1>1, EventsAssumption DEF BeforeFinale, Terminal, LogIsSound
  <1>3. e \in Events /\ e.kind = "final" /\ e.id = Len(log)
    BY <1>2 DEF Event, Events, Kinds, Texts
  <1>4. /\ sent'[c] = Append(sent[c], e)
        /\ cursor'[c] = cursor[c] /\ upto'[c] = upto[c]
        /\ phase'[c] = "ended"
        /\ UNCHANGED log
    BY DEF SendFinale, Yield, jobVars
  <1>5. /\ sent'[c] \in Seq(Events) /\ sent'[c] # <<>> /\ Len(sent'[c]) = 2
        /\ DOMAIN sent'[c] = {1, 2}
        /\ sent'[c][1] = sent[c][1] /\ sent'[c][2] = e
    <2>1. sent[c] \in Seq(Events) /\ Len(sent[c]) = 1 /\ DOMAIN sent[c] = {1}
      BY <1>1 DEF Reader, BeforeFinale
    <2>2. QED
      BY <2>1, <1>3, <1>4, OneMore
  <1>6. Window(c)'
    BY <1>1, <1>2, <1>3, <1>4, <1>5 DEF Window, TextUpTo, BeforeFinale
  <1>7. Complete(c)'
    BY <1>1, <1>3, <1>4, <1>5 DEF Complete, BeforeFinale
  <1>8. QED
    BY <1>1, <1>4, <1>5, <1>6, <1>7 DEF Reader, Phases

(* A reader that is sent the next event of what it fetched.                *)
LEMMA ReaderGoesOn ==
    ASSUME JobInv, NEW c \in Connections, YieldNext(c)
    PROVE  Reader(c)'
  <1> USE DEF JobInv, StreamTypeOK
  <1> DEFINE n == cursor[c] + 1
             e == Event(log[n].kind, n, IF log[n].kind = "delta" THEN <<n>> ELSE <<>>)
  <1>1. Reader(c) /\ AtCursor(c) /\ Window(c) /\ Complete(c)
    BY DEF YieldNext, Reader
  <1>2. n \in DOMAIN log /\ n \in 1 .. MaxEvents /\ n \in Nat /\ n <= upto[c] /\ n <= Len(log)
    BY <1>1, EventsAssumption DEF YieldNext, AtCursor, Reader, LogIsSound
  <1>3. e \in Events /\ e.kind = log[n].kind /\ e.id = n
        /\ (e.kind = "snapshot" => e.text = <<>>)
    <2>1. log[n] \in Logged
      BY <1>2
    <2>2. log[n].kind \in Kinds
      BY <2>1 DEF Logged
    <2>3. <<n>> \in Texts /\ <<>> \in Texts
      BY <1>2 DEF Texts
    <2>4. QED
      BY <1>2, <2>2, <2>3 DEF Event, Events
  <1>4. /\ sent'[c] = Append(sent[c], e)
        /\ cursor'[c] = n /\ upto'[c] = upto[c]
        /\ phase'[c] = "poll"
        /\ UNCHANGED log
    BY DEF YieldNext, Yield, jobVars
  <1>s. sent[c] \in Seq(Events)
    BY <1>1 DEF Reader
  <1> DEFINE s == sent[c]
             k == Len(s) + 1
  <1>5. /\ sent'[c] \in Seq(Events) /\ sent'[c] # <<>> /\ Len(sent'[c]) = k
        /\ DOMAIN sent'[c] = DOMAIN s \cup {k}
        /\ \A i \in DOMAIN s : sent'[c][i] = s[i] /\ i <= Len(s) /\ i \in Nat
        /\ sent'[c][k] = e /\ k \in Nat /\ Len(s) \in Nat
        /\ s # <<>> => Len(s) \in DOMAIN s
        /\ s = <<>> <=> Len(s) = 0
    BY <1>3, <1>4, <1>s, OneMore
  <1>6. \A i \in DOMAIN s : s[i].kind # "final"
    <2> SUFFICES ASSUME NEW i \in DOMAIN s, s[i].kind = "final" PROVE FALSE
      OBVIOUS
    <2>1. i = Len(s) /\ s # <<>>
      BY <1>1, <1>5 DEF Complete
    <2>2. s[i].id = cursor[c] /\ log[cursor[c]].kind = "final" /\ cursor[c] \in DOMAIN log
      BY <1>1, <2>1 DEF AtCursor, Window
    <2>3. cursor[c] = Len(log)
      BY <2>2 DEF LogIsSound
    <2>4. QED
      BY <2>3, <1>1, <1>2 DEF Reader
  <1>7. n = 1 <=> s = <<>>
    <2>1. CASE s = <<>>
      BY <2>1, <1>1 DEF AtCursor
    <2>2. CASE s # <<>>
      <3>1. cursor[c] \in DOMAIN log
        BY <2>2, <1>1, <1>5 DEF AtCursor, Window
      <3>2. QED
        BY <2>2, <3>1
    <2>3. QED
      BY <2>1, <2>2
  <1>8. e.kind = "snapshot" <=> n = 1
    BY <1>2, <1>3 DEF LogIsSound
  <1>9. Window(c)'
    <2> SUFFICES ASSUME NEW i \in DOMAIN sent'[c]
                 PROVE  LET x == sent'[c][i] IN
                        /\ x.id \in DOMAIN log
                        /\ x.kind = "snapshot" => i = 1 /\ x.text = TextUpTo(x.id)
                        /\ x.kind # "snapshot" =>
                              /\ x.kind = log[x.id].kind
                              /\ i > 1
                              /\ \/ x.id = sent'[c][i - 1].id + 1
                                 \/ x.kind = "final" /\ sent'[c][i - 1].kind = "snapshot"
                                                     /\ x.id = sent'[c][i - 1].id
      BY <1>4 DEF Window, TextUpTo
    <2>1. CASE i \in DOMAIN s
      <3>1. i > 1 => i - 1 \in DOMAIN s
        BY <2>1, <1>s
      <3>2. QED
        <4>1. sent'[c][i] = s[i] /\ (i > 1 => sent'[c][i - 1] = s[i - 1])
          BY <2>1, <3>1, <1>5
        <4>2. /\ s[i].id \in DOMAIN log
              /\ s[i].kind = "snapshot" => i = 1 /\ s[i].text = TextUpTo(s[i].id)
              /\ s[i].kind # "snapshot" =>
                    /\ s[i].kind = log[s[i].id].kind
                    /\ i > 1
                    /\ \/ s[i].id = s[i - 1].id + 1
                       \/ s[i].kind = "final" /\ s[i - 1].kind = "snapshot" /\ s[i].id = s[i - 1].id
          BY <1>1, <2>1 DEF Window
        <4>3. QED
          BY <4>1, <4>2
    <2>2. CASE i = k
      <3>1. CASE n = 1
        BY <2>2, <3>1, <1>2, <1>3, <1>5, <1>7, <1>8 DEF TextUpTo, LogIsSound
      <3>2. CASE n # 1
        <4>1. s # <<>> /\ k > 1 /\ k - 1 = Len(s) /\ Len(s) \in DOMAIN s
          BY <3>2, <1>5, <1>7
        <4>2. sent'[c][k - 1].id = cursor[c]
          BY <4>1, <1>1, <1>5 DEF AtCursor
        <4>3. QED
          BY <2>2, <3>2, <4>1, <4>2, <1>2, <1>3, <1>5, <1>8
      <3>3. QED
        BY <3>1, <3>2
    <2>3. QED
      BY <2>1, <2>2, <1>5
  <1>10. Complete(c)'
    BY <1>4, <1>5, <1>6 DEF Complete
  <1>11. AtCursor(c)'
    <2>1. e.kind = "snapshot" => log[n].kind # "final"
      BY <1>3
    <2>2. QED
      BY <1>1, <1>2, <1>3, <1>4, <1>5, <2>1 DEF AtCursor, Reader
  <1>12. QED
    BY <1>1, <1>2, <1>4, <1>5, <1>9, <1>10, <1>11 DEF Reader, Phases

(* A reader that fetches the events after its cursor.                      *)
LEMMA ReaderFetches ==
    ASSUME JobInv, NEW c \in Connections, Fetch(c)
    PROVE  Reader(c)'
  <1>1. Reader(c) /\ phase[c] = "poll" /\ phase'[c] = "poll" /\ cursor'[c] = cursor[c]
        /\ sent'[c] = sent[c] /\ upto'[c] = Len(log) /\ Len(log) \in Nat /\ UNCHANGED log
        /\ cursor[c] < Len(log)
    BY DEF Fetch, JobInv, StreamTypeOK, jobVars
  <1>2. AtCursor(c)' /\ Window(c)' /\ Complete(c)'
    BY <1>1 DEF Reader, AtCursor, Window, Complete, TextUpTo
  <1>3. QED
    BY <1>1, <1>2 DEF Reader

(* A reader whose stream ends.                                             *)
LEMMA ReaderEnds ==
    ASSUME JobInv, NEW c \in Connections, End(c)
    PROVE  Reader(c)'
  <1>1. Reader(c) /\ AtCursor(c) /\ phase'[c] = "ended" /\ cursor'[c] = cursor[c]
        /\ sent'[c] = sent[c] /\ upto'[c] = upto[c] /\ UNCHANGED log
        /\ cursor[c] = Len(log) /\ Terminal
    BY DEF End, JobInv, StreamTypeOK, jobVars, Reader
  <1>2. sent[c] # <<>> /\ Len(sent[c]) \in DOMAIN sent[c]
    BY <1>1 DEF AtCursor, Terminal, JobInv, StreamTypeOK, Reader
  <1>3. sent[c][Len(sent[c])].kind = "final"
    BY <1>1, <1>2 DEF AtCursor, Terminal, Reader, Window
  <1>4. Window(c)' /\ Complete(c)'
    BY <1>1, <1>2, <1>3 DEF Reader, Window, Complete, TextUpTo
  <1>5. QED
    BY <1>1, <1>4 DEF Reader, Phases

-----------------------------------------------------------------------------
(* All readers.                                                            *)

(* A connection that is over, or is only opened, has been sent nothing.    *)
LEMMA ReadersStaySound ==
    ASSUME JobInv, [StreamNext]_streamVars, NEW c \in Connections
    PROVE  Reader(c)'
  <1> USE DEF JobInv, StreamTypeOK
  <1>0. log' \in Seq(Logged) /\ Reader(c)
    BY LogStays
  <1>1. CASE Post \/ Launch
    <2>1. UNCHANGED <<cursor, upto, sent>>
      BY <1>1 DEF Post, Launch
    <2>2. CASE c = Author
      <3>1. Blank(c)' /\ phase'[c] \in {"queued", "poll"}
        BY <1>0, <1>1, <2>1, <2>2, AuthorAssumption DEF Post, Launch, Reader, Blank
      <3>2. QED
        BY <3>1, <1>0, BlankReader DEF Phases
    <2>3. CASE c # Author
      BY <1>1, <2>1, <2>3, StillReader DEF Post, Launch
    <2>4. QED
      BY <2>2, <2>3
  <1>2. CASE UNCHANGED connVars
    BY <1>2, StillReader DEF connVars
  <1>3. ASSUME NEW cs \in SUBSET Connections, Disconnect(cs) PROVE Reader(c)'
    <2>1. CASE c \in cs
      <3>1. Blank(c)' /\ phase'[c] = "cut"
        BY <1>3, <2>1 DEF Disconnect, Blank
      <3>2. QED
        BY <3>1, <1>0, BlankReader DEF Phases
    <2>2. CASE c \notin cs
      BY <1>3, <2>2, StillReader DEF Disconnect
    <2>3. QED
      BY <2>1, <2>2
  <1>4. ASSUME NEW d \in Connections, OpenResume(d) \/ Generator(d) PROVE Reader(c)'
    <2>1. CASE c # d
      <3>1. phase'[c] = phase[c] /\ cursor'[c] = cursor[c] /\ upto'[c] = upto[c]
            /\ sent'[c] = sent[c]
        BY <1>4, <2>1 DEF OpenResume, Generator, SendSnapshot, SendFinale, Fetch, YieldNext,
                          End, Yield
      <3>2. QED
        BY <3>1, StillReader
    <2>2. CASE c = d /\ OpenResume(d)
      <3>1. Blank(c)' /\ phase'[c] \in {"snapshot", "missing"}
        BY <1>0, <2>2 DEF OpenResume, Reader, Blank
      <3>2. QED
        BY <3>1, <1>0, BlankReader DEF Phases
    <2>3. CASE c = d /\ Generator(d)
      BY <2>3, ReaderTakesSnapshot, ReaderIsTold, ReaderFetches, ReaderGoesOn, ReaderEnds
      DEF Generator
    <2>4. QED
      BY <1>4, <2>1, <2>2, <2>3
  <1>5. CASE Job
    BY <1>1, <1>2, <1>5 DEF Job, Publish, SaveAnswer, PublishFinal, Expire
  <1>6. CASE Crash
    BY <1>3, <1>6 DEF Crash
  <1>7. ASSUME NEW d \in Connections, Cut(d) PROVE Reader(c)'
    BY <1>3, <1>7 DEF Cut
  <1>8. CASE UNCHANGED streamVars
    BY <1>2, <1>8 DEF streamVars, connVars
  <1>9. QED
    BY <1>1, <1>4, <1>5, <1>6, <1>7, <1>8 DEF StreamNext

(* Types are kept: what is sent is typed by its reader.                    *)
LEMMA TypesStay ==
    ASSUME JobInv, [StreamNext]_streamVars
    PROVE  StreamTypeOK'
  <1> USE DEF JobInv, StreamTypeOK
  <1>1. \A c \in Connections : Reader(c)'
    BY ReadersStaySound
  <1>2. log' \in Seq(Logged)
    BY LogStays
  <1>3. saved' \in {"no", "yes", "failed"} /\ registered' \in BOOLEAN
    BY DEF StreamNext, Post, Job, Launch, Publish, SaveAnswer, PublishFinal, Expire, Crash,
           OpenResume, Generator, SendSnapshot, SendFinale, Fetch, YieldNext, End, Cut,
           jobVars, streamVars
  <1>4. /\ phase' = [c \in Connections |-> phase'[c]]
        /\ cursor' = [c \in Connections |-> cursor'[c]]
        /\ upto' = [c \in Connections |-> upto'[c]]
        /\ sent' = [c \in Connections |-> sent'[c]]
    BY DEF StreamNext, Post, Job, Launch, Publish, SaveAnswer, PublishFinal, Expire, Crash,
           OpenResume, Generator, SendSnapshot, SendFinale, Fetch, YieldNext, End, Cut,
           Disconnect, Yield, connVars, streamVars
  <1>5. QED
    BY <1>1, <1>2, <1>3, <1>4 DEF Reader

(* Nothing is logged before the launch.                                    *)
LEMMA LaunchIsFirst ==
    ASSUME JobInv, [StreamNext]_streamVars
    PROVE  NothingBeforeLaunch'
  <1> USE DEF JobInv, StreamTypeOK
  <1>1. CASE log' # <<>>
    <2>1. ASSUME phase'[Author] \in {"new", "queued"} PROVE log = <<>> /\ UNCHANGED log
      BY <2>1, AuthorAssumption
      DEF NothingBeforeLaunch, StreamNext, Post, Job, Launch, Publish, SaveAnswer, PublishFinal,
          Expire, Crash, OpenResume, Generator, SendSnapshot, SendFinale, Fetch, YieldNext,
          End, Cut, Disconnect, Running, jobVars, connVars, streamVars
    <2>2. QED
      BY <1>1, <2>1 DEF NothingBeforeLaunch
  <1>2. CASE log' = <<>>
    <2>1. log = <<>>
      BY <1>2, LogStays
    <2>2. ~Launch
      BY <1>2 DEF Launch
    <2>3. ~registered /\ ~Running /\ ~Terminal
          /\ \A c \in Connections : phase[c] \notin {"snapshot", "finale", "poll", "ended"}
      BY <2>1 DEF NothingBeforeLaunch, Running, Terminal, Open
    <2>4. SUFFICES ~registered' /\ \A c \in Connections :
                       phase'[c] \notin {"snapshot", "finale", "poll", "ended"}
      BY <1>2 DEF NothingBeforeLaunch, Open
    <2>5. CASE Post
      BY <2>3, <2>5, AuthorAssumption DEF Post, jobVars
    <2>6. CASE Job \/ Crash
      BY <2>1, <2>2, <2>3, <2>6 DEF Job, Publish, SaveAnswer, PublishFinal, Expire, Crash
    <2>7. ASSUME NEW c \in Connections, OpenResume(c)
          PROVE  ~registered' /\ \A d \in Connections :
                     phase'[d] \notin {"snapshot", "finale", "poll", "ended"}
      BY <2>3, <2>7 DEF OpenResume, jobVars
    <2>8. ASSUME NEW c \in Connections, Generator(c) PROVE FALSE
      BY <2>3, <2>8 DEF Generator, SendSnapshot, SendFinale, Fetch, YieldNext, End
    <2>9. ASSUME NEW c \in Connections, Cut(c)
          PROVE  ~registered' /\ \A d \in Connections :
                     phase'[d] \notin {"snapshot", "finale", "poll", "ended"}
      BY <2>3, <2>9 DEF Cut, Disconnect, jobVars
    <2>10. CASE UNCHANGED streamVars
      BY <2>3, <2>10 DEF streamVars
    <2>11. QED
      BY <2>5, <2>6, <2>7, <2>8, <2>9, <2>10 DEF StreamNext
  <1>3. QED
    BY <1>1, <1>2

(* Every step keeps the invariant.                                         *)
LEMMA StreamKept == JobInv /\ [StreamNext]_streamVars => JobInv'
  <1> SUFFICES ASSUME JobInv, [StreamNext]_streamVars PROVE JobInv'
    OBVIOUS
  <1> QED
    BY TypesStay, LogStays, LaunchIsFirst, ReadersStaySound DEF JobInv

(* The invariant holds in every reachable state.                           *)
LEMMA JobInvHolds == StreamSpec => []JobInv
  BY JobStarts, StreamKept, PTL DEF StreamSpec

-----------------------------------------------------------------------------

(* The invariant implies what readers are promised.                        *)
LEMMA JobInvSuffices == JobInv => ReadersGetTheLog
  BY DEF JobInv, Reader, Window, Complete, ReadersGetTheLog, SentIsAWindow,
         EndedStreamsAreComplete

(* Whoever reads a job, from its start or from a snapshot, is sent a       *)
(* gapless window of its log that ends with the final event.               *)
THEOREM ReadersAreServed == StreamSpec => []ReadersGetTheLog
  BY JobInvHolds, JobInvSuffices, PTL

(* A response that ends by itself has told how the answer ended.           *)
THEOREM StreamsEndTold == StreamSpec => []EndedStreamsAreComplete
  <1>1. ReadersGetTheLog => EndedStreamsAreComplete
    BY DEF ReadersGetTheLog
  <1>2. QED
    BY <1>1, ReadersAreServed, PTL

-----------------------------------------------------------------------------
(* The tab.                                                                *)

(* The texts accumulated in the log.                                       *)
Grown(q, i) == q[i].text = IF q[i].kind = "delta" THEN Append(q[i - 1].text, i)
                                                  ELSE q[i - 1].text

(* Ascending, and nothing newer than event n.                              *)
InOrder(text, n) == /\ \A i \in 2..Len(text) : text[i - 1] < text[i]
                    /\ text # <<>> => text[Len(text)] <= n

(* Every text in the log extends the one before it and is ascending.       *)
TextsAreSound == \A i \in DOMAIN log : /\ i > 1 => Grown(log, i)
                                       /\ InOrder(log[i].text, i)

(* A delta carries its own chunk only.                                     *)
DeltasAreSmall == \A c \in Connections : \A i \in DOMAIN sent[c] :
    sent[c][i].kind = "delta" => sent[c][i].text = <<sent[c][i].id>>

(* A resumed stream starts with its snapshot.                              *)
SnapshotFirst == \A c \in Connections \ {Author} : phase[c] = "poll" => sent[c] # <<>>

(* What the tab needs of the streams beyond their own invariant.           *)
StreamInv == /\ TextsAreSound /\ DeltasAreSmall /\ SnapshotFirst
             /\ saved # "no" => log # <<>>

(* Where the message that is loading is kept: the author's stream fills    *)
(* the pending one, a resumed stream the active one.                       *)
Places ==
    /\ request = Author => /\ target = "pending"
                           /\ bubble["pending"].status \in {"loading", "none"}
    /\ request \notin {Author, None} => target = "active"
    /\ bubble["pending"].status = "loading" => request = Author /\ bubble["active"].status # "loading"
    /\ bubble["extra"].status # "loading"
    /\ Shown("active") => bubble["active"].known
    /\ halt # Nothing => halt.known /\ stopped

(* What a reply on its way to the tab says: a text the server had, or that *)
(* the answer is stored, after which the worker does not run any more.     *)
Replies ==
    /\ fetch.active => fetch.id <= Len(log) /\ fetch.text = TextUpTo(fetch.id)
    /\ fetch.answer => saved = "yes"
    /\ (fetch.step = "replied" /\ ~fetch.active /\ fetch.answer) => ~Running

(* The texts that are shown, or kept aside by a late stop, are ascending.  *)
Ordered == /\ \A slot \in Slots : InOrder(bubble[slot].text, bubble[slot].id)
           /\ InOrder(halt.text, halt.id)

(* A message that is loading shows the log up to its last event.           *)
Faithful == \A slot \in LoadingSlots : /\ bubble[slot].id <= Len(log)
                                       /\ bubble[slot].text = TextUpTo(bubble[slot].id)

(* The worker is done, and no reply will say that it is not.               *)
Quiet == log # <<>> /\ ~Running /\ ~fetch.active /\ fetch.step # "found"

(* The stream that is read continues the message it fills, from the first  *)
(* event or from the last one shown. Only when the answer was stored and   *)
(* shown meanwhile is there no message to fill.                            *)
Following ==
    request # None =>
        \/ ~Shown(target) /\ Quiet
        \/ /\ bubble[target].status = "loading"
           /\ \/ phase[request] = "cut"
              \/ /\ read = 0
                 /\ request = Author => bubble[target].id = 0
                 /\ sent[request] # <<>> => bubble[target].id <= sent[request][1].id
              \/ /\ read \in DOMAIN sent[request]
                 /\ bubble[target].id = sent[request][read].id

(* The types of everything but the server.                                 *)
TabTypes == /\ bubble \in [Slots -> Bubbles]
            /\ fromHistory \in BOOLEAN
            /\ request \in Connections \cup {None}
            /\ target \in Slots
            /\ read \in Nat
            /\ timer \in BOOLEAN
            /\ fetch \in [step : {"idle", "asked", "listed", "found", "replied"},
                          retry : BOOLEAN, answer : BOOLEAN, active : BOOLEAN,
                          text : Texts, id : 0..MaxEvents]
            /\ halt \in Bubbles
            /\ stopped \in BOOLEAN

(* The streams' part of the invariant.                                     *)
StreamIInv == JobInv /\ StreamInv

(* The inductive invariant. A stop that comes too late (StopLate) gives up *)
(* Faithful and Following, since its reply may be put over newer text.     *)
IInv == /\ StreamIInv
        /\ TabTypes /\ Places /\ Replies /\ Ordered
        /\ ~stopped => Faithful /\ Following


-----------------------------------------------------------------------------
(* The stream.                                                             *)

USE AuthorAssumption, EventsAssumption

(* What the tab needs of the streams' invariant.                           *)
LEMMA StreamFacts ==
    ASSUME JobInv
    PROVE  /\ StreamTypeOK
           /\ log # <<>> => log[1].kind = "snapshot" /\ log[1].text = <<>>
           /\ \A i \in DOMAIN log : /\ log[i].kind = "snapshot" => i = 1
                                    /\ log[i].kind = "final" => i = Len(log)
           /\ Len(log) <= MaxEvents
           /\ ~Terminal => Len(log) < MaxEvents
           /\ phase[Author] \in {"new", "queued"} => log = <<>>
           /\ log = <<>> => ~registered
           /\ \A c \in Connections :
                 /\ cursor[c] \in Nat
                 /\ phase[c] \notin {"poll", "finale", "ended"} => sent[c] = <<>>
                 /\ phase[c] = "finale" => sent[c] # <<>>
                 /\ \A i \in DOMAIN sent[c] :
                       LET e == sent[c][i] IN
                       /\ e.id \in DOMAIN log
                       /\ e.kind = "snapshot" => i = 1 /\ e.text = TextUpTo(e.id)
                       /\ e.kind # "snapshot" =>
                             /\ e.kind = log[e.id].kind
                             /\ i > 1
                             /\ \/ e.id = sent[c][i - 1].id + 1
                                \/ e.kind = "final"
  <1> USE DEF JobInv
  <1>1. /\ StreamTypeOK
        /\ log # <<>> => log[1].kind = "snapshot" /\ log[1].text = <<>>
        /\ \A i \in DOMAIN log : /\ log[i].kind = "snapshot" => i = 1
                                 /\ log[i].kind = "final" => i = Len(log)
        /\ Len(log) <= MaxEvents
        /\ ~Terminal => Len(log) < MaxEvents
    BY DEF LogIsSound
  <1>2. /\ phase[Author] \in {"new", "queued"} => log = <<>>
        /\ log = <<>> => ~registered
    BY DEF NothingBeforeLaunch
  <1>3. ASSUME NEW c \in Connections
        PROVE  /\ cursor[c] \in Nat
               /\ phase[c] \notin {"poll", "finale", "ended"} => sent[c] = <<>>
               /\ phase[c] = "finale" => sent[c] # <<>>
    BY DEF Reader, Blank, BeforeFinale
  <1>4. ASSUME NEW c \in Connections, NEW i \in DOMAIN sent[c]
        PROVE  LET e == sent[c][i] IN
               /\ e.id \in DOMAIN log
               /\ e.kind = "snapshot" => i = 1 /\ e.text = TextUpTo(e.id)
               /\ e.kind # "snapshot" =>
                     /\ e.kind = log[e.id].kind
                     /\ i > 1
                     /\ \/ e.id = sent[c][i - 1].id + 1
                        \/ e.kind = "final"
    BY DEF Reader, Window
  <1>5. QED
    BY <1>1, <1>2, <1>3, <1>4

(* So the streams are well typed.                                          *)
LEMMA StreamTypes == JobInv => StreamTypeOK
  BY StreamFacts

-----------------------------------------------------------------------------
(* What a step of the server does to the log.                              *)

(* One event more; its text is the one before it, grown if it is a delta.  *)
Logs(k) ==
    /\ Running
    /\ log' = Append(log, [kind |-> k,
                           text |-> IF k = "delta" THEN Append(log[Len(log)].text, Len(log) + 1)
                                                   ELSE log[Len(log)].text])
    /\ UNCHANGED <<saved, registered>>

(* A step of the server starts the log, adds one event to it, or leaves it *)
(* alone; an answer is only stored once.                                   *)
LEMMA LogCases ==
    ASSUME JobInv, [StreamNext]_streamVars
    PROVE  \/ log = <<>> /\ log' = <<[kind |-> "snapshot", text |-> <<>>]>> /\ saved' = saved
           \/ Logs("delta") \/ Logs("progress") \/ Logs("final")
           \/ /\ UNCHANGED log
              /\ registered' = registered \/ registered' = FALSE
              /\ saved' = saved \/ (saved = "no" /\ log # <<>>)
  <1>1. Len(log) \in Nat /\ (log # <<>> => Len(log) # 0)
    BY StreamFacts DEF StreamTypeOK
  <1>2. CASE Launch
    BY <1>2, StreamFacts DEF Launch
  <1>3. ASSUME NEW k \in {"delta", "progress"}, Publish(k) PROVE Logs(k)
    BY <1>1, <1>3 DEF Publish, Logs, TextUpTo, Running
  <1>4. CASE PublishFinal
    <2>1. Logs("final")
      BY <1>1, <1>4 DEF PublishFinal, Logs, TextUpTo, Running
    <2>2. QED
      BY <2>1
  <1>5. CASE \E outcome \in {"yes", "failed"} : SaveAnswer(outcome)
    BY <1>5 DEF SaveAnswer, Running
  <1>6. CASE Expire \/ Post \/ Crash
    BY <1>6 DEF Expire, Post, Crash, jobVars
  <1>7. CASE \E c \in Connections : OpenResume(c) \/ Generator(c) \/ Cut(c)
    BY <1>7 DEF OpenResume, Generator, Cut, SendSnapshot,
                SendFinale, Fetch, YieldNext, End, jobVars
  <1>8. CASE UNCHANGED streamVars
    BY <1>8 DEF streamVars
  <1>9. QED
    BY <1>2, <1>3, <1>4, <1>5, <1>6, <1>7, <1>8 DEF StreamNext, Job

(* The log only grows, an answer that is stored stays stored, a worker     *)
(* that has stopped does not start again, and the texts stay sound.        *)
LEMMA LogAdvances ==
    ASSUME JobInv, StreamInv, [StreamNext]_streamVars
    PROVE  /\ Len(log) \in Nat /\ Len(log') \in Nat /\ Len(log) <= Len(log')
           /\ \A i \in DOMAIN log : i \in DOMAIN log' /\ log'[i] = log[i]
           /\ saved = "yes" => saved' = "yes"
           /\ (log # <<>> /\ ~Running) => (log' # <<>> /\ ~Running')
           /\ saved' # "no" => log' # <<>>
           /\ TextsAreSound'
  <1>0. /\ log \in Seq(Logged) /\ Len(log) \in Nat /\ DOMAIN log = 1..Len(log)
        /\ log = <<>> => ~registered
    BY StreamFacts DEF StreamTypeOK
  <1>1. CASE log = <<>> /\ log' = <<[kind |-> "snapshot", text |-> <<>>]>> /\ saved' = saved
    <2>1. Len(log') = 1 /\ DOMAIN log' = {1} /\ log' # <<>> /\ log'[1].text = <<>>
      BY <1>1
    <2>2. TextsAreSound'
      BY <2>1 DEF TextsAreSound, InOrder
    <2>3. QED
      BY <1>0, <1>1, <2>1, <2>2 DEF StreamInv
  <1>2. ASSUME NEW k \in {"delta", "progress", "final"}, Logs(k)
        PROVE  /\ Len(log') = Len(log) + 1
               /\ \A i \in DOMAIN log : i \in DOMAIN log' /\ log'[i] = log[i]
               /\ log' # <<>>
               /\ TextsAreSound'
    <2>0. PICK n \in Nat : n = Len(log)
      BY <1>0
    <2> DEFINE e == [kind |-> k, text |-> IF k = "delta" THEN Append(log[n].text, n + 1)
                                                         ELSE log[n].text]
    <2>1. log # <<>> /\ n > 0 /\ n \in DOMAIN log
      BY <1>0, <1>2, <2>0 DEF Logs, Running
    <2>2. /\ Len(log') = n + 1 /\ DOMAIN log' = 1..(n + 1) /\ log'[n + 1] = e
          /\ \A i \in 1..n : log'[i] = log[i]
      BY <1>0, <1>2, <2>0 DEF Logs
    <2>3. log[n].text \in Seq(1..MaxEvents) /\ InOrder(log[n].text, n)
      <3>1. log[n] \in Logged
        BY <1>0, <2>1
      <3>2. QED
        BY <2>1, <3>1 DEF StreamInv, TextsAreSound, Logged, Texts
    <2>4. InOrder(e.text, n + 1)
      <3>1. CASE k = "delta"
        <4> DEFINE t == log[n].text
        <4>1. /\ e.text = Append(t, n + 1) /\ Len(t) \in Nat /\ Len(e.text) = Len(t) + 1
              /\ \A i \in 1..Len(t) : e.text[i] = t[i] /\ t[i] \in Nat
              /\ e.text[Len(t) + 1] = n + 1
          BY <2>3, <3>1
        <4>2. Len(t) > 0 => t[Len(t)] <= n
          BY <2>3, <4>1 DEF InOrder
        <4>3. \A i \in 2..Len(e.text) : e.text[i - 1] < e.text[i]
          <5> SUFFICES ASSUME NEW i \in 2..Len(e.text) PROVE e.text[i - 1] < e.text[i]
            OBVIOUS
          <5>1. CASE i = Len(t) + 1
            <6>1. i - 1 = Len(t) /\ Len(t) \in 1..Len(t)
              BY <4>1, <5>1
            <6>2. e.text[i - 1] = t[Len(t)] /\ e.text[i] = n + 1 /\ t[Len(t)] \in Nat
              BY <4>1, <5>1, <6>1
            <6>3. t[Len(t)] <= n
              BY <4>2, <6>1
            <6>4. QED
              BY <6>2, <6>3
          <5>2. CASE i <= Len(t)
            <6>1. i - 1 \in 1..Len(t) /\ i \in 1..Len(t) /\ i \in 2..Len(t)
              BY <4>1, <5>2
            <6>2. t[i - 1] < t[i]
              BY <2>3, <6>1 DEF InOrder
            <6>3. QED
              BY <4>1, <6>1, <6>2
          <5>3. QED
            BY <4>1, <5>1, <5>2
        <4>4. QED
          BY <4>1, <4>3 DEF InOrder
      <3>2. CASE k # "delta"
        <4>1. e.text = log[n].text
          BY <3>2
        <4>2. \A i \in 1..Len(log[n].text) : log[n].text[i] \in Nat
          BY <2>3
        <4>3. \A i \in 2..Len(e.text) : e.text[i - 1] < e.text[i]
          BY <2>3, <4>1 DEF InOrder
        <4>4. e.text # <<>> => e.text[Len(e.text)] <= n + 1
          BY <2>3, <4>1, <4>2 DEF InOrder
        <4>5. QED
          BY <4>3, <4>4 DEF InOrder
      <3>3. QED
        BY <3>1, <3>2
    <2>5. Grown(log', n + 1)
      <3>1. log'[n + 1 - 1] = log[n]
        BY <1>0, <2>0, <2>1, <2>2
      <3>2. QED
        BY <2>2, <3>1 DEF Grown
    <2>6. ASSUME NEW i \in DOMAIN log PROVE (i > 1 => Grown(log', i)) /\ InOrder(log'[i].text, i)
      <3>1. /\ i \in 1..n /\ (i > 1 => i - 1 \in 1..n)
            /\ i > 1 => Grown(log, i)
            /\ InOrder(log[i].text, i)
        BY <1>0, <2>0 DEF StreamInv, TextsAreSound
      <3>2. QED
        BY <2>2, <3>1 DEF Grown
    <2>7. TextsAreSound'
      <3>1. ASSUME NEW i \in DOMAIN log' PROVE (i > 1 => Grown(log', i)) /\ InOrder(log'[i].text, i)
        <4>1. CASE i = n + 1
          BY <2>2, <2>4, <2>5, <4>1
        <4>2. CASE i # n + 1
          BY <1>0, <2>0, <2>2, <2>6, <4>2
        <4>3. QED
          BY <4>1, <4>2
      <3>2. QED
        BY <3>1 DEF TextsAreSound
    <2>8. QED
      BY <1>0, <2>0, <2>2, <2>7
  <1>3. CASE Logs("delta") \/ Logs("progress") \/ Logs("final")
    <2>1. Running /\ saved' = saved
      BY <1>3 DEF Logs
    <2>2. QED
      BY <1>0, <1>2, <1>3, <2>1
  <1>4. CASE /\ UNCHANGED log
             /\ registered' = registered \/ registered' = FALSE
             /\ saved' = saved \/ (saved = "no" /\ log # <<>>)
    <2>1. TextsAreSound'
      BY <1>4 DEF StreamInv, TextsAreSound, Grown
    <2>2. QED
      BY <1>0, <1>4, <2>1 DEF StreamInv, Running, Terminal
  <1>5. QED
    BY <1>1, <1>3, <1>4, LogCases

-----------------------------------------------------------------------------
(* What a step of the server does to one connection.                       *)

(* A connection receives nothing in the step.                              *)
Rests(c) == /\ sent'[c] = sent[c]
            /\ \/ phase'[c] = phase[c]
               \/ phase[c] # "cut" /\ (phase'[c] = "poll" => c = Author)

(* A connection is lost, with what it had received.                        *)
Breaks(c) == phase'[c] = "cut" /\ sent'[c] = <<>>

(* A connection receives one event more.                                   *)
Yields(c, e) == /\ sent'[c] = Append(sent[c], e)
                /\ phase[c] \in {"snapshot", "finale", "poll"}
                /\ e.kind = "delta" => e.text = <<e.id>>
                /\ phase[c] = "snapshot" => e.id = Len(log)

(* These are all the steps a connection takes.                             *)
LEMMA ConnectionCases ==
    ASSUME JobInv, [StreamNext]_streamVars, NEW c \in Connections
    PROVE  Rests(c) \/ Breaks(c) \/ \E e : Yields(c, e)
  <1>0. /\ phase \in [Connections -> Phases]
        /\ sent \in [Connections -> Seq(Events)]
    BY StreamFacts DEF StreamTypeOK
  <1>1. CASE Post \/ Launch
    BY <1>0, <1>1 DEF Post, Launch, Rests, Phases
  <1>2. ASSUME UNCHANGED connVars PROVE Rests(c)
    BY <1>2 DEF Rests, connVars
  <1>3. CASE (Job /\ ~Launch) \/ UNCHANGED streamVars
    BY <1>3 DEF Job, Publish, SaveAnswer, PublishFinal,
                Expire, connVars, streamVars, Rests
  <1>4. CASE Crash
    BY <1>4 DEF Crash, Disconnect, Rests, Breaks
  <1>5. ASSUME NEW d \in Connections, Cut(d) PROVE Rests(c) \/ Breaks(c)
    BY <1>5 DEF Cut, Disconnect, Rests, Breaks
  <1>6. ASSUME NEW d \in Connections, OpenResume(d) \/ Fetch(d) \/ End(d)
        PROVE  Rests(c)
    BY <1>0, <1>6 DEF OpenResume, Fetch, End, Rests
  <1>7. ASSUME NEW d \in Connections, d # c,
               SendSnapshot(d) \/ SendFinale(d) \/ YieldNext(d)
        PROVE  Rests(c)
    BY <1>0, <1>7 DEF SendSnapshot, SendFinale, YieldNext, Yield, Rests
  <1>8. CASE SendSnapshot(c)
    <2>1. Yields(c, Event("snapshot", Len(log), TextUpTo(Len(log))))
      BY <1>0, <1>8 DEF SendSnapshot, Yield, Event, Yields
    <2>2. QED
      BY <2>1
  <1>9. CASE SendFinale(c)
    <2>1. Yields(c, Event("final", Len(log), <<>>))
      BY <1>0, <1>9 DEF SendFinale, Yield, Event, Yields
    <2>2. QED
      BY <2>1
  <1>10. CASE YieldNext(c)
    <2> DEFINE n == cursor[c] + 1
               e == Event(log[n].kind, n, IF log[n].kind = "delta" THEN <<n>> ELSE <<>>)
    <2>1. Yields(c, e)
      BY <1>0, <1>10 DEF YieldNext, Yield, Event, Yields
    <2>2. QED
      BY <2>1
  <1>11. QED
    BY <1>1, <1>3, <1>4, <1>5, <1>6, <1>7, <1>8, <1>9, <1>10
       DEF StreamNext, Generator, Job

(* A connection that is not cut has received all it had before, and the    *)
(* snapshot of a resumed stream is as new as the log.                      *)
Continued(c) ==
    \/ phase'[c] = "cut"
    \/ /\ phase[c] # "cut"
       /\ \A i \in DOMAIN sent[c] : i \in DOMAIN sent'[c] /\ sent'[c][i] = sent[c][i]
       /\ (sent[c] = <<>> /\ sent'[c] # <<>> /\ c # Author) => sent'[c][1].id = Len(log)

(* Whatever the server does, a connection goes on from what it had         *)
(* received, and what the tab needs of the streams is kept.                *)
LEMMA ConnectionAdvances ==
    ASSUME JobInv, StreamInv, [StreamNext]_streamVars, NEW c \in Connections
    PROVE  /\ Continued(c)
           /\ \A i \in DOMAIN sent'[c] :
                 sent'[c][i].kind = "delta" => sent'[c][i].text = <<sent'[c][i].id>>
           /\ (c # Author /\ phase'[c] = "poll") => sent'[c] # <<>>
  <1> DEFINE s == sent[c]
  <1>0. /\ s \in Seq(Events) /\ DOMAIN s = 1..Len(s) /\ Len(s) \in Nat
        /\ phase[c] = "cut" => s = <<>>
        /\ (phase[c] = "finale" \/ (c # Author /\ phase[c] = "poll")) => s # <<>>
        /\ \A i \in DOMAIN s : s[i].kind = "delta" => s[i].text = <<s[i].id>>
    BY StreamFacts DEF StreamTypeOK, StreamInv, DeltasAreSmall, SnapshotFirst
  <1>1. CASE Rests(c)
    BY <1>0, <1>1 DEF Rests, Continued
  <1>2. CASE Breaks(c)
    BY <1>2 DEF Breaks, Continued
  <1>3. ASSUME NEW e, Yields(c, e)
        PROVE  /\ Continued(c)
               /\ \A i \in DOMAIN sent'[c] :
                     sent'[c][i].kind = "delta" => sent'[c][i].text = <<sent'[c][i].id>>
               /\ sent'[c] # <<>>
    <2>1. /\ DOMAIN sent'[c] = 1..Len(s) + 1 /\ sent'[c][Len(s) + 1] = e
          /\ \A i \in DOMAIN s : sent'[c][i] = s[i] /\ i \in DOMAIN sent'[c]
          /\ sent'[c] # <<>>
      <3>1. sent'[c] = Append(s, e)
        BY <1>3 DEF Yields
      <3>2. s \in Seq(Events \cup {e}) /\ e \in Events \cup {e}
        BY <1>0
      <3>3. QED
        BY <1>0, <3>1, <3>2, AppendProperties
    <2>2. (s = <<>> /\ c # Author) => sent'[c][1].id = Len(log)
      BY <1>0, <1>3, <2>1 DEF Yields
    <2>3. QED
      BY <1>0, <1>3, <2>1, <2>2 DEF Yields, Continued
  <1>4. QED
    BY <1>1, <1>2, <1>3, ConnectionCases

(* The facts about the stream are kept.                                    *)
LEMMA StreamInvKept ==
    ASSUME JobInv, StreamInv, [StreamNext]_streamVars
    PROVE  StreamInv'
  BY LogAdvances, ConnectionAdvances DEF StreamInv, DeltasAreSmall, SnapshotFirst

-----------------------------------------------------------------------------
(* The tab while the server moves.                                         *)

(* A step of the server keeps what the tab builds on.                      *)
LEMMA StreamGoesOn ==
    ASSUME StreamIInv, [StreamNext]_streamVars
    PROVE  /\ StreamIInv' /\ StreamTypeOK'
           /\ Len(log) \in Nat /\ Len(log') \in Nat /\ Len(log) <= Len(log')
           /\ \A n \in 0..Len(log) : TextUpTo(n)' = TextUpTo(n)
           /\ saved = "yes" => saved' = "yes"
           /\ (log # <<>> /\ ~Running) => (log' # <<>> /\ ~Running')
  <1>1. StreamIInv'
    BY StreamKept, StreamInvKept DEF StreamIInv
  <1>4. StreamTypeOK'
    <2>1. JobInv' => StreamTypeOK'
      BY StreamTypes, PTL
    <2>2. QED
      BY <1>1, <2>1 DEF StreamIInv
  <1>2. log \in Seq(Logged)
    BY StreamFacts DEF StreamIInv, StreamTypeOK
  <1>3. \A n \in 0..Len(log) : n # 0 => n \in DOMAIN log
    BY <1>2
  <1>5. QED
    BY <1>1, <1>3, <1>4, LogAdvances DEF StreamIInv, TextUpTo

(* The history request is untouched, dropped, made, or made again.         *)
FetchRests == \/ fetch' = fetch
              \/ fetch' = NoFetch
              \/ \E retry \in BOOLEAN : Ask(retry)
              \/ fetch.step \in {"listed", "found"} /\ fetch' = [fetch EXCEPT !.step = "asked"]

(* A reply on its way stays true while the server goes on.                 *)
LEMMA RepliesStay ==
    ASSUME IInv, [StreamNext]_streamVars, FetchRests
    PROVE  /\ Replies'
           /\ Quiet => Quiet'
           /\ fetch' \in [step : {"idle", "asked", "listed", "found", "replied"},
                          retry : BOOLEAN, answer : BOOLEAN, active : BOOLEAN,
                          text : Texts, id : 0..MaxEvents]
  <1> DEFINE F == [step : {"idle", "asked", "listed", "found", "replied"},
                   retry : BOOLEAN, answer : BOOLEAN, active : BOOLEAN,
                   text : Texts, id : 0..MaxEvents]
  <1>1. /\ Len(log) \in Nat /\ Len(log') \in Nat /\ Len(log) <= Len(log')
        /\ \A n \in 0..Len(log) : TextUpTo(n)' = TextUpTo(n)
        /\ saved = "yes" => saved' = "yes"
        /\ (log # <<>> /\ ~Running) => (log' # <<>> /\ ~Running')
    BY StreamGoesOn DEF IInv
  <1>2. fetch \in F /\ fetch.id \in Nat
    BY DEF IInv, TabTypes
  <1>3. (saved = "yes" => log # <<>>)
    BY DEF IInv, StreamIInv, StreamInv
  <1>4. /\ fetch.active => fetch.id <= Len(log) /\ fetch.text = TextUpTo(fetch.id)
        /\ fetch.answer => saved = "yes"
        /\ (fetch.step = "replied" /\ ~fetch.active /\ fetch.answer) => ~Running
    BY DEF IInv, Replies
  <1>5. fetch.active => fetch.id \in 0..Len(log)
    BY <1>1, <1>2, <1>4
  <1>6. CASE fetch' = fetch
    BY <1>1, <1>2, <1>3, <1>4, <1>5, <1>6 DEF Replies, Quiet
  <1>7. CASE fetch' = NoFetch
    <2>1. NoFetch \in F
      BY DEF NoFetch, Texts
    <2>2. QED
      BY <1>1, <1>7, <2>1 DEF Replies, Quiet, NoFetch
  <1>8. ASSUME NEW retry \in BOOLEAN, Ask(retry)
        PROVE  Replies' /\ (Quiet => Quiet') /\ fetch' \in F
    <2>1. fetch' \in F
      <3>1. fetch' = [step |-> "asked", retry |-> retry, answer |-> FALSE,
                      active |-> FALSE, text |-> <<>>, id |-> 0]
        BY <1>8 DEF Ask, NoFetch
      <3>2. <<>> \in Texts /\ 0 \in 0..MaxEvents
        BY DEF Texts
      <3>3. QED
        BY <3>1, <3>2
    <2>2. /\ fetch'.step = "asked" /\ ~fetch'.active /\ ~fetch'.answer
      BY <1>8 DEF Ask, NoFetch
    <2>3. QED
      BY <1>1, <2>1, <2>2 DEF Replies, Quiet
  <1>9. CASE fetch.step \in {"listed", "found"} /\ fetch' = [fetch EXCEPT !.step = "asked"]
    <2>1. /\ fetch' \in F /\ fetch'.step = "asked" /\ fetch'.active = fetch.active
          /\ fetch'.answer = fetch.answer /\ fetch'.id = fetch.id /\ fetch'.text = fetch.text
      BY <1>2, <1>9
    <2>2. QED
      BY <1>1, <1>4, <1>5, <2>1 DEF Replies, Quiet
  <1>10. QED
    BY <1>6, <1>7, <1>8, <1>9 DEF FetchRests

(* What the tab shows stands while it does nothing but fetch.              *)
LEMMA TabStays ==
    ASSUME IInv, [StreamNext]_streamVars, Quiet => Quiet',
           UNCHANGED <<bubble, request, target, read, halt, stopped>>
    PROVE  /\ Places' /\ Ordered'
           /\ ~stopped' => Faithful' /\ Following'
  <1>1. /\ StreamIInv /\ StreamTypeOK'
        /\ Len(log) \in Nat /\ Len(log') \in Nat /\ Len(log) <= Len(log')
        /\ \A n \in 0..Len(log) : TextUpTo(n)' = TextUpTo(n)
    BY StreamGoesOn DEF IInv
  <1>2. Places' /\ Ordered'
    BY DEF IInv, Places, Ordered, Shown
  <1>3. \A slot \in Slots : bubble[slot].id \in Nat
    BY DEF IInv, TabTypes, Bubbles
  <1>4. ASSUME ~stopped' PROVE Faithful'
    <2>1. Faithful
      BY <1>4 DEF IInv
    <2>2. LoadingSlots' = LoadingSlots /\ LoadingSlots \subseteq Slots
      BY DEF LoadingSlots
    <2>3. \A slot \in LoadingSlots : bubble[slot].id \in 0..Len(log)
      BY <1>1, <1>3, <2>1, <2>2 DEF Faithful
    <2>4. QED
      BY <1>1, <1>3, <2>1, <2>2, <2>3 DEF Faithful
  <1>5. ASSUME ~stopped', request # None PROVE Following'
    <2>1. Faithful /\ Following /\ request \in Connections /\ target \in Slots
      BY <1>5 DEF IInv, TabTypes
    <2>2. CASE ~Shown(target) /\ Quiet
      BY <2>2 DEF Following, Shown
    <2>3. CASE bubble[target].status = "loading"
      <3>1. Continued(request)
        BY <1>1, <2>1, ConnectionAdvances DEF StreamIInv
      <3>2. CASE phase'[request] = "cut"
        BY <2>3, <3>2 DEF Following
      <3>3. ASSUME phase'[request] # "cut" PROVE Following'
        <4>1. /\ phase[request] # "cut"
              /\ \A i \in DOMAIN sent[request] :
                    i \in DOMAIN sent'[request] /\ sent'[request][i] = sent[request][i]
              /\ (sent[request] = <<>> /\ sent'[request] # <<>> /\ request # Author)
                    => sent'[request][1].id = Len(log)
          BY <3>1, <3>3 DEF Continued
        <4>2. /\ sent[request] \in Seq(Events)
              /\ sent'[request] \in Seq(Events)
          BY <1>1, <2>1, StreamFacts DEF StreamIInv, StreamTypeOK
        <4>3. CASE read \in DOMAIN sent[request] /\ bubble[target].id = sent[request][read].id
          BY <2>3, <4>1, <4>3 DEF Following
        <4>4. CASE /\ read = 0
                   /\ request = Author => bubble[target].id = 0
                   /\ sent[request] # <<>> => bubble[target].id <= sent[request][1].id
          <5>1. ASSUME sent'[request] # <<>> PROVE bubble[target].id <= sent'[request][1].id
            <6>1. CASE sent[request] # <<>>
              <7>1. 1 \in DOMAIN sent[request]
                BY <4>2, <6>1
              <7>2. QED
                BY <4>1, <4>4, <6>1, <7>1
            <6>2. CASE sent[request] = <<>> /\ request # Author
              <7>1. target \in LoadingSlots
                BY <2>1, <2>3 DEF LoadingSlots
              <7>2. QED
                BY <2>1, <4>1, <5>1, <6>2, <7>1 DEF Faithful
            <6>3. CASE request = Author
              <7>1. sent'[request][1] \in Events
                BY <4>2, <5>1
              <7>2. QED
                BY <4>4, <6>3, <7>1 DEF Events
            <6>4. QED
              BY <6>1, <6>2, <6>3
          <5>2. QED
            BY <2>3, <4>4, <5>1 DEF Following
        <4>5. QED
          BY <2>1, <2>2, <4>1, <4>3, <4>4, <1>5 DEF Following
      <3>4. QED
        BY <3>2, <3>3
    <2>4. QED
      BY <1>5, <2>1, <2>2, <2>3 DEF Following
  <1>6. QED
    BY <1>2, <1>4, <1>5 DEF Following

-----------------------------------------------------------------------------
(* The steps of the tab, one by one.                                       *)

(* Every step of the tab and its server is a step of the server, or none.  *)
LEMMA StepsOfTheServer ==
    ASSUME IInv, [Next]_vars
    PROVE  [StreamNext]_streamVars
  <1>0. request # None => request \in Connections
    BY DEF IInv, TabTypes
  <1>1. CASE Close
    BY <1>0, <1>1 DEF Close, StreamNext
  <1>2. CASE GiveUp \/ Reload \/ ReceiveFinal \/ StreamFails
    BY <1>1, <1>2 DEF GiveUp, Reload, ReceiveFinal, StreamFails
  <1>3. CASE ServerStep \/ ServerCrash \/ SendMessage
    BY <1>3 DEF ServerStep, ServerCrash, SendMessage, StreamNext
  <1>4. CASE Visit \/ StopLate \/ StopLateReturns \/ TimerFires \/ FetchFails \/ KeepLocal
    BY <1>4 DEF Visit, StopLate, StopLateReturns, TimerFires, FetchFails, KeepLocal
  <1>5. CASE ReceiveSnapshot \/ ReceiveDelta \/ ReceiveProgress
    BY <1>5 DEF ReceiveSnapshot, ReceiveDelta, ReceiveProgress
  <1>6. CASE HistoryListed \/ ActiveJobLookedUp \/ ActiveJobRead \/ ApplyFinished \/ ApplyActive
    BY <1>6 DEF HistoryListed, ActiveJobLookedUp, ActiveJobRead, ApplyFinished, ApplyActive
  <1>7. CASE UNCHANGED vars
    BY <1>7 DEF vars, streamVars
  <1>8. QED
    BY <1>2, <1>3, <1>4, <1>5, <1>6, <1>7 DEF Next, User, Stream, History

(* The server moves, or the tab asks for the history.                      *)
LEMMA WaitingPreserves ==
    ASSUME IInv, [Next]_vars,
           \/ ServerStep \/ ServerCrash \/ UNCHANGED vars
           \/ Visit \/ TimerFires \/ FetchFails \/ KeepLocal
    PROVE  IInv'
  <1>1. /\ UNCHANGED <<bubble, fromHistory, request, target, read, halt, stopped>>
        /\ timer' \in BOOLEAN
        /\ FetchRests
    BY DEF ServerStep, ServerCrash, Visit, TimerFires, FetchFails, KeepLocal, ClientUnchanged,
           shownVars, followVars, haltVars, vars, FetchRests, IInv, TabTypes
  <1>2. [StreamNext]_streamVars
    BY StepsOfTheServer
  <1>3. StreamIInv'
    BY <1>2, StreamGoesOn DEF IInv
  <1>4. QED
    BY <1>1, <1>2, <1>3, RepliesStay, TabStays DEF IInv, TabTypes

(* The server answers a history request.                                   *)
LEMMA HistoryReadPreserves ==
    ASSUME IInv, [Next]_vars, HistoryListed \/ ActiveJobLookedUp \/ ActiveJobRead
    PROVE  IInv'
  <1> DEFINE F == [step : {"idle", "asked", "listed", "found", "replied"},
                   retry : BOOLEAN, answer : BOOLEAN, active : BOOLEAN,
                   text : Texts, id : 0..MaxEvents]
  <1>1. /\ UNCHANGED <<bubble, fromHistory, request, target, read, halt, stopped, timer>>
        /\ UNCHANGED streamVars
    BY DEF HistoryListed, ActiveJobLookedUp, ActiveJobRead, shownVars, followVars, haltVars
  <1>2. [StreamNext]_streamVars
    BY <1>1
  <1>3. StreamIInv'
    BY <1>2, StreamGoesOn DEF IInv
  <1>4. UNCHANGED <<log, saved, registered>> /\ (Running' <=> Running)
        /\ \A n : TextUpTo(n)' = TextUpTo(n)
    BY <1>1 DEF streamVars, Running, Terminal, TextUpTo
  <1>5. fetch \in F /\ Replies
    BY DEF IInv, TabTypes
  <1>6. CASE HistoryListed
    <2>1. /\ fetch' = [fetch EXCEPT !.step = "listed", !.answer = (saved = "yes")]
      BY <1>6 DEF HistoryListed
    <2>2. /\ fetch' \in F /\ fetch'.step = "listed" /\ fetch'.active = fetch.active
          /\ fetch'.id = fetch.id /\ fetch'.text = fetch.text
          /\ fetch'.answer => saved = "yes"
      BY <1>5, <2>1
    <2>3. QED
      BY <1>1, <1>2, <1>3, <1>4, <1>5, <2>2, TabStays DEF IInv, TabTypes, Replies, Quiet
  <1>7. CASE ActiveJobLookedUp
    <2>1. /\ fetch' \in F /\ fetch'.active = fetch.active /\ fetch'.answer = fetch.answer
          /\ fetch'.id = fetch.id /\ fetch'.text = fetch.text
          /\ fetch'.step = IF Running THEN "found" ELSE "replied"
      BY <1>5, <1>7 DEF ActiveJobLookedUp
    <2>2. QED
      BY <1>1, <1>2, <1>3, <1>4, <1>5, <2>1, TabStays DEF IInv, TabTypes, Replies, Quiet
  <1>8. CASE ActiveJobRead
    <2> DEFINE t == TextUpTo(Len(log))
    <2>1. /\ log \in Seq(Logged) /\ Len(log) \in Nat /\ Len(log) <= MaxEvents
      BY StreamFacts DEF IInv, StreamIInv, StreamTypeOK
    <2>2. t \in Texts /\ Len(log) \in 0..MaxEvents
      <3>1. Len(log) # 0 => log[Len(log)] \in Logged
        BY <2>1
      <3>2. QED
        BY <2>1, <3>1 DEF TextUpTo, Logged, Texts
    <2>3. fetch' = [fetch EXCEPT !.step = "replied", !.active = TRUE, !.text = t, !.id = Len(log)]
      BY <1>8 DEF ActiveJobRead
    <2>4. /\ fetch' \in F /\ fetch'.step = "replied" /\ fetch'.active
          /\ fetch'.answer = fetch.answer /\ fetch'.id = Len(log) /\ fetch'.text = t
      BY <1>5, <2>2, <2>3
    <2>5. Replies'
      BY <1>4, <1>5, <2>1, <2>4 DEF Replies
    <2>6. ~Quiet
      BY <1>8 DEF ActiveJobRead, Quiet
    <2>7. QED
      BY <1>1, <1>2, <1>3, <2>4, <2>5, <2>6, TabStays DEF IInv, TabTypes
  <1>9. QED
    BY <1>6, <1>7, <1>8

(* A message is put into one slot.                                         *)
LEMMA PutEffect ==
    ASSUME TabTypes, NEW slot \in Slots, NEW b, Put(slot, b)
    PROVE  /\ bubble'[slot] = b
           /\ \A other \in Slots \ {slot} : bubble'[other] = bubble[other]
           /\ b \in Bubbles => bubble' \in [Slots -> Bubbles]
  BY DEF TabTypes, Put

(* An empty slot is no message, and so shown by nothing.                   *)
LEMMA NothingIsFine ==
    /\ Nothing \in Bubbles /\ InOrder(Nothing.text, Nothing.id)
    /\ Nothing.status = "none"
  <1>1. Nothing = [status |-> "none", text |-> <<>>, id |-> 0, known |-> FALSE]
    BY DEF Nothing, Bubble
  <1>2. <<>> \in Texts /\ 0 \in 0..MaxEvents
    BY DEF Texts
  <1>3. Nothing \in Bubbles
    BY <1>1, <1>2 DEF Bubbles
  <1>4. QED
    BY <1>1, <1>3 DEF InOrder

(* A step that lets go of the stream and starts no message.                *)
LEMMA ClosingPreserves ==
    ASSUME IInv, [Next]_vars, FetchRests,
           request' = None, target' \in Slots, read' \in Nat,
           fromHistory' \in BOOLEAN, timer' \in BOOLEAN,
           stopped' = stopped, halt' = halt \/ halt' = Nothing,
           bubble' \in [Slots -> Bubbles],
           bubble'["pending"].status # "loading",
           \A slot \in Slots :
              \/ bubble'[slot] = bubble[slot]
              \/ /\ bubble'[slot].status # "loading"
                 /\ InOrder(bubble'[slot].text, bubble'[slot].id)
                 /\ (slot = "active" /\ bubble'[slot].status # "none") => bubble'[slot].known
    PROVE  IInv'
  <1>1. [StreamNext]_streamVars
    BY StepsOfTheServer
  <1>2. /\ StreamIInv'
        /\ Len(log) \in Nat /\ Len(log') \in Nat /\ Len(log) <= Len(log')
        /\ \A n \in 0..Len(log) : TextUpTo(n)' = TextUpTo(n)
    BY <1>1, StreamGoesOn DEF IInv
  <1>3. None \notin Connections /\ Author \in Connections /\ None # Author
    BY NoneAssumption
  <1>4. halt' \in Bubbles
    BY NothingIsFine DEF IInv, TabTypes
  <1>5. TabTypes' /\ Replies'
    BY <1>1, <1>4, RepliesStay DEF IInv, TabTypes
  <1>6. Places'
    <2>1. Places
      BY DEF IInv
    <2>2. {"pending", "active", "extra"} = Slots
      BY DEF Slots
    <2>3. bubble'["extra"].status # "loading"
      BY <2>1, <2>2 DEF Places
    <2>4. Shown("active")' => bubble'["active"].known
      BY <2>1, <2>2 DEF Places, Shown
    <2>5. halt' # Nothing => halt'.known /\ stopped'
      BY <2>1 DEF Places
    <2>6. QED
      BY <1>3, <2>3, <2>4, <2>5 DEF Places
  <1>7. Ordered'
    <2>1. InOrder(halt'.text, halt'.id)
      BY NothingIsFine DEF IInv, Ordered
    <2>2. QED
      BY <2>1 DEF IInv, Ordered
  <1>8. ASSUME ~stopped' PROVE Faithful' /\ Following'
    <2>1. Faithful
      BY <1>8 DEF IInv
    <2>2. ASSUME NEW slot \in LoadingSlots'
          PROVE  slot \in LoadingSlots /\ bubble'[slot] = bubble[slot] /\ bubble[slot].id \in Nat
      BY <2>2 DEF LoadingSlots, IInv, TabTypes, Bubbles
    <2>3. ASSUME NEW slot \in LoadingSlots'
          PROVE  /\ bubble'[slot].id <= Len(log')
                 /\ bubble'[slot].text = TextUpTo(bubble[slot].id)'
      <3>1. bubble[slot].id <= Len(log) /\ bubble[slot].text = TextUpTo(bubble[slot].id)
        BY <2>1, <2>2 DEF Faithful
      <3>2. bubble[slot].id \in 0..Len(log)
        BY <1>2, <2>2, <3>1
      <3>3. QED
        BY <1>2, <2>2, <3>1, <3>2
    <2>4. QED
      BY <2>3 DEF Faithful, Following
  <1>9. QED
    BY <1>2, <1>5, <1>6, <1>7, <1>8 DEF IInv

(* The stream is closed, by the student, the clock or the network.         *)
LEMMA ClosesPreserve ==
    ASSUME IInv, [Next]_vars, Reload \/ GiveUp \/ ReceiveFinal \/ StreamFails
    PROVE  IInv'
  <1>0. /\ TabTypes /\ Places /\ Ordered
        /\ Slots = {"pending", "active", "extra"}
        /\ bubble \in [Slots -> Bubbles] /\ target \in Slots
        /\ fetch' = fetch => FetchRests
        /\ None # Author
    BY NoneAssumption DEF IInv, Slots, TabTypes, FetchRests
  <1>1. Close => request' = None /\ target' \in Slots /\ read' \in Nat
    BY DEF Close, Slots
  <1>2. /\ Nothing \in Bubbles /\ InOrder(Nothing.text, Nothing.id)
        /\ Nothing.status = "none"
    BY NothingIsFine
  <1>3. CASE Reload
    <2>1. bubble' = [slot \in Slots |-> Nothing] /\ FetchRests
      BY <1>3 DEF Reload, FetchRests
    <2>2. QED
      BY <1>0, <1>1, <1>2, <1>3, <2>1, ClosingPreserves DEF Reload
  <1> DEFINE over(slot) == [bubble[slot] EXCEPT !.status = "over"]
             lost == [Nothing EXCEPT !.status = "over"]
             final == Bubble("final", <<>>, bubble[target].id, TRUE)
  <1>4. /\ \A slot \in Slots : /\ over(slot) \in Bubbles /\ over(slot).status = "over"
                               /\ InOrder(over(slot).text, over(slot).id)
                               /\ over(slot).known = bubble[slot].known
        /\ lost \in Bubbles /\ lost.status = "over" /\ InOrder(lost.text, lost.id)
        /\ final \in Bubbles /\ final.status = "final" /\ InOrder(final.text, final.id)
        /\ final.known
    <2>1. ASSUME NEW slot \in Slots
          PROVE  /\ over(slot) \in Bubbles /\ over(slot).status = "over"
                 /\ InOrder(over(slot).text, over(slot).id)
                 /\ over(slot).known = bubble[slot].known
      <3>1. bubble[slot] \in Bubbles /\ InOrder(bubble[slot].text, bubble[slot].id)
        BY <1>0 DEF Ordered
      <3>2. /\ over(slot).text = bubble[slot].text /\ over(slot).id = bubble[slot].id
            /\ over(slot).known = bubble[slot].known /\ over(slot).status = "over"
            /\ over(slot) \in Bubbles
        BY <3>1 DEF Bubbles
      <3>3. QED
        BY <3>1, <3>2
    <2>2. lost \in Bubbles /\ lost.status = "over" /\ InOrder(lost.text, lost.id)
      <3>1. lost.text = Nothing.text /\ lost.id = Nothing.id /\ lost.status = "over" /\ lost \in Bubbles
        BY <1>2 DEF Bubbles
      <3>2. QED
        BY <1>2, <3>1
    <2>3. /\ final \in Bubbles /\ final.status = "final" /\ InOrder(final.text, final.id)
          /\ final.known
      <3>1. <<>> \in Texts /\ bubble[target].id \in 0..MaxEvents
        BY <1>0 DEF Bubbles, Texts
      <3>3. final \in Bubbles
        BY <3>1 DEF Bubbles, Bubble
      <3>4. InOrder(final.text, final.id) /\ final.status = "final" /\ final.known
        BY DEF InOrder, Bubble
      <3>5. QED
        BY <3>3, <3>4
    <2>4. QED
      BY <2>1, <2>2, <2>3
  <1>5. bubble["pending"].status = "loading" => target = "pending"
    BY <1>0 DEF Places
  <1>6. ASSUME NEW slot \in Slots, NEW b \in Bubbles, Put(slot, b),
               b.status \in {"over", "final"}, InOrder(b.text, b.id),
               slot = "active" => b.known,
               Shown(target) => slot = target
        PROVE  /\ bubble' \in [Slots -> Bubbles]
               /\ bubble'["pending"].status # "loading"
               /\ \A q \in Slots :
                     \/ bubble'[q] = bubble[q]
                     \/ /\ bubble'[q].status # "loading"
                        /\ InOrder(bubble'[q].text, bubble'[q].id)
                        /\ (q = "active" /\ bubble'[q].status # "none") => bubble'[q].known
    <2>1. /\ bubble'[slot] = b /\ bubble' \in [Slots -> Bubbles]
          /\ \A q \in Slots \ {slot} : bubble'[q] = bubble[q]
      BY <1>0, <1>6, PutEffect
    <2>2. bubble["pending"].status = "loading" => slot = "pending"
      BY <1>5, <1>6 DEF Shown
    <2>3. QED
      BY <1>0, <1>6, <2>1, <2>2
  <1>7. CASE GiveUp
    <2>1. CASE Shown(target) /\ Put(target, over(target))
      <3>1. target = "active" => over(target).known
        BY <1>0, <1>4, <2>1 DEF Places
      <3>2. QED
        BY <1>0, <1>1, <1>4, <1>6, <1>7, <2>1, <3>1, ClosingPreserves
           DEF GiveUp, haltVars, IInv, TabTypes
    <2>2. CASE ~Shown(target) /\ UNCHANGED bubble
      <3>1. bubble["pending"].status # "loading"
        BY <1>5, <2>2 DEF Shown
      <3>2. QED
        BY <1>0, <1>1, <1>7, <2>2, <3>1, ClosingPreserves DEF GiveUp, haltVars, IInv, TabTypes
    <2>3. CASE ~Shown(target) /\ Put("extra", lost)
      BY <1>0, <1>1, <1>4, <1>6, <1>7, <2>3, ClosingPreserves DEF GiveUp, haltVars, IInv, TabTypes
    <2>4. QED
      BY <1>7, <2>1, <2>2, <2>3 DEF GiveUp
  <1>8. CASE ReceiveFinal
    <2> DEFINE slot == IF Shown(target) THEN target ELSE "extra"
    <2>1. slot \in Slots /\ Put(slot, final) /\ (Shown(target) => slot = target)
      BY <1>0, <1>8 DEF ReceiveFinal
    <2>2. QED
      BY <1>0, <1>1, <1>4, <1>6, <1>8, <2>1, ClosingPreserves
         DEF ReceiveFinal, haltVars, IInv, TabTypes
  <1>9. CASE StreamFails
    <2>1. CASE Shown(target) /\ Put(target, over(target)) /\ UNCHANGED timer
      <3>1. target = "active" => over(target).known
        BY <1>0, <1>4, <2>1 DEF Places
      <3>2. QED
        BY <1>0, <1>1, <1>4, <1>6, <1>9, <2>1, <3>1, ClosingPreserves
           DEF StreamFails, haltVars, IInv, TabTypes
    <2>2. CASE ~Shown(target) /\ Put("extra", lost) /\ UNCHANGED timer
      BY <1>0, <1>1, <1>4, <1>6, <1>9, <2>2, ClosingPreserves
         DEF StreamFails, haltVars, IInv, TabTypes
    <2>3. CASE request # Author /\ timer' = TRUE /\ UNCHANGED bubble
      <3>1. bubble["pending"].status # "loading"
        BY <1>0, <2>3 DEF Places
      <3>2. QED
        BY <1>0, <1>1, <1>9, <2>3, <3>1, ClosingPreserves DEF StreamFails, haltVars, IInv, TabTypes
    <2>4. QED
      BY <1>9, <2>1, <2>2, <2>3 DEF StreamFails
  <1>10. QED
    BY <1>3, <1>7, <1>8, <1>9

(* The student sends the message.                                          *)
LEMMA SendPreserves ==
    ASSUME IInv, [Next]_vars, SendMessage
    PROVE  IInv'
  <1> DEFINE b == Bubble("loading", <<>>, 0, FALSE)
  <1>0. TabTypes /\ Places /\ Ordered /\ Slots = {"pending", "active", "extra"}
    BY DEF IInv, Slots
  <1>1. [StreamNext]_streamVars /\ FetchRests
    BY StepsOfTheServer DEF SendMessage, FetchRests
  <1>2. StreamIInv' /\ StreamTypeOK'
    BY <1>1, StreamGoesOn DEF IInv
  <1>3. /\ b \in Bubbles /\ b.status = "loading" /\ b.text = <<>> /\ b.id = 0
        /\ InOrder(b.text, b.id)
    <2>1. <<>> \in Texts /\ 0 \in 0..MaxEvents
      BY DEF Texts
    <2>2. b \in Bubbles
      BY <2>1 DEF Bubbles, Bubble
    <2>3. QED
      BY <2>2 DEF Bubble, InOrder
  <1>4. /\ bubble' \in [Slots -> Bubbles] /\ bubble'["pending"] = b
        /\ bubble'["active"] = bubble["active"] /\ bubble'["extra"] = bubble["extra"]
        /\ \A slot \in Slots : bubble[slot].status = "none"
    BY <1>0, <1>3, PutEffect DEF SendMessage, Shown
  <1>5. TabTypes' /\ Replies'
    BY <1>0, <1>1, <1>4, RepliesStay DEF TabTypes, SendMessage, haltVars
  <1>6. Places'
    BY <1>0, <1>3, <1>4, NoneAssumption DEF Places, SendMessage, haltVars, Shown
  <1>7. Ordered'
    BY <1>0, <1>3, <1>4 DEF Ordered, SendMessage, haltVars
  <1>8. Faithful'
    <2>1. LoadingSlots' = {"pending"}
      BY <1>0, <1>3, <1>4 DEF LoadingSlots
    <2>2. Len(log') \in Nat
      BY <1>2 DEF StreamTypeOK
    <2>3. bubble'["pending"].id <= Len(log')
      <3>1. bubble'["pending"].id = 0
        BY <1>3, <1>4
      <3>2. QED
        BY <2>2, <3>1
    <2>4. bubble'["pending"].text = TextUpTo(bubble["pending"].id)'
      BY <1>3, <1>4 DEF TextUpTo
    <2>5. QED
      BY <2>1, <2>3, <2>4 DEF Faithful
  <1>9. Following'
    <2>1. /\ phase[Author] = "new" /\ sent' = sent /\ sent \in [Connections -> Seq(Events)]
          /\ request' = Author /\ target' = "pending" /\ read' = 0
      BY StreamFacts DEF SendMessage, Post, IInv, StreamIInv, StreamTypeOK
    <2>2. sent[Author] = <<>>
      BY <2>1, StreamFacts DEF IInv, StreamIInv
    <2>3. QED
      BY <1>3, <1>4, <2>1, <2>2 DEF Following
  <1>10. QED
    BY <1>2, <1>5, <1>6, <1>7, <1>8, <1>9 DEF IInv

(* The student stops the answer while no stream is open.                   *)
LEMMA StopsPreserve ==
    ASSUME IInv, [Next]_vars, StopLate \/ StopLateReturns
    PROVE  IInv'
  <1>0. TabTypes /\ Places /\ Ordered /\ Slots = {"pending", "active", "extra"}
    BY DEF IInv, Slots
  <1>1. [StreamNext]_streamVars /\ FetchRests
    BY StepsOfTheServer DEF StopLate, StopLateReturns, FetchRests
  <1>2. StreamIInv' /\ Replies'
    BY <1>1, StreamGoesOn, RepliesStay DEF IInv
  <1>3. CASE StopLate
    <2>1. /\ UNCHANGED <<bubble, fromHistory, request, target, read, timer, fetch>>
          /\ stopped' = TRUE /\ request = None
      BY <1>3 DEF StopLate, shownVars, followVars
    <2>2. "active" \in LoadingSlots /\ FirstLoading = "active"
      BY <1>0, <1>3, <2>1, NoneAssumption DEF Places, StopLate, LoadingSlots, FirstLoading
    <2>3. halt' = bubble["active"] /\ halt'.known
      BY <1>0, <1>3, <2>2 DEF StopLate, Places, LoadingSlots, Shown
    <2>4. TabTypes'
      BY <1>0, <2>1, <2>3 DEF TabTypes
    <2>5. Places' /\ Ordered'
      BY <1>0, <2>1, <2>3 DEF Places, Ordered, Shown
    <2>6. QED
      BY <1>2, <2>1, <2>4, <2>5 DEF IInv
  <1>4. CASE StopLateReturns
    <2> DEFINE b == [halt EXCEPT !.status = "over"]
    <2>1. /\ UNCHANGED <<fromHistory, request, target, read, fetch>>
          /\ timer' = FALSE /\ halt' = Nothing /\ stopped' /\ halt.known /\ stopped
      BY <1>0, <1>4 DEF StopLateReturns, followVars, Places
    <2>2. halt \in Bubbles /\ InOrder(halt.text, halt.id)
      BY <1>0 DEF TabTypes, Ordered
    <2>3. b \in Bubbles /\ b.status = "over" /\ b.known /\ InOrder(b.text, b.id)
      <3>1. /\ b.text = halt.text /\ b.id = halt.id /\ b.status = "over"
            /\ b.known = halt.known /\ b \in Bubbles
        BY <2>2 DEF Bubbles
      <3>2. QED
        BY <2>1, <2>2, <3>1
    <2>4. Put("active", b)
      BY <1>4, <2>1 DEF StopLateReturns
    <2>5. /\ bubble' \in [Slots -> Bubbles] /\ bubble'["active"] = b
          /\ bubble'["pending"] = bubble["pending"] /\ bubble'["extra"] = bubble["extra"]
      BY <1>0, <2>3, <2>4, PutEffect
    <2>6. TabTypes'
      BY <1>0, <2>1, <2>5, NothingIsFine DEF TabTypes
    <2>7. Places'
      BY <1>0, <2>1, <2>3, <2>5 DEF Places, Shown
    <2>8. Ordered'
      BY <1>0, <2>1, <2>3, <2>5, NothingIsFine DEF Ordered
    <2>9. QED
      BY <1>2, <2>1, <2>6, <2>7, <2>8 DEF IInv
  <1>5. QED
    BY <1>3, <1>4

-----------------------------------------------------------------------------
(* The stream brings an event.                                             *)

(* What is known of the event that is received.                            *)
LEMMA NextEvent ==
    ASSUME IInv, NEW k, Received(k)
    PROVE  /\ request \in Connections /\ phase[request] # "cut"
           /\ target \in {"pending", "active"}
           /\ Current \in Events /\ Current.kind = k
           /\ read + 1 \in DOMAIN sent[request]
           /\ Current.id \in DOMAIN log /\ Current.id \in 1..Len(log)
           /\ Len(log) \in Nat /\ Len(log) <= MaxEvents
           /\ k = "snapshot" => Current.text = log[Current.id].text
           /\ k # "snapshot" => log[Current.id].kind = k /\ read > 0
           /\ k = "delta" => Current.text = <<Current.id>>
           /\ InOrder(log[Current.id].text, Current.id)
           /\ (k \in {"delta", "progress"} /\ Shown(target) /\ ~stopped)
                 => /\ bubble[target].id \in DOMAIN log
                    /\ Current.id = bubble[target].id + 1
                    /\ Grown(log, Current.id)
                    /\ bubble[target].text = log[bubble[target].id].text
  <1>1. /\ request \in Connections /\ target \in Slots /\ read \in Nat
        /\ bubble \in [Slots -> Bubbles]
        /\ sent \in [Connections -> Seq(Events)]
        /\ log \in Seq(Logged) /\ Len(log) \in Nat /\ Len(log) <= MaxEvents
        /\ read < Len(sent[request]) /\ request # None
        /\ Current.kind = k
    BY StreamFacts DEF IInv, TabTypes, StreamIInv, StreamTypeOK, Received, Current
  <1>2. read + 1 \in DOMAIN sent[request] /\ Current \in Events
        /\ (read > 0 => read \in DOMAIN sent[request])
    BY <1>1 DEF Current
  <1>3. sent[request] # <<>>
    BY <1>1
  <1>4. phase[request] # "cut"
    BY <1>1, <1>3, StreamFacts DEF IInv, StreamIInv
  <1>5. target \in {"pending", "active"}
    BY <1>1 DEF IInv, Places
  <1>6. /\ Current.id \in DOMAIN log
        /\ k = "snapshot" => Current.text = TextUpTo(Current.id)
        /\ k # "snapshot" => /\ k = log[Current.id].kind
                             /\ read + 1 > 1
                             /\ \/ Current.id = sent[request][read + 1 - 1].id + 1
                                \/ k = "final"
    BY <1>1, <1>2, StreamFacts DEF IInv, StreamIInv, Current
  <1>7. Current.id \in 1..Len(log) /\ Current.id # 0
    BY <1>1, <1>6
  <1>8. k = "snapshot" => Current.text = log[Current.id].text
    BY <1>6, <1>7 DEF TextUpTo
  <1>9. k # "snapshot" => read > 0
    BY <1>1, <1>6
  <1>10. k = "delta" => Current.text = <<Current.id>>
    BY <1>1, <1>2 DEF IInv, StreamIInv, StreamInv, DeltasAreSmall, Current
  <1>11. InOrder(log[Current.id].text, Current.id) /\ (Current.id > 1 => Grown(log, Current.id))
    BY <1>6 DEF IInv, StreamIInv, StreamInv, TextsAreSound
  <1>12. ASSUME k \in {"delta", "progress"}, Shown(target), ~stopped
         PROVE  /\ bubble[target].id \in DOMAIN log
                /\ Current.id = bubble[target].id + 1
                /\ Grown(log, Current.id)
                /\ bubble[target].text = log[bubble[target].id].text
    <2>1. Following /\ Faithful
      BY <1>12 DEF IInv
    <2>2. /\ bubble[target].status = "loading"
          /\ bubble[target].id = sent[request][read].id
      BY <1>1, <1>4, <1>9, <1>12, <2>1 DEF Following
    <2>3. read + 1 - 1 = read
      BY <1>1
    <2>4. Current.id = bubble[target].id + 1
      BY <1>6, <1>12, <2>2, <2>3
    <2>5. bubble[target].id \in DOMAIN log
      BY <1>1, <1>2, <1>9, <1>12, <2>2, StreamFacts DEF IInv, StreamIInv
    <2>6. bubble[target].id # 0 /\ Current.id > 1
      BY <1>1, <2>4, <2>5
    <2>7. bubble[target].text = log[bubble[target].id].text
      BY <1>1, <2>1, <2>2, <2>6 DEF Faithful, LoadingSlots, TextUpTo
    <2>8. QED
      BY <1>11, <2>4, <2>5, <2>6, <2>7
  <1>13. QED
    BY <1>1, <1>2, <1>4, <1>5, <1>6, <1>7, <1>8, <1>9, <1>10, <1>11, <1>12

(* The message grows to the event received.                                *)
LEMMA ReceivedPreserves ==
    ASSUME IInv, [Next]_vars, NEW k, Received(k), Shown(target),
           NEW t \in Texts, NEW known \in BOOLEAN,
           Put(target, Bubble("loading", t, Current.id, known)), Follow,
           UNCHANGED <<streamVars, fromHistory, timer, fetch, haltVars>>,
           InOrder(t, Current.id), target = "active" => known,
           ~stopped => t = log[Current.id].text
    PROVE  IInv'
  <1> DEFINE b == Bubble("loading", t, Current.id, known)
  <1>0. TabTypes /\ Places /\ Ordered /\ Slots = {"pending", "active", "extra"}
    BY DEF IInv, Slots
  <1>1. [StreamNext]_streamVars /\ FetchRests
    BY StepsOfTheServer DEF FetchRests
  <1>2. StreamIInv' /\ Replies'
    BY <1>1, StreamGoesOn, RepliesStay DEF IInv
  <1>3. /\ request \in Connections /\ phase[request] # "cut"
        /\ target \in {"pending", "active"} /\ read + 1 \in DOMAIN sent[request]
        /\ Current.id \in DOMAIN log /\ Current.id \in 1..Len(log)
        /\ Len(log) \in Nat /\ Len(log) <= MaxEvents
    BY NextEvent
  <1>4. /\ b \in Bubbles /\ b.status = "loading" /\ b.text = t /\ b.id = Current.id
        /\ b.known = known
    <2>1. Current.id \in 0..MaxEvents
      BY <1>3
    <2>2. b \in Bubbles
      BY <2>1 DEF Bubble, Bubbles
    <2>3. QED
      BY <2>2 DEF Bubble
  <1>5. /\ bubble' \in [Slots -> Bubbles] /\ bubble'[target] = b
        /\ \A slot \in Slots \ {target} : bubble'[slot] = bubble[slot]
    BY <1>0, <1>3, <1>4, PutEffect
  <1>6. /\ UNCHANGED <<log, phase, sent, request, target, fromHistory, timer, fetch, halt, stopped>>
        /\ read' = read + 1
    BY DEF streamVars, Follow, haltVars
  <1>7. TabTypes'
    BY <1>0, <1>5, <1>6 DEF TabTypes
  <1>8. Places'
    <2>1. CASE target = "pending"
      <3>1. request = Author /\ bubble["pending"].status = "loading"
        BY <1>0, <1>3, <2>1, NoneAssumption DEF Places, Shown
      <3>2. /\ bubble'["active"] = bubble["active"] /\ bubble'["extra"] = bubble["extra"]
            /\ bubble'["pending"].status = "loading"
        BY <1>0, <1>4, <1>5, <2>1
      <3>3. QED
        BY <1>0, <1>6, <2>1, <3>1, <3>2, NoneAssumption DEF Places, Shown
    <2>2. CASE target = "active"
      <3>1. request # Author /\ bubble["pending"].status # "loading"
        BY <1>0, <2>2 DEF Places
      <3>2. /\ bubble'["pending"] = bubble["pending"] /\ bubble'["extra"] = bubble["extra"]
            /\ bubble'["active"].known
        BY <1>0, <1>4, <1>5, <2>2
      <3>3. QED
        BY <1>0, <1>6, <2>2, <3>1, <3>2 DEF Places, Shown
    <2>3. QED
      BY <1>3, <2>1, <2>2
  <1>9. Ordered'
    BY <1>0, <1>4, <1>5, <1>6 DEF Ordered
  <1>10. ASSUME ~stopped' PROVE Faithful' /\ Following'
    <2>1. Faithful
      BY <1>6, <1>10 DEF IInv
    <2>2. ASSUME NEW slot \in LoadingSlots'
          PROVE  /\ bubble'[slot].id <= Len(log')
                 /\ bubble'[slot].text = TextUpTo(bubble[slot].id)'
      <3>1. CASE slot = target
        <4>1. Current.id # 0 /\ t = log[Current.id].text
          BY <1>3, <1>6, <1>10
        <4>2. bubble'[slot].id = Current.id /\ bubble'[slot].text = t
          BY <1>4, <1>5, <3>1
        <4>3. QED
          BY <1>3, <1>6, <4>1, <4>2 DEF TextUpTo
      <3>2. CASE slot # target
        <4>1. slot \in LoadingSlots /\ bubble'[slot] = bubble[slot]
          BY <1>5, <2>2, <3>2 DEF LoadingSlots
        <4>2. QED
          BY <1>6, <2>1, <4>1 DEF Faithful, TextUpTo
      <3>3. QED
        BY <3>1, <3>2
    <2>3. Following'
      <3>1. sent[request][read + 1].id = Current.id
        BY DEF Current
      <3>2. QED
        BY <1>3, <1>4, <1>5, <1>6, <3>1 DEF Following
    <2>4. QED
      BY <2>2, <2>3 DEF Faithful
  <1>11. QED
    BY <1>2, <1>7, <1>8, <1>9, <1>10 DEF IInv

(* The event is passed over.                                               *)
LEMMA SkippedPreserves ==
    ASSUME IInv, [Next]_vars, NEW k, Received(k), UNCHANGED bubble, Follow,
           UNCHANGED <<streamVars, fromHistory, timer, fetch, haltVars>>,
           stopped \/ ~Shown(target)
    PROVE  IInv'
  <1>0. TabTypes /\ Places /\ Ordered
    BY DEF IInv
  <1>1. [StreamNext]_streamVars /\ FetchRests
    BY StepsOfTheServer DEF FetchRests
  <1>2. StreamIInv' /\ Replies' /\ (Quiet => Quiet')
    BY <1>1, StreamGoesOn, RepliesStay DEF IInv
  <1>3. /\ UNCHANGED <<log, request, target, bubble, halt, stopped>>
        /\ UNCHANGED <<fromHistory, timer, fetch>>
        /\ read' = read + 1
    BY DEF streamVars, Follow, haltVars
  <1>4. TabTypes' /\ Places' /\ Ordered'
    BY <1>0, <1>3 DEF TabTypes, Places, Ordered, Shown
  <1>5. ASSUME ~stopped' PROVE Faithful' /\ Following'
    <2>1. Faithful /\ Following /\ ~Shown(target)
      BY <1>3, <1>5 DEF IInv
    <2>2. Faithful'
      BY <1>3, <2>1 DEF Faithful, LoadingSlots, TextUpTo
    <2>3. Following'
      BY <1>2, <1>3, <2>1 DEF Following, Shown
    <2>4. QED
      BY <2>2, <2>3
  <1>6. QED
    BY <1>2, <1>4, <1>5 DEF IInv

(* A text in order takes a newer delta.                                    *)
LEMMA OneMoreDelta ==
    ASSUME NEW t \in Texts, NEW n \in Nat, InOrder(t, n), NEW m \in 1..MaxEvents, n < m
    PROVE  /\ t \o <<m>> \in Texts /\ t \o <<m>> = Append(t, m)
           /\ InOrder(t \o <<m>>, m)
           /\ InOrder(t, m)
  <1> DEFINE u == t \o <<m>>
  <1>1. t \in Seq(1..MaxEvents) /\ Len(t) \in Nat
    BY DEF Texts
  <1>2. /\ u \in Seq(1..MaxEvents) /\ Len(u) = Len(t) + 1 /\ u[Len(t) + 1] = m
        /\ \A i \in 1..Len(t) : u[i] = t[i] /\ t[i] \in Nat
        /\ u = Append(t, m)
    BY <1>1
  <1>3. Len(t) > 0 => t[Len(t)] <= n
    BY <1>1 DEF InOrder
  <1>4. ASSUME NEW i \in 2..Len(u) PROVE u[i - 1] < u[i]
    <2>1. CASE i = Len(t) + 1
      <3>1. i - 1 = Len(t) /\ Len(t) \in 1..Len(t)
        BY <1>1, <1>2, <2>1
      <3>2. u[i - 1] = t[Len(t)] /\ u[i] = m /\ t[Len(t)] \in Nat /\ t[Len(t)] <= n
        BY <1>2, <1>3, <2>1, <3>1
      <3>3. QED
        BY <3>2
    <2>2. CASE i # Len(t) + 1
      <3>1. i - 1 \in 1..Len(t) /\ i \in 1..Len(t) /\ i \in 2..Len(t)
        BY <1>1, <1>2, <2>2
      <3>2. t[i - 1] < t[i]
        BY <3>1 DEF InOrder
      <3>3. QED
        BY <1>2, <3>1, <3>2
    <2>3. QED
      BY <2>1, <2>2
  <1>5. InOrder(u, m)
    <2>1. u[Len(u)] <= m
      <3>1. u[Len(u)] = m /\ m \in Nat
        BY <1>2
      <3>2. QED
        BY <3>1
    <2>2. QED
      BY <1>4, <2>1 DEF InOrder
  <1>6. t # <<>> => t[Len(t)] <= m
    <2>1. t # <<>> => Len(t) > 0 /\ Len(t) \in 1..Len(t)
      BY <1>1
    <2>2. QED
      BY <1>2, <1>3, <2>1
  <1>7. InOrder(t, m)
    BY <1>6 DEF InOrder
  <1>8. QED
    BY <1>2, <1>5, <1>7 DEF Texts

(* Every event but the final one.                                          *)
LEMMA ReceivesPreserve ==
    ASSUME IInv, [Next]_vars, ReceiveSnapshot \/ ReceiveDelta \/ ReceiveProgress
    PROVE  IInv'
  <1>0. TabTypes /\ Places /\ Ordered
    BY DEF IInv
  <1>1. \A slot \in Slots : /\ bubble[slot] \in Bubbles
                            /\ bubble[slot].text \in Texts /\ bubble[slot].id \in Nat
                            /\ bubble[slot].known \in BOOLEAN
                            /\ InOrder(bubble[slot].text, bubble[slot].id)
    BY <1>0 DEF TabTypes, Bubbles, Ordered
  <1>2. CASE ReceiveSnapshot
    <2>1. /\ Received("snapshot") /\ Follow
          /\ UNCHANGED <<streamVars, fromHistory, timer, fetch, haltVars>>
      BY <1>2 DEF ReceiveSnapshot
    <2>2. CASE Shown(target)
      <3>1. /\ Current.text = log[Current.id].text /\ InOrder(Current.text, Current.id)
            /\ Current.text \in Texts
        BY <2>1, NextEvent DEF Events
      <3>2. Put(target, Bubble("loading", Current.text, Current.id, TRUE))
        BY <1>2, <2>2 DEF ReceiveSnapshot
      <3>3. QED
        BY <2>1, <2>2, <3>1, <3>2, ReceivedPreserves
    <2>3. CASE ~Shown(target)
      BY <1>2, <2>1, <2>3, SkippedPreserves DEF ReceiveSnapshot
    <2>4. QED
      BY <2>2, <2>3
  <1> DEFINE b == bubble[target]
             newer == Shown(target) /\ Current.id > b.id
  <1>3. ASSUME NEW k \in {"delta", "progress"}, Received(k), newer
        PROVE  /\ b.text \o <<Current.id>> \in Texts
               /\ b.text \o <<Current.id>> = Append(b.text, Current.id)
               /\ InOrder(b.text \o <<Current.id>>, Current.id)
               /\ InOrder(b.text, Current.id)
               /\ b.text \in Texts /\ b.known \in BOOLEAN
               /\ target = "active" => b.known
               /\ ~stopped => log[Current.id].text = IF k = "delta"
                                                     THEN Append(b.text, Current.id) ELSE b.text
    <2>1. target \in Slots
      BY <1>0 DEF TabTypes
    <2>2. Current.id \in 1..MaxEvents /\ b.id < Current.id
      BY <1>1, <1>3, <2>1, NextEvent
    <2>3. /\ b.text \o <<Current.id>> \in Texts
          /\ b.text \o <<Current.id>> = Append(b.text, Current.id)
          /\ InOrder(b.text \o <<Current.id>>, Current.id)
          /\ InOrder(b.text, Current.id)
      BY <1>1, <2>1, <2>2, OneMoreDelta
    <2>4. ASSUME ~stopped
          PROVE  log[Current.id].text = IF k = "delta"
                                        THEN Append(b.text, Current.id) ELSE b.text
      <3>1. /\ Current.id = b.id + 1 /\ Grown(log, Current.id)
            /\ b.text = log[b.id].text /\ log[Current.id].kind = k
        BY <1>3, <2>4, NextEvent
      <3>2. Current.id - 1 = b.id
        BY <1>1, <2>1, <3>1
      <3>3. QED
        BY <1>3, <3>1, <3>2 DEF Grown
    <2>5. target = "active" => b.known
      BY <1>0, <1>3 DEF Places
    <2>6. QED
      BY <1>1, <2>1, <2>3, <2>4, <2>5
  <1>4. ASSUME NEW k \in {"delta", "progress"}, Received(k), ~newer
        PROVE  stopped \/ ~Shown(target)
    <2>1. target \in Slots
      BY <1>0 DEF TabTypes
    <2>2. ASSUME Shown(target), ~stopped PROVE Current.id > b.id
      <3>1. Current.id = b.id + 1
        BY <1>4, <2>2, NextEvent
      <3>2. QED
        BY <1>1, <2>1, <3>1
    <2>3. QED
      BY <1>4, <2>2
  <1>5. CASE ReceiveDelta
    <2>1. /\ Received("delta") /\ Follow
          /\ UNCHANGED <<streamVars, fromHistory, timer, fetch, haltVars>>
      BY <1>5 DEF ReceiveDelta
    <2>2. CASE newer
      <3>1. Current.text = <<Current.id>>
        BY <2>1, NextEvent
      <3>2. Put(target, Bubble("loading", b.text \o <<Current.id>>, Current.id, b.known))
        BY <1>5, <2>2, <3>1 DEF ReceiveDelta
      <3>3. QED
        BY <1>3, <2>1, <2>2, <3>2, ReceivedPreserves
    <2>3. CASE ~newer
      <3>1. UNCHANGED bubble
        BY <1>5, <2>3 DEF ReceiveDelta
      <3>2. QED
        BY <1>4, <2>1, <2>3, <3>1, SkippedPreserves
    <2>4. QED
      BY <2>2, <2>3
  <1>6. CASE ReceiveProgress
    <2>1. /\ Received("progress") /\ Follow
          /\ UNCHANGED <<streamVars, fromHistory, timer, fetch, haltVars>>
      BY <1>6 DEF ReceiveProgress
    <2>2. CASE newer
      <3>1. Put(target, Bubble("loading", b.text, Current.id, b.known))
        BY <1>6, <2>2 DEF ReceiveProgress
      <3>2. QED
        BY <1>3, <2>1, <2>2, <3>1, ReceivedPreserves
    <2>3. CASE ~newer
      <3>1. UNCHANGED bubble
        BY <1>6, <2>3 DEF ReceiveProgress
      <3>2. QED
        BY <1>4, <2>1, <2>3, <3>1, SkippedPreserves
    <2>4. QED
      BY <2>2, <2>3
  <1>7. QED
    BY <1>2, <1>5, <1>6

-----------------------------------------------------------------------------
(* A history reply is applied.                                             *)

(* Merging the history into the tab only removes messages.                 *)
LEMMA MergedIsLess ==
    ASSUME IInv
    PROVE  /\ Merged \in [Slots -> Bubbles] /\ Merged["extra"] = Nothing
           /\ \A slot \in Slots : Merged[slot] = Nothing
                                  \/ (Merged[slot] = bubble[slot] /\ Kept(slot))
           /\ \A slot \in Slots : Kept(slot) => Merged[slot] = bubble[slot]
  <1>1. bubble \in [Slots -> Bubbles] /\ Slots = {"pending", "active", "extra"}
    BY DEF IInv, TabTypes, Slots
  <1>2. QED
    BY <1>1, NothingIsFine DEF Merged, Kept

(* The answer is no longer generated.                                      *)
LEMMA FinishedPreserves ==
    ASSUME IInv, [Next]_vars, ApplyFinished
    PROVE  IInv'
  <1>0. TabTypes /\ Places /\ Ordered /\ Slots = {"pending", "active", "extra"}
    BY DEF IInv, Slots
  <1>1. [StreamNext]_streamVars /\ FetchRests
    BY StepsOfTheServer DEF ApplyFinished, FetchRests
  <1>2. StreamIInv' /\ Replies' /\ (Quiet => Quiet')
    BY <1>1, StreamGoesOn, RepliesStay DEF IInv
  <1>3. /\ UNCHANGED <<log, saved, registered, phase, sent, request, target, read, halt, stopped>>
        /\ bubble' = Merged /\ fetch' = NoFetch
        /\ timer' \in BOOLEAN /\ fromHistory' \in BOOLEAN
        /\ fetch.step = "replied" /\ ~fetch.active
    BY <1>0 DEF ApplyFinished, streamVars, followVars, haltVars, TabTypes
  <1>4. /\ bubble' \in [Slots -> Bubbles] /\ bubble'["extra"] = Nothing
        /\ \A slot \in Slots : bubble'[slot] = Nothing \/ (bubble'[slot] = bubble[slot] /\ Kept(slot))
        /\ \A slot \in Slots : Kept(slot) => bubble'[slot] = bubble[slot]
    BY <1>3, MergedIsLess
  <1>5. TabTypes'
    BY <1>0, <1>1, <1>3, <1>4, RepliesStay DEF TabTypes
  <1>6. Places'
    BY <1>0, <1>3, <1>4, NothingIsFine DEF Places, Shown
  <1>7. Ordered'
    BY <1>0, <1>3, <1>4, NothingIsFine DEF Ordered
  <1>8. ASSUME ~stopped' PROVE Faithful' /\ Following'
    <2>1. Faithful /\ Following
      BY <1>3, <1>8 DEF IInv
    <2>2. ASSUME NEW slot \in LoadingSlots'
          PROVE  slot \in LoadingSlots /\ bubble'[slot] = bubble[slot]
      BY <1>4, <2>2, NothingIsFine DEF LoadingSlots
    <2>3. Faithful'
      BY <1>3, <2>1, <2>2 DEF Faithful, TextUpTo
    <2>4. ASSUME request # None PROVE Following'
      <3>1. target \in Slots /\ target # "extra"
        BY <1>0, <2>4 DEF Places, TabTypes
      <3>2. CASE bubble'[target] = bubble[target] /\ (Shown(target) \/ Quiet)
        <4>1. CASE Shown(target)
          BY <1>3, <2>1, <3>2, <4>1 DEF Following, Shown
        <4>2. CASE ~Shown(target)
          BY <1>2, <1>3, <3>2, <4>2 DEF Following, Shown
        <4>3. QED
          BY <4>1, <4>2
      <3>3. CASE Shown(target) /\ ~Kept(target)
        <4>1. fetch.answer
          BY <3>1, <3>3 DEF Kept
        <4>2. saved = "yes" /\ ~Running /\ log # <<>>
          BY <1>3, <4>1 DEF IInv, Replies, StreamIInv, StreamInv
        <4>3. Quiet'
          BY <1>3, <4>2 DEF Quiet, NoFetch, Running, Terminal
        <4>4. ~Shown(target)'
          BY <1>3, <1>4, <3>1, <3>3, NothingIsFine DEF Shown
        <4>5. QED
          BY <4>3, <4>4 DEF Following
      <3>4. CASE ~Shown(target)
        <4>1. Quiet
          BY <2>1, <2>4, <3>4 DEF Following, Shown
        <4>2. ~Shown(target)'
          BY <1>3, <1>4, <3>1, <3>4, NothingIsFine DEF Shown
        <4>3. QED
          BY <1>2, <4>1, <4>2 DEF Following
      <3>5. QED
        BY <1>4, <3>1, <3>2, <3>3, <3>4
    <2>5. QED
      BY <1>3, <2>3, <2>4 DEF Following
  <1>9. QED
    BY <1>2, <1>5, <1>6, <1>7, <1>8 DEF IInv

(* The answer is still generated; without a stream one is opened.          *)
LEMMA ActivePreserves ==
    ASSUME IInv, [Next]_vars, ApplyActive
    PROVE  IInv'
  <1>0. TabTypes /\ Places /\ Ordered /\ Replies /\ Slots = {"pending", "active", "extra"}
    BY DEF IInv, Slots
  <1>1. [StreamNext]_streamVars /\ FetchRests
    BY StepsOfTheServer DEF ApplyActive, FetchRests
  <1>2. StreamIInv' /\ Replies'
    BY <1>1, StreamGoesOn, RepliesStay DEF IInv
  <1>3. /\ UNCHANGED <<log, saved, registered, phase, sent, halt, stopped>>
        /\ bubble' = WithActive /\ fetch' = NoFetch /\ fromHistory' = FALSE
        /\ fetch.active
    BY DEF ApplyActive, streamVars, haltVars
  <1>4. /\ Restored \in Bubbles /\ Restored.status = "loading" /\ Restored.known
        /\ Restored.text = fetch.text /\ Restored.id = fetch.id
        /\ fetch.id \in Nat /\ fetch.id <= Len(log) /\ Len(log) \in Nat
        /\ fetch.text = TextUpTo(fetch.id)
        /\ InOrder(Restored.text, Restored.id)
    <2>1. fetch.text \in Texts /\ fetch.id \in 0..MaxEvents
      BY <1>0 DEF TabTypes
    <2>2. Restored \in Bubbles /\ Restored.status = "loading" /\ Restored.known
          /\ Restored.text = fetch.text /\ Restored.id = fetch.id
      BY <2>1 DEF Restored, Bubble, Bubbles
    <2>3. /\ fetch.id <= Len(log) /\ fetch.text = TextUpTo(fetch.id)
      BY <1>0, <1>3 DEF Replies
    <2>4. Len(log) \in Nat /\ (fetch.id # 0 => fetch.id \in DOMAIN log)
      BY <2>1, <2>3, StreamFacts DEF IInv, StreamIInv, StreamTypeOK
    <2>5. InOrder(fetch.text, fetch.id)
      <3>1. CASE fetch.id = 0
        BY <2>3, <3>1 DEF TextUpTo, InOrder
      <3>2. CASE fetch.id # 0
        BY <2>3, <2>4, <3>2 DEF TextUpTo, IInv, StreamIInv, StreamInv, TextsAreSound
      <3>3. QED
        BY <3>1, <3>2
    <2>6. QED
      BY <2>1, <2>2, <2>3, <2>4, <2>5
  <1>5. request = None \/ LoadingSlots = {}
    BY DEF ApplyActive
  <1>6. bubble["pending"].status # "loading"
    BY <1>0, <1>5, NoneAssumption DEF Places, LoadingSlots
  <1>7. /\ bubble' \in [Slots -> Bubbles] /\ bubble'["extra"] = Nothing
        /\ bubble'["active"] = Restored
        /\ bubble'["pending"] \in {Nothing, bubble["pending"]}
    BY <1>0, <1>3, <1>4, MergedIsLess, NothingIsFine DEF WithActive
  <1>8. Ordered'
    BY <1>0, <1>3, <1>4, <1>7, NothingIsFine DEF Ordered
  <1>9. bubble'["pending"].status # "loading" /\ LoadingSlots' = {"active"}
    BY <1>0, <1>4, <1>6, <1>7, NothingIsFine DEF LoadingSlots
  <1>10. CASE request # None
    <2>1. UNCHANGED <<request, target, read, timer>>
      BY <1>10 DEF ApplyActive, followVars
    <2>2. TabTypes'
      BY <1>0, <1>1, <1>3, <1>7, <2>1, RepliesStay DEF TabTypes
    <2>3. Places'
      BY <1>0, <1>3, <1>4, <1>7, <1>9, <2>1, NothingIsFine DEF Places, Shown
    <2>4. stopped
      <3>1. SUFFICES ASSUME ~stopped PROVE FALSE
        OBVIOUS
      <3>2. Following /\ target \in Slots
        BY <1>0, <3>1 DEF IInv, TabTypes
      <3>3. CASE Quiet
        BY <1>3, <3>3 DEF Quiet
      <3>4. CASE bubble[target].status = "loading"
        BY <1>5, <1>10, <3>2, <3>4 DEF LoadingSlots
      <3>5. QED
        BY <1>10, <3>2, <3>3, <3>4 DEF Following
    <2>5. QED
      BY <1>2, <1>3, <1>8, <2>2, <2>3, <2>4 DEF IInv
  <1>11. CASE request = None
    <2>1. /\ request' \in Connections \ {Author} /\ phase[request'] = "new"
          /\ target' = "active" /\ read' = 0 /\ timer' = FALSE
      <3>1. WithActive["pending"].status # "loading"
        BY <1>3, <1>9
      <3>2. QED
        BY <1>11, <3>1 DEF ApplyActive
    <2>2. TabTypes'
      BY <1>0, <1>1, <1>3, <1>7, <2>1, RepliesStay DEF TabTypes
    <2>3. Places'
      BY <1>0, <1>3, <1>4, <1>7, <1>9, <2>1, NothingIsFine DEF Places, Shown
    <2>4. Faithful'
      BY <1>3, <1>4, <1>7, <1>9 DEF Faithful, TextUpTo
    <2>5. sent[request'] = <<>>
      BY <2>1, StreamFacts DEF IInv, StreamIInv
    <2>6. Following'
      BY <1>3, <1>4, <1>7, <2>1, <2>5 DEF Following
    <2>7. QED
      BY <1>2, <1>8, <2>2, <2>3, <2>4, <2>6 DEF IInv
  <1>12. QED
    BY <1>10, <1>11

-----------------------------------------------------------------------------

(* Every step preserves the invariant.                                     *)
LEMMA StepPreserves == IInv /\ [Next]_vars => IInv'
  BY WaitingPreserves, HistoryReadPreserves, ClosesPreserve, SendPreserves, StopsPreserve,
     ReceivesPreserve, FinishedPreserves, ActivePreserves
     DEF Next, User, Stream, History

(* Nothing is shown at the beginning.                                      *)
LEMMA InitEstablishes == Init => IInv
  <1> SUFFICES ASSUME Init PROVE IInv
    OBVIOUS
  <1>1. JobInv
    BY JobStarts DEF Init
  <1>2. StreamInv
    BY DEF Init, InitStream, StreamInv, TextsAreSound, DeltasAreSmall, SnapshotFirst
  <1>3. TabTypes
    <2>1. <<>> \in Texts /\ 0 \in 0..MaxEvents
      BY DEF Texts
    <2>2. bubble \in [Slots -> Bubbles] /\ halt \in Bubbles
      BY NothingIsFine DEF Init
    <2>3. QED
      BY <2>1, <2>2 DEF Init, TabTypes, NoFetch, Slots
  <1>4. Places /\ Ordered
    BY NothingIsFine, NoneAssumption DEF Init, Places, Ordered, Shown, Slots
  <1>5. Replies
    BY DEF Init, Replies, NoFetch
  <1>6. Faithful /\ Following
    BY NothingIsFine DEF Init, Faithful, Following, LoadingSlots
  <1>7. QED
    BY <1>1, <1>2, <1>3, <1>4, <1>5, <1>6 DEF IInv, StreamIInv

(* The invariant is what the student sees, and more.                       *)
LEMMA InvariantSuffices == IInv => ShownIsTheAnswer
  <1> SUFFICES ASSUME IInv PROVE ShownIsTheAnswer
    OBVIOUS
  <1>1. TypeOK
    BY StreamTypes DEF IInv, StreamIInv, TabTypes, TypeOK
  <1>2. ShownTextIsPrefix
    BY DEF IInv, Faithful, LoadingSlots, ShownTextIsPrefix
  <1>3. ShownTextIsOrdered
    BY DEF IInv, Ordered, InOrder, ShownTextIsOrdered
  <1>4. OneLoadingMessage
    <2>1. LoadingSlots \subseteq {"pending"} \/ LoadingSlots \subseteq {"active"}
      BY DEF IInv, Places, LoadingSlots, Slots
    <2>2. \A S, x : S \subseteq {x} => Cardinality(S) <= 1
      <3>1. TAKE S, x
      <3>2. HAVE S \subseteq {x}
      <3>3. CASE S = {}
        BY <3>3, FS_EmptySet
      <3>4. CASE S = {x}
        BY <3>4, FS_Singleton
      <3>5. QED
        BY <3>2, <3>3, <3>4
    <2>3. QED
      BY <2>1, <2>2 DEF OneLoadingMessage
  <1>5. QED
    BY <1>1, <1>2, <1>3, <1>4 DEF ShownIsTheAnswer

(* The invariant holds in every reachable state.                           *)
LEMMA InvariantHolds == Spec => []IInv
  BY InitEstablishes, StepPreserves, PTL DEF Spec

(* Over any number of reconnections, reloads, stops, late replies and      *)
(* restarts the tab shows the server's text, whole and in order.           *)
THEOREM TabShowsTheAnswer == Spec => []ShownIsTheAnswer
  BY InvariantHolds, InvariantSuffices, PTL

-----------------------------------------------------------------------------
(* A message that is loading after a step was so before, unless the step   *)
(* sends, receives or restores it.                                         *)
LEMMA LoadingSources ==
    ASSUME IInv, [Next]_vars, NEW slot \in LoadingSlots',
           bubble'[slot] # bubble[slot]
    PROVE  SendMessage \/ ReceiveSnapshot \/ ReceiveDelta \/ ReceiveProgress \/ ApplyActive
  <1>0. /\ TabTypes /\ bubble \in [Slots -> Bubbles] /\ target \in Slots /\ slot \in Slots
        /\ bubble'[slot].status = "loading" /\ "extra" \in Slots
    BY DEF IInv, TabTypes, LoadingSlots, Slots
  <1>1. ASSUME NEW q \in Slots, NEW b, Put(q, b), b.status # "loading" PROVE FALSE
    BY <1>0, <1>1, PutEffect
  <1>2. /\ \A q \in Slots : [bubble[q] EXCEPT !.status = "over"].status = "over"
        /\ [Nothing EXCEPT !.status = "over"].status = "over"
        /\ Bubble("final", <<>>, bubble[target].id, TRUE).status = "final"
        /\ [halt EXCEPT !.status = "over"].status = "over"
    BY <1>0, NothingIsFine DEF Bubble, Bubbles, TabTypes
  <1>3. CASE Reload
    BY <1>0, <1>3, NothingIsFine DEF Reload
  <1>4. ~GiveUp
    BY <1>0, <1>1, <1>2 DEF GiveUp
  <1>5. ~ReceiveFinal
    BY <1>0, <1>1, <1>2 DEF ReceiveFinal
  <1>6. ~StreamFails
    BY <1>0, <1>1, <1>2 DEF StreamFails
  <1>7. ~StopLateReturns
    BY <1>0, <1>1, <1>2 DEF StopLateReturns, Slots
  <1>8. CASE ApplyFinished
    <2>1. bubble'[slot] = Nothing \/ bubble'[slot] = bubble[slot]
      BY <1>0, <1>8, MergedIsLess DEF ApplyFinished
    <2>2. QED
      BY <1>0, <2>1, NothingIsFine
  <1>9. CASE ServerStep \/ ServerCrash \/ Visit \/ TimerFires \/ FetchFails \/ KeepLocal
             \/ StopLate \/ HistoryListed \/ ActiveJobLookedUp \/ ActiveJobRead \/ UNCHANGED vars
    BY <1>0, <1>9 DEF ServerStep, ServerCrash, Visit, TimerFires, FetchFails, KeepLocal, StopLate,
       HistoryListed, ActiveJobLookedUp, ActiveJobRead, ClientUnchanged, shownVars, vars
  <1>10. QED
    BY <1>3, <1>4, <1>5, <1>6, <1>7, <1>8, <1>9 DEF Next, User, Stream, History

(* Of two loading messages both are the same one.                          *)
LEMMA LoadingIsUnique ==
    ASSUME IInv, NEW slot \in LoadingSlots, NEW slot2 \in LoadingSlots
    PROVE  slot = slot2
  BY DEF IInv, Places, LoadingSlots, Slots

(* While no reconnect is pending, a reply that says what is generated was  *)
(* asked for after the last stream failed: it has all that is shown.       *)
Timely == (~stopped /\ request = None /\ ~timer /\ fetch.active)
              => \A slot \in LoadingSlots : bubble[slot].id <= fetch.id

(* A step keeps replies timely: only reading the job makes a reply, and    *)
(* only a stream, which leaves a reconnect pending when it fails, makes    *)
(* the shown text longer.                                                  *)
LEMMA RepliesStayTimely ==
    ASSUME IInv, Timely, [Next]_vars
    PROVE  Timely'
  <1> SUFFICES ASSUME ~stopped', request' = None, ~timer', fetch'.active, NEW slot \in LoadingSlots'
               PROVE  bubble'[slot].id <= fetch'.id
    BY DEF Timely
  <1>0. /\ TabTypes /\ NoFetch.active = FALSE
        /\ \A retry : ~[NoFetch EXCEPT !.step = "asked", !.retry = retry].active
    BY DEF IInv, NoFetch
  <1>1. bubble'[slot] = bubble[slot] /\ slot \in LoadingSlots
    <2>1. \A k : Received(k) /\ Follow => request' # None
      BY DEF Received, Follow
    <2>2. /\ SendMessage => request' # None
          /\ ApplyActive => ~fetch'.active
      BY <1>0, NoneAssumption, AuthorAssumption, EventsAssumption DEF SendMessage, ApplyActive
    <2>3. bubble'[slot] = bubble[slot]
      BY <2>1, <2>2, LoadingSources DEF ReceiveSnapshot, ReceiveDelta, ReceiveProgress
    <2>4. QED
      BY <2>3 DEF LoadingSlots
  <1>2. CASE ActiveJobRead
    <2>1. ~stopped
      BY <1>2 DEF ActiveJobRead, haltVars
    <2>2. bubble[slot].id <= Len(log)
      BY <1>1, <2>1 DEF IInv, Faithful
    <2>3. fetch'.id = Len(log)
      BY <1>0, <1>2 DEF ActiveJobRead, TabTypes
    <2>4. QED
      BY <1>1, <2>2, <2>3
  <1>3. ASSUME UNCHANGED <<request, timer, stopped>>, fetch'.active = fetch.active,
               fetch'.id = fetch.id
        PROVE  bubble'[slot].id <= fetch'.id
    BY <1>1, <1>3 DEF Timely
  <1>4. CASE ServerStep \/ ServerCrash \/ HistoryListed \/ ActiveJobLookedUp \/ UNCHANGED vars
    <2>1. /\ UNCHANGED <<request, timer, stopped>>
          /\ fetch' = fetch \/ \E x : fetch' = [fetch EXCEPT !.step = x]
                           \/ \E z, y : fetch' = [fetch EXCEPT !.step = z, !.answer = y]
      BY <1>4 DEF ServerStep, ServerCrash, HistoryListed, ActiveJobLookedUp, ClientUnchanged,
                  followVars, haltVars, vars
    <2>2. fetch'.active = fetch.active /\ fetch'.id = fetch.id
      BY <1>0, <2>1 DEF TabTypes
    <2>3. QED
      BY <1>3, <2>1, <2>2
  <1>5. ASSUME request # None, stopped' = stopped, fetch' = fetch, NEW b, Put(target, b),
               b.status # "loading"
        PROVE  FALSE
    <2>1. Following /\ ~Quiet /\ target \in Slots
      BY <1>0, <1>5 DEF IInv, TabTypes, Quiet
    <2>2. target \in LoadingSlots
      BY <1>5, <2>1 DEF Following, LoadingSlots
    <2>3. slot = target
      BY <1>1, <2>2, LoadingIsUnique
    <2>4. bubble'[slot] = b
      BY <1>0, <1>5, <2>1, <2>3, PutEffect
    <2>5. QED
      BY <1>5, <2>4 DEF LoadingSlots
  <1>6. ASSUME request # None, stopped' = stopped, fetch' = fetch
        PROVE  Shown(target)
    <2>1. Following /\ ~Quiet
      BY <1>6 DEF IInv, Quiet
    <2>2. QED
      BY <1>6, <2>1 DEF Following, Shown
  <1>7. /\ [bubble[target] EXCEPT !.status = "over"].status # "loading"
        /\ Bubble("final", <<>>, bubble[target].id, TRUE).status # "loading"
    BY <1>0 DEF TabTypes, Bubbles, Bubble
  <1>8. ~GiveUp
    BY <1>5, <1>6, <1>7 DEF GiveUp, haltVars
  <1>9. ~ReceiveFinal
    BY <1>5, <1>6, <1>7 DEF ReceiveFinal, Received, haltVars
  <1>10. ~StreamFails
    BY <1>5, <1>6, <1>7 DEF StreamFails, haltVars
  <1>11. ~(SendMessage \/ ReceiveSnapshot \/ ReceiveDelta \/ ReceiveProgress)
    BY NoneAssumption, AuthorAssumption, EventsAssumption
       DEF SendMessage, ReceiveSnapshot, ReceiveDelta, ReceiveProgress, Received, Follow
  <1>12. ~(Visit \/ Reload \/ TimerFires \/ FetchFails \/ KeepLocal \/ ApplyFinished \/ ApplyActive)
    BY <1>0 DEF Visit, Reload, TimerFires, FetchFails, KeepLocal, ApplyFinished, ApplyActive, Ask
  <1>13. ~(StopLate \/ StopLateReturns)
    <2>1. ~StopLate
      BY DEF StopLate
    <2>2. ~StopLateReturns
      <3>1. halt # Nothing => stopped
        BY DEF IInv, Places
      <3>2. QED
        BY <3>1 DEF StopLateReturns
    <2>3. QED
      BY <2>1, <2>2
  <1>14. QED
    BY <1>2, <1>4, <1>8, <1>9, <1>10, <1>11, <1>12, <1>13 DEF Next, User, Stream, History

(* What is received is newer than what is shown.                           *)
LEMMA ReceivedIsNewer ==
    ASSUME IInv, ~stopped, NEW k \in {"snapshot", "delta", "progress"}, Received(k),
           Shown(target)
    PROVE  target \in LoadingSlots /\ bubble[target].id <= Current.id
  <1>1. /\ Following /\ request # None /\ phase[request] # "cut" /\ target \in Slots
        /\ bubble[target].id \in Nat /\ read \in Nat /\ read + 1 \in DOMAIN sent[request]
        /\ sent[request] \in Seq(Events)
        /\ Current \in Events /\ Current.id \in Nat
    <2>1. read + 1 \in DOMAIN sent[request] /\ phase[request] # "cut" /\ request \in Connections
      BY NextEvent
    <2>2. Current.id \in 1..Len(log) /\ Len(log) \in Nat /\ Current \in Events
      BY NextEvent
    <2>3. QED
      BY <2>1, <2>2, StreamFacts DEF IInv, TabTypes, Bubbles, StreamIInv, StreamTypeOK, Received
  <1>2. bubble[target].status = "loading"
    BY <1>1 DEF Following
  <1>3. CASE k = "snapshot"
    <2>1. read = 0
      <3>1. request \in Connections /\ Current.kind = "snapshot"
        BY <1>3, NextEvent
      <3>2. read + 1 = 1
        BY <1>1, <3>1, StreamFacts DEF IInv, StreamIInv, Current
      <3>3. QED
        BY <1>1, <3>2
    <2>2. sent[request] # <<>> /\ Current = sent[request][1] /\ read \notin DOMAIN sent[request]
      BY <1>1, <2>1 DEF Current
    <2>3. bubble[target].id <= sent[request][1].id
      BY <1>1, <2>1, <2>2 DEF Following
    <2>4. QED
      BY <1>1, <1>2, <2>2, <2>3 DEF LoadingSlots
  <1>4. CASE k # "snapshot"
    <2>1. Current.id = bubble[target].id + 1
      BY <1>4, NextEvent
    <2>2. QED
      BY <1>1, <1>2, <2>1 DEF LoadingSlots
  <1>5. QED
    BY <1>3, <1>4

(* One step of the tab does not take back what a loading message shows.    *)
LEMMA ShownTextGrowsInAStep ==
    ASSUME IInv, Timely, [Next]_vars, ~stopped',
           NEW slot \in LoadingSlots, NEW slot2 \in LoadingSlots'
    PROVE  \/ bubble'[slot2].id >= bubble[slot].id
           \/ LateReply /\ request' # None
  <1>0. /\ TabTypes /\ bubble \in [Slots -> Bubbles] /\ slot \in Slots /\ slot2 \in Slots
        /\ bubble[slot].id \in Nat /\ target \in Slots
    BY DEF IInv, TabTypes, LoadingSlots, Bubbles
  <1>1. CASE bubble'[slot2] = bubble[slot2]
    <2>1. slot2 \in LoadingSlots
      BY <1>1 DEF LoadingSlots
    <2>2. slot2 = slot
      BY <2>1, LoadingIsUnique
    <2>3. QED
      BY <1>0, <1>1, <2>2
  <1>2. ~SendMessage
    BY DEF SendMessage, LoadingSlots, Shown
  <1>3. CASE ApplyActive
    <2>1. request = None
      BY <1>3 DEF ApplyActive
    <2>2. CASE timer
      <3>1. \E c \in Connections : request' = c
        BY <1>3, <2>1 DEF ApplyActive
      <3>2. QED
        BY <1>3, <2>1, <2>2, <3>1, NoneAssumption DEF LateReply
    <2>3. CASE ~timer
      <3>1. bubble[slot].id <= fetch.id /\ fetch.id \in Nat
        BY <1>0, <1>3, <2>1, <2>3 DEF Timely, ApplyActive, TabTypes, haltVars
      <3>2. slot = "active"
        BY <2>1, NoneAssumption DEF IInv, Places, LoadingSlots, Slots
      <3>3. bubble'["active"] = Restored /\ bubble'["extra"] = Nothing
        BY <1>3, MergedIsLess DEF ApplyActive, WithActive, Slots
      <3>4. bubble'["pending"] = Nothing \/ bubble'["pending"] = bubble["pending"]
        BY <1>3, MergedIsLess DEF ApplyActive, WithActive, Slots
      <3>5. slot2 = "active"
        BY <2>1, <3>3, <3>4, NothingIsFine, NoneAssumption DEF IInv, Places, LoadingSlots, Slots
      <3>6. QED
        BY <1>0, <3>1, <3>3, <3>5 DEF Restored, Bubble
    <2>4. QED
      BY <2>2, <2>3
  <1>4. ASSUME NEW k \in {"snapshot", "delta", "progress"}, Received(k), stopped' = stopped,
               NEW t, NEW known, Shown(target), bubble'[slot2] # bubble[slot2],
               Put(target, Bubble("loading", t, Current.id, known))
        PROVE  bubble'[slot2].id >= bubble[slot].id
    <2>1. target \in LoadingSlots /\ bubble[target].id <= Current.id
      BY <1>4, ReceivedIsNewer
    <2>2. slot = target
      BY <2>1, LoadingIsUnique
    <2>3. slot2 = target /\ bubble'[slot2] = Bubble("loading", t, Current.id, known)
      BY <1>0, <1>4, PutEffect
    <2>4. bubble'[slot2].id = Current.id
      BY <2>3 DEF Bubble
    <2>5. Current.id \in 1..Len(log) /\ Len(log) \in Nat
      BY <1>4, NextEvent
    <2>6. QED
      BY <1>0, <2>1, <2>2, <2>4, <2>5
  <1>5. CASE ReceiveSnapshot /\ bubble'[slot2] # bubble[slot2]
    BY <1>4, <1>5 DEF ReceiveSnapshot, haltVars
  <1>6. CASE ReceiveDelta /\ bubble'[slot2] # bubble[slot2]
    BY <1>4, <1>6 DEF ReceiveDelta, haltVars
  <1>7. CASE ReceiveProgress /\ bubble'[slot2] # bubble[slot2]
    BY <1>4, <1>7 DEF ReceiveProgress, haltVars
  <1>8. QED
    BY <1>1, <1>2, <1>3, <1>5, <1>6, <1>7, LoadingSources

(* No text that the student has seen is taken back while the answer is     *)
(* generated, except by a reply that was read before a stream failed and   *)
(* comes while its reconnect is pending, and then a stream is opened that  *)
(* brings the text again.                                                  *)
THEOREM SeenTextStays == Spec => ShownTextOnlyGrows
  <1>1. Init => Timely
    BY DEF Init, Timely, NoFetch
  <1>2. IInv /\ Timely /\ [Next]_vars => Timely'
    BY RepliesStayTimely
  <1>3. IInv /\ Timely /\ [Next]_vars =>
            [~stopped' => \A slot \in LoadingSlots, slot2 \in LoadingSlots' :
                bubble[slot].known => \/ bubble'[slot2].id >= bubble[slot].id
                                      \/ LateReply /\ request' # None]_vars
    BY ShownTextGrowsInAStep
  <1>4. QED
    BY <1>1, <1>2, <1>3, InvariantHolds, PTL DEF Spec, ShownTextOnlyGrows

=============================================================================
