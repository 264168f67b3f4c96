----------------------------- MODULE StreamJob ------------------------------
(***************************************************************************)
(* The replay buffer of one streamed answer and the connections that read  *)
(* it: ActiveStreamJob and its registry entry (api/stream_jobs.py) and the *)
(* SSE generator iter_stream_job_events (api/sse.py).                      *)
(*                                                                         *)
(* The worker thread appends to the job under its lock; each connection is *)
(* a generator of the event loop that polls the job with a cursor.  Every  *)
(* access to the job takes its lock, so publish, snapshot and events_after *)
(* are atomic, and a generator is a sequence of them.                      *)
(***************************************************************************)
EXTENDS Integers, Sequences

CONSTANTS Connections,
          Author,      \* the connection that posted the message
          MaxEvents    \* bound on the events of the job, the final included

ASSUME AuthorAssumption == Author \in Connections

ASSUME EventsAssumption == MaxEvents \in Nat /\ MaxEvents > 1

VARIABLES
    log,         \* _events: what happened and the text accumulated with it
    saved,       \* the answer in the history: "no", "yes", "failed"
    registered,  \* the registry holds the job
    phase,       \* where the generator of each connection is
    cursor,      \* its cursor
    upto,        \* the last event of the list it is yielding
    sent         \* what it has yielded

jobVars  == <<log, saved, registered>>
connVars == <<phase, cursor, upto, sent>>
streamVars == <<log, saved, registered, phase, cursor, upto, sent>>

Kinds == {"snapshot", "delta", "progress", "final"}

Phases == {"new", "queued", "snapshot", "finale", "poll", "ended", "missing", "cut"}

Open == {"snapshot", "finale", "poll"}

(* The text of a job is the sequence of the ids of its deltas.             *)
Texts == Seq(1..MaxEvents)

TextUpTo(n) == IF n = 0 THEN <<>> ELSE log[n].text

Terminal == log # <<>> /\ log[Len(log)].kind = "final"

(* A worker is running as long as it has not published its final event;    *)
(* a restart takes the registry away from it and itself with it.           *)
Running == log # <<>> /\ registered /\ ~Terminal

Event(k, n, text) == [kind |-> k, id |-> n, text |-> text]

InitStream ==
    /\ log = <<>>
    /\ saved = "no"
    /\ registered = FALSE
    /\ phase = [c \in Connections |-> "new"]
    /\ cursor = [c \in Connections |-> 0]
    /\ upto = [c \in Connections |-> 0]
    /\ sent = [c \in Connections |-> <<>>]

-----------------------------------------------------------------------------
(* The job.                                                                *)

Post ==
    /\ phase[Author] = "new"
    /\ phase' = [phase EXCEPT ![Author] = "queued"]
    /\ UNCHANGED <<jobVars, cursor, upto, sent>>

(* register, the first event (a snapshot of nothing) and the generator that*)
(* reads the job from its beginning: one stretch of the event loop.        *)
Launch ==
    /\ phase[Author] = "queued"
    /\ log' = <<[kind |-> "snapshot", text |-> <<>>]>>
    /\ registered' = TRUE
    /\ phase' = [phase EXCEPT ![Author] = "poll"]
    /\ UNCHANGED <<saved, cursor, upto, sent>>

Publish(k) ==
    /\ Running
    /\ saved = "no"
    /\ Len(log) < MaxEvents - 1
    /\ LET text == TextUpTo(Len(log)) IN
       log' = Append(log, [kind |-> k,
                           text |-> IF k = "delta" THEN Append(text, Len(log) + 1) ELSE text])
    /\ UNCHANGED <<saved, registered, connVars>>

(* _persist_message_once, or the failure of it.                            *)
SaveAnswer(outcome) ==
    /\ Running
    /\ saved = "no"
    /\ saved' = outcome
    /\ UNCHANGED <<log, registered, connVars>>

PublishFinal ==
    /\ Running
    /\ saved # "no"
    /\ log' = Append(log, [kind |-> "final", text |-> TextUpTo(Len(log))])
    /\ UNCHANGED <<saved, registered, connVars>>

(* A finished job leaves the registry after _TERMINAL_RETENTION.           *)
Expire ==
    /\ registered
    /\ Terminal
    /\ registered' = FALSE
    /\ UNCHANGED <<log, saved, connVars>>

(* The connections of cs are over; what was not received yet is lost.      *)
Disconnect(cs) ==
    /\ phase' = [c \in Connections |-> IF c \in cs THEN "cut" ELSE phase[c]]
    /\ cursor' = [c \in Connections |-> IF c \in cs THEN 0 ELSE cursor[c]]
    /\ upto' = [c \in Connections |-> IF c \in cs THEN 0 ELSE upto[c]]
    /\ sent' = [c \in Connections |-> IF c \in cs THEN <<>> ELSE sent[c]]

(* A restart: the job is gone and so are the connections.                  *)
Crash ==
    /\ log # <<>>
    /\ registered' = FALSE
    /\ Disconnect({c \in Connections : phase[c] \in Open})
    /\ UNCHANGED <<log, saved>>

-----------------------------------------------------------------------------
(* The generators.                                                         *)

Yield(c, e) == sent' = [sent EXCEPT ![c] = Append(@, e)]

(* get_resume_job: HTTP 404 when the registry has no job.                  *)
OpenResume(c) ==
    /\ c # Author
    /\ phase[c] = "new"
    /\ phase' = [phase EXCEPT ![c] = IF registered THEN "snapshot" ELSE "missing"]
    /\ UNCHANGED <<jobVars, cursor, upto, sent>>

SendSnapshot(c) ==
    /\ phase[c] = "snapshot"
    /\ Yield(c, Event("snapshot", Len(log), TextUpTo(Len(log))))
    /\ cursor' = [cursor EXCEPT ![c] = Len(log)]
    /\ upto' = [upto EXCEPT ![c] = Len(log)]
    /\ phase' = [phase EXCEPT ![c] = IF Terminal THEN "finale" ELSE "poll"]
    /\ UNCHANGED jobVars

(* The snapshot was terminal: only the final event is repeated.            *)
SendFinale(c) ==
    /\ phase[c] = "finale"
    /\ Yield(c, Event("final", Len(log), <<>>))
    /\ phase' = [phase EXCEPT ![c] = "ended"]
    /\ UNCHANGED <<jobVars, cursor, upto>>

(* Mutant of Fetch: the cursor is off by one.                              *)
FetchSkipsOne(c) ==
    /\ phase[c] = "poll"
    /\ cursor[c] = upto[c]
    /\ cursor[c] + 1 < Len(log)
    /\ cursor' = [cursor EXCEPT ![c] = @ + 1]
    /\ upto' = [upto EXCEPT ![c] = Len(log)]
    /\ UNCHANGED <<jobVars, phase, sent>>

(* events_after(cursor) finds something.                                   *)
Fetch(c) ==
    /\ phase[c] = "poll"
    /\ cursor[c] = upto[c]
    /\ cursor[c] < Len(log)
    /\ upto' = [upto EXCEPT ![c] = Len(log)]
    /\ UNCHANGED <<jobVars, phase, cursor, sent>>

YieldNext(c) ==
    /\ phase[c] = "poll"
    /\ cursor[c] < upto[c]
    /\ LET n == cursor[c] + 1 IN
       /\ Yield(c, Event(log[n].kind, n, IF log[n].kind = "delta" THEN <<n>> ELSE <<>>))
       /\ cursor' = [cursor EXCEPT ![c] = n]
    /\ UNCHANGED <<jobVars, phase, upto>>

(* Mutant of End: only a stream whose answer was stored is closed.         *)
EndWhenSaved(c) ==
    /\ phase[c] = "poll"
    /\ cursor[c] = Len(log)
    /\ Terminal
    /\ saved = "yes"
    /\ phase' = [phase EXCEPT ![c] = "ended"]
    /\ UNCHANGED <<jobVars, cursor, upto, sent>>

(* events_after(cursor) finds nothing, in the same look terminal is set.   *)
End(c) ==
    /\ phase[c] = "poll"
    /\ cursor[c] = upto[c]
    /\ cursor[c] = Len(log)
    /\ Terminal
    /\ phase' = [phase EXCEPT ![c] = "ended"]
    /\ UNCHANGED <<jobVars, cursor, upto, sent>>

(* The connection breaks, or the client closes it.                         *)
Cut(c) ==
    /\ phase[c] \in Open \cup {"queued", "ended"}
    /\ Disconnect({c})
    /\ UNCHANGED jobVars

-----------------------------------------------------------------------------

Job == \/ Launch
       \/ \E k \in {"delta", "progress"} : Publish(k)
       \/ \E outcome \in {"yes", "failed"} : SaveAnswer(outcome)
       \/ PublishFinal \/ Expire

Generator(c) == SendSnapshot(c) \/ SendFinale(c) \/ Fetch(c) \/ YieldNext(c) \/ End(c)

StreamNext ==
    \/ Post \/ Job \/ Crash
    \/ \E c \in Connections : OpenResume(c) \/ Generator(c) \/ Cut(c)

StreamSpec == InitStream /\ [][StreamNext]_streamVars

(* The worker thread ends (ChatTurns), the event loop resumes generators.  *)
FairStreamSpec ==
    /\ StreamSpec
    /\ WF_streamVars(\E outcome \in {"yes", "failed"} : SaveAnswer(outcome))
    /\ WF_streamVars(PublishFinal)
    /\ \A c \in Connections : WF_streamVars(Generator(c))

-----------------------------------------------------------------------------

Logged == [kind : Kinds, text : Texts]
Events == [kind : Kinds, id : 1..MaxEvents, text : Texts]

StreamTypeOK ==
    /\ log \in Seq(Logged)
    /\ saved \in {"no", "yes", "failed"}
    /\ registered \in BOOLEAN
    /\ phase \in [Connections -> Phases]
    /\ cursor \in [Connections -> Nat]
    /\ upto \in [Connections -> Nat]
    /\ sent \in [Connections -> Seq(Events)]

(* What a connection is sent is a window of the job: the first event is    *)
(* the job's own first or a snapshot that stands for everything up to its  *)
(* id, each next event is the direct successor of the one before, and only *)
(* the final event may repeat the id of a snapshot taken after it.         *)
SentIsAWindow ==
    \A c \in Connections : \A i \in DOMAIN sent[c] :
        LET e == sent[c][i] IN
        /\ e.id \in DOMAIN log
        /\ e.kind = "snapshot" => i = 1 /\ e.text = TextUpTo(e.id)
        /\ e.kind # "snapshot" =>
              /\ e.kind = log[e.id].kind
              /\ i > 1
              /\ \/ e.id = sent[c][i - 1].id + 1
                 \/ e.kind = "final" /\ sent[c][i - 1].kind = "snapshot"
                                     /\ e.id = sent[c][i - 1].id

(* A response that ends by itself has delivered the final event, once and  *)
(* as its last one: the client never has to guess how the answer ended.    *)
EndedStreamsAreComplete ==
    \A c \in Connections :
        /\ phase[c] = "ended" => /\ sent[c] # <<>>
                                 /\ sent[c][Len(sent[c])].kind = "final"
        /\ \A i \in DOMAIN sent[c] : sent[c][i].kind = "final" => i = Len(sent[c])

(* Every reader of a job, the poster or one that resumed it, is sent what  *)
(* the job logged, without gap or repetition, and up to the final event if *)
(* its response ends by itself.                                            *)
ReadersGetTheLog == StreamTypeOK /\ SentIsAWindow /\ EndedStreamsAreComplete

(* A client that keeps its connection sees its stream end.                 *)
EveryStreamEnds ==
    \A c \in Connections : (phase[c] \in Open) ~> (phase[c] \notin Open)

=============================================================================
