----------------------------- MODULE ChatClient -----------------------------
(***************************************************************************)
(* One browser tab following one streamed answer: the Pinia chat store     *)
(* (web/src/stores/chat.js, chatMessages.js) against the job and the       *)
(* generators of StreamJob and against get_history.                        *)
(*                                                                         *)
(* The store keeps at most one open stream per session, a reconnect timer  *)
(* and versioned history requests.  A history request reads the messages   *)
(* first and the active stream afterwards, while the worker thread runs.   *)
(* The assistant messages of the turn that the tab shows are a copy from   *)
(* the history and bubbles of its own, keyed by requestId.                 *)
(***************************************************************************)
EXTENDS StreamJob, FiniteSets

CONSTANTS None,
          Crashes       \* the server may restart

ASSUME NoneAssumption == None \notin Connections

ASSUME SwitchAssumption == Crashes \in BOOLEAN

VARIABLES
    bubble,        \* the tab's own messages, by requestId
    fromHistory,   \* the stored answer is shown as the history gave it
    request,       \* activeRequestsBySession: the open stream
    target,        \* requestId of the message it updates
    read,          \* how much of it has been received
    timer,         \* a reconnect timer is set
    fetch,         \* the latest history request
    halt,          \* a stop waiting for the cancel call to return
    stopped        \* history: such a stop has been pressed without a stream

shownVars  == <<bubble, fromHistory>>
haltVars   == <<halt, stopped>>
followVars == <<request, target, read>>
vars == <<log, saved, registered, phase, cursor, upto, sent, bubble, fromHistory,
          request, target, read, timer, fetch, halt, stopped>>

(* "pending": the message sendMessage put up; "active": the one restored   *)
(* from an active stream; "extra": one without requestId.                  *)
Slots == {"pending", "active", "extra"}

Bubble(st, text, n, known) == [status |-> st, text |-> text, id |-> n, known |-> known]

(* "over" is a stopped or failed message, which the merges treat alike;    *)
(* known: the message carries the server's timestamp.                      *)
Nothing == Bubble("none", <<>>, 0, FALSE)

Shown(slot) == bubble[slot].status # "none"

LoadingSlots == {slot \in Slots : bubble[slot].status = "loading"}

(* getLoadingMessage: the first loading message of the list.               *)
FirstLoading == IF "pending" \in LoadingSlots THEN "pending" ELSE "active"

NoFetch == [step |-> "idle", retry |-> FALSE, answer |-> FALSE,
            active |-> FALSE, text |-> <<>>, id |-> 0]

(* retry: the request was made by the reconnect timer.                     *)
Ask(retry) == fetch' = [NoFetch EXCEPT !.step = "asked", !.retry = retry]

Init == /\ InitStream
        /\ bubble = [slot \in Slots |-> Nothing]
        /\ fromHistory = FALSE
        /\ request = None
        /\ target = "pending"
        /\ read = 0
        /\ timer = FALSE
        /\ fetch = NoFetch
        /\ halt = Nothing
        /\ stopped = FALSE

-----------------------------------------------------------------------------
(* source.close(): the generator of a stream the tab lets go of is closed. *)
(* A posted message that still waits for its turn is not taken back.       *)
Close ==
    /\ IF request # None /\ phase[request] \in Open \cup {"ended"}
       THEN Cut(request)
       ELSE UNCHANGED streamVars
    /\ request' = None
    /\ target' = "pending"
    /\ read' = 0

(* The user.                                                               *)

Put(slot, b) == bubble' = [bubble EXCEPT ![slot] = b]

SendMessage ==
    /\ request = None
    /\ \A slot \in Slots : ~Shown(slot)
    /\ Post
    /\ Put("pending", Bubble("loading", <<>>, 0, FALSE))
    /\ request' = Author
    /\ target' = "pending"
    /\ read' = 0
    /\ UNCHANGED <<fromHistory, timer, fetch, haltVars>>

(* Switching to the session asks for its history and supersedes a request  *)
(* of the timer.  (Superseding an earlier visit is FetchFails, then Visit.)*)
Visit ==
    /\ fetch.step = "idle" \/ fetch.retry
    /\ Ask(FALSE)
    /\ UNCHANGED <<streamVars, shownVars, followVars, timer, haltVars>>

Reload ==
    /\ bubble' = [slot \in Slots |-> Nothing]
    /\ fromHistory' = FALSE
    /\ timer' = FALSE
    /\ halt' = Nothing
    /\ stopped' = stopped
    /\ Ask(FALSE)
    /\ Close

(* The stop button, once the cancel call has returned, or no event for     *)
(* STREAM_IDLE_TIMEOUT_MS, which reports even on a message that is gone.   *)
GiveUp ==
    /\ request # None
    /\ \/ Shown(target) /\ Put(target, [bubble[target] EXCEPT !.status = "over"])
       \/ ~Shown(target) /\ UNCHANGED bubble
       \/ ~Shown(target) /\ Put("extra", [Nothing EXCEPT !.status = "over"])
    /\ Close
    /\ UNCHANGED <<fromHistory, timer, fetch, haltVars>>

(* The stop button while only a reconnect is pending: the message is       *)
(* remembered, the cancel call awaited, ...                                *)
StopLate ==
    /\ request = None
    /\ LoadingSlots # {}
    /\ halt = Nothing
    /\ halt' = bubble[FirstLoading]
    /\ stopped' = TRUE
    /\ UNCHANGED <<streamVars, shownVars, followVars, timer, fetch>>

(* ... and what was remembered is put up as stopped.                       *)
StopLateReturns ==
    /\ halt # Nothing
    /\ Put(IF halt.known THEN "active" ELSE "pending", [halt EXCEPT !.status = "over"])
    /\ timer' = FALSE
    /\ halt' = Nothing
    /\ UNCHANGED <<streamVars, fromHistory, followVars, fetch, stopped>>

-----------------------------------------------------------------------------
(* The stream: consumeStream.                                              *)

Received(k) == /\ request # None
               /\ read < Len(sent[request])
               /\ sent[request][read + 1].kind = k

Follow == read' = read + 1 /\ UNCHANGED <<request, target>>

Current == sent[request][read + 1]

(* Mutant of ReceiveSnapshot: the content is added to what is there.       *)
ReceiveSnapshotAppended ==
    /\ Received("snapshot")
    /\ IF Shown(target)
       THEN Put(target, Bubble("loading", bubble[target].text \o Current.text, Current.id, TRUE))
       ELSE UNCHANGED bubble
    /\ Follow
    /\ UNCHANGED <<streamVars, fromHistory, timer, fetch, haltVars>>

(* replacePendingWithSnapshot                                              *)
ReceiveSnapshot ==
    /\ Received("snapshot")
    /\ IF Shown(target)
       THEN Put(target, Bubble("loading", Current.text, Current.id, TRUE))
       ELSE UNCHANGED bubble
    /\ Follow
    /\ UNCHANGED <<streamVars, fromHistory, timer, fetch, haltVars>>

(* appendPendingMessageDelta: an event at or below streamEventId is old.   *)
ReceiveDelta ==
    /\ Received("delta")
    /\ LET b == bubble[target] IN
       IF Shown(target) /\ Current.id > b.id
       THEN Put(target, Bubble("loading", b.text \o Current.text, Current.id, b.known))
       ELSE UNCHANGED bubble
    /\ Follow
    /\ UNCHANGED <<streamVars, fromHistory, timer, fetch, haltVars>>

(* updatePendingMessageProgress                                            *)
ReceiveProgress ==
    /\ Received("progress")
    /\ LET b == bubble[target] IN
       IF Shown(target) /\ Current.id > b.id
       THEN Put(target, Bubble("loading", b.text, Current.id, b.known))
       ELSE UNCHANGED bubble
    /\ Follow
    /\ UNCHANGED <<streamVars, fromHistory, timer, fetch, haltVars>>

(* finalizeSessionMessage: a message that is gone is appended.             *)
ReceiveFinal ==
    /\ Received("final")
    /\ Put(IF Shown(target) THEN target ELSE "extra",
           Bubble("final", <<>>, bubble[target].id, TRUE))
    /\ Close
    /\ UNCHANGED <<fromHistory, timer, fetch, haltVars>>

(* onerror: the author's stream fails the answer, a resumed one is tried   *)
(* again; what the network had not delivered is lost.                      *)
StreamFails ==
    /\ request # None
    /\ phase[request] \in {"cut", "missing"}
    /\ \/ /\ request = Author
          /\ IF Shown(target) THEN Put(target, [bubble[target] EXCEPT !.status = "over"])
                              ELSE Put("extra", [Nothing EXCEPT !.status = "over"])
          /\ UNCHANGED timer
       \/ /\ request # Author
          /\ timer' = TRUE
          /\ UNCHANGED bubble
    /\ Close
    /\ UNCHANGED <<fromHistory, fetch, haltVars>>

-----------------------------------------------------------------------------
(* fetchHistory and get_history.                                           *)

TimerFires ==
    /\ timer
    /\ timer' = FALSE
    /\ Ask(TRUE)
    /\ UNCHANGED <<streamVars, shownVars, followVars, haltVars>>

HistoryListed ==
    /\ fetch.step = "asked"
    /\ fetch' = [fetch EXCEPT !.step = "listed", !.answer = (saved = "yes")]
    /\ UNCHANGED <<streamVars, shownVars, followVars, timer, haltVars>>

(* get_for_owner(active_only=True)                                         *)
ActiveJobLookedUp ==
    /\ fetch.step = "listed"
    /\ fetch' = [fetch EXCEPT !.step = IF Running THEN "found" ELSE "replied"]
    /\ UNCHANGED <<streamVars, shownVars, followVars, timer, haltVars>>

ActiveJobRead ==
    /\ fetch.step = "found"
    /\ fetch' = [fetch EXCEPT !.step = "replied", !.active = TRUE,
                              !.text = TextUpTo(Len(log)), !.id = Len(log)]
    /\ UNCHANGED <<streamVars, shownVars, followVars, timer, haltVars>>

FetchFails ==
    /\ fetch.step # "idle"
    /\ timer' = (timer \/ fetch.retry)
    /\ fetch' = NoFetch
    /\ UNCHANGED <<streamVars, shownVars, followVars, haltVars>>

(* mergeHistoryWithLocalProgress: a local message stays unless the history *)
(* has its counterpart, found by timestamp.                                *)
Kept(slot) == /\ slot # "extra"
              /\ ~(fetch.answer /\ bubble[slot].known)

Merged == [slot \in Slots |-> IF Kept(slot) THEN bubble[slot] ELSE Nothing]

Restored == Bubble("loading", fetch.text, fetch.id, TRUE)

(* mergeActiveStreamMessage: the message with the snapshot's timestamp,    *)
(* stored or local, becomes the active one.                                *)
WithActive == [Merged EXCEPT !["active"] = Restored,
                             !["pending"] = IF Merged["pending"].known THEN Nothing ELSE @]

(* The tab's own stream is ahead of the history and wins.                  *)
KeepLocal ==
    /\ fetch.step = "replied"
    /\ fetch.active
    /\ request # None
    /\ LoadingSlots # {}
    /\ fetch' = NoFetch
    /\ UNCHANGED <<streamVars, shownVars, followVars, timer, haltVars>>

ApplyFinished ==
    /\ fetch.step = "replied"
    /\ ~fetch.active
    /\ bubble' = Merged
    /\ fromHistory' = fetch.answer
    /\ timer' = (timer /\ request # None)
    /\ fetch' = NoFetch
    /\ UNCHANGED <<streamVars, followVars, haltVars>>

(* Mutant of ApplyActive: the history always wins over the tab.            *)
ApplyActiveAlways ==
    /\ fetch.step = "replied"
    /\ fetch.active
    /\ bubble' = WithActive
    /\ fromHistory' = FALSE
    /\ fetch' = NoFetch
    /\ UNCHANGED <<streamVars, followVars, timer, haltVars>>

(* ... and resumeActiveStream, when no stream is open.                     *)
ApplyActive ==
    /\ fetch.step = "replied"
    /\ fetch.active
    /\ request = None \/ LoadingSlots = {}
    /\ bubble' = WithActive
    /\ fromHistory' = FALSE
    /\ \/ /\ request # None
          /\ UNCHANGED <<followVars, timer>>
       \/ /\ request = None
          /\ \E c \in Connections \ {Author} : phase[c] = "new" /\ request' = c
          /\ target' = IF WithActive["pending"].status = "loading" THEN "pending" ELSE "active"
          /\ read' = 0
          /\ timer' = FALSE
    /\ fetch' = NoFetch
    /\ UNCHANGED <<streamVars, haltVars>>

-----------------------------------------------------------------------------

ClientUnchanged == UNCHANGED <<shownVars, followVars, timer, haltVars>>

ServerStep ==
    /\ \/ Job
       \/ \E c \in Connections : \/ Generator(c) \/ Cut(c)
                                 \/ c = request /\ OpenResume(c)
    /\ ClientUnchanged
    /\ UNCHANGED fetch

(* A restart also loses the history request it was answering.              *)
ServerCrash ==
    /\ Crashes
    /\ Crash
    /\ ClientUnchanged
    /\ fetch' = IF fetch.step \in {"listed", "found"}
                THEN [fetch EXCEPT !.step = "asked"] ELSE fetch

User == SendMessage \/ Visit \/ Reload \/ GiveUp \/ StopLate \/ StopLateReturns

Stream == ReceiveSnapshot \/ ReceiveDelta \/ ReceiveProgress \/ ReceiveFinal \/ StreamFails

History == \/ TimerFires \/ HistoryListed \/ ActiveJobLookedUp \/ ActiveJobRead
           \/ FetchFails \/ KeepLocal \/ ApplyFinished \/ ApplyActive

Next == ServerStep \/ ServerCrash \/ User \/ Stream \/ History

Spec == Init /\ [][Next]_vars

(* The resumed connections are interchangeable: a symmetry of the model,   *)
(* given by the exchanges of two of them.                                  *)
Reconnections == {[d \in Connections |-> IF d = c1 THEN c2 ELSE IF d = c2 THEN c1 ELSE d] :
                     c1, c2 \in Connections \ {Author}}

-----------------------------------------------------------------------------

Bubbles == [status : {"none", "loading", "over", "final"},
            text : Texts, id : 0..MaxEvents, known : BOOLEAN]

TypeOK == /\ StreamTypeOK
          /\ bubble \in [Slots -> Bubbles]
          /\ fromHistory \in BOOLEAN
          /\ request \in Connections \cup {None}
          /\ target \in Slots
          /\ read \in Nat
          /\ timer \in BOOLEAN
          /\ fetch \in [step : {"idle", "asked", "listed", "found", "replied"},
                        retry : BOOLEAN, answer : BOOLEAN, active : BOOLEAN,
                        text : Texts, id : 0..MaxEvents]
          /\ halt \in Bubbles
          /\ stopped \in BOOLEAN

(* Whatever was lost, reconnected or reloaded on the way, a message that   *)
(* is being generated shows exactly the server's text up to the event the  *)
(* tab believes to have reached, unless a late stop put older text back:   *)
(* nothing is missing, doubled or reordered.                               *)
ShownTextIsPrefix ==
    ~stopped => \A slot \in Slots :
        (bubble[slot].status = "loading" /\ bubble[slot].known)
            => bubble[slot].text = TextUpTo(bubble[slot].id)

(* Even with late stops the shown deltas keep their order and are not      *)
(* shown twice.                                                            *)
ShownTextIsOrdered ==
    \A slot \in Slots :
        LET text == bubble[slot].text IN
        /\ \A i \in 2..Len(text) : text[i - 1] < text[i]
        /\ text # <<>> => text[Len(text)] <= bubble[slot].id

(* The tab shows at most one answer that is still being generated.         *)
OneLoadingMessage == Cardinality(LoadingSlots) <= 1

(* What the student sees is the answer: one message that is still growing, *)
(* showing the server's text in order, up to the event the tab believes to *)
(* have reached.                                                           *)
ShownIsTheAnswer ==
    TypeOK /\ ShownTextIsPrefix /\ ShownTextIsOrdered /\ OneLoadingMessage

(* A reply that was read before the resumed stream brought newer text and  *)
(* is applied after that stream failed, while its reconnect is pending:    *)
(* fetchHistory compares the version of the request with that of later     *)
(* requests only, and mergeActiveStreamMessage does not compare the text.  *)
LateReply == request = None /\ timer /\ ApplyActive

(* An answer that is being generated never loses text already shown, over  *)
(* every reconnect and every reply of the server, late stops and late      *)
(* replies aside; a late reply puts its own text, and a stream is open     *)
(* that will bring the rest.                                               *)
ShownTextOnlyGrows ==
    [][~stopped' => \A slot \in LoadingSlots, slot2 \in LoadingSlots' :
          bubble[slot].known => \/ bubble'[slot2].id >= bubble[slot].id
                                \/ LateReply /\ request' # None]_vars

(* README: a broken connection is reconnected.  Once the history has been  *)
(* read and shown, a message that is still shown as being generated has a  *)
(* stream or a timer that will bring it further.                           *)
ReconnectionGoesOn ==
    [][ApplyFinished =>
          \/ \A slot \in Slots : bubble'[slot].status # "loading"
          \/ request' # None \/ timer']_vars

=============================================================================
