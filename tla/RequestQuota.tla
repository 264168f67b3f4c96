---------------------------- MODULE RequestQuota ----------------------------
(***************************************************************************)
(* The sliding windows of api/request_quota.py and of the searches in      *)
(* tools/web_search.py: a caller reads the clock, waits for the lock,      *)
(* trims what has left the window and is counted or refused.  Stamps may   *)
(* so enter a window out of order, and only its head is ever trimmed.      *)
(***************************************************************************)
EXTENDS Integers, Sequences, FiniteSets

CONSTANTS Callers, Students,
          Limit,        \* of a student, 0 for none
          GlobalLimit,  \* of all, 0 for none: the API's own quota has none
          Window,
          MaxWait,      \* how long a caller may wait for the lock
          MaxClock

VARIABLES clock,
          windows,   \* window -> its stamps, as they came
          callers,   \* caller -> [at, student, stamp]
          granted    \* window -> the instants at which a request of it was granted

vars == <<clock, windows, callers, granted>>

All == "all"   \* the window of all students

NoCaller == [at |-> "idle", student |-> All, stamp |-> 0]

Init ==
    /\ clock = 0
    /\ windows = [w \in Students \cup {All} |-> <<>>]
    /\ callers = [c \in Callers |-> NoCaller]
    /\ granted = [w \in Students \cup {All} |-> <<>>]

-----------------------------------------------------------------------------

ReadClock(c) ==
    /\ callers[c].at = "idle"
    /\ \E s \in Students : callers' = [callers EXCEPT ![c] =
            [at |-> "waiting", student |-> s, stamp |-> clock]]
    /\ UNCHANGED <<clock, windows, granted>>

(* The first stamp that the head of a window stops at.                     *)
FirstKept(stamps, cutoff) ==
    CHOOSE k \in 1 .. Len(stamps) + 1 :
        /\ k <= Len(stamps) => stamps[k] > cutoff
        /\ \A i \in 1 .. k - 1 : stamps[i] <= cutoff

(* Mutant of Trim: what is as old as the window and more stays out.        *)
TrimEarly(stamps, cutoff) == SubSeq(stamps, FirstKept(stamps, cutoff + 1), Len(stamps))

(* _trim: the head goes while it is older than the window.                 *)
Trim(stamps, cutoff) == SubSeq(stamps, FirstKept(stamps, cutoff), Len(stamps))

Full(stamps, limit) == limit > 0 /\ Len(stamps) >= limit

(* try_acquire, with the lock held.                                        *)
TryAcquire(c) ==
    /\ callers[c].at = "waiting"
    /\ LET s == callers[c].student
           now == callers[c].stamp
           trimmed == [w \in DOMAIN windows |-> Trim(windows[w], now - Window)]
           limit(w) == IF w = All THEN GlobalLimit ELSE Limit
       IN  IF \E w \in {s, All} : Full(trimmed[w], limit(w))
           THEN /\ windows' = trimmed
                /\ callers' = [callers EXCEPT ![c].at = "refused"]
                /\ UNCHANGED granted
           ELSE /\ windows' = [w \in DOMAIN windows |->
                      IF w \in {s, All} /\ limit(w) > 0 THEN Append(trimmed[w], now)
                      ELSE trimmed[w]]
                /\ callers' = [callers EXCEPT ![c] = NoCaller]
                /\ granted' = [w \in DOMAIN granted |->
                      IF w \in {s, All} THEN Append(granted[w], clock) ELSE granted[w]]
    /\ UNCHANGED clock

(* The caller is told when to come again, and forgets.                     *)
Refuse(c) ==
    /\ callers[c].at = "refused"
    /\ callers' = [callers EXCEPT ![c] = NoCaller]
    /\ UNCHANGED <<clock, windows, granted>>

Tick ==
    /\ clock < MaxClock
    /\ \A c \in Callers :
          callers[c].at # "idle" => callers[c].at = "waiting" /\ clock - callers[c].stamp < MaxWait
    /\ clock' = clock + 1
    /\ UNCHANGED <<windows, callers, granted>>

Next ==
    \/ \E c \in Callers : ReadClock(c) \/ TryAcquire(c) \/ Refuse(c)
    \/ Tick

Spec == Init /\ [][Next]_vars

-----------------------------------------------------------------------------

(* How much was granted to a student, or to all, in the span of n up to t. *)
Granted(w, t, n) ==
    Cardinality({i \in DOMAIN granted[w] : t - n < granted[w][i] /\ granted[w][i] <= t})

(* However the callers overtake one another, no window, less what a caller *)
(* may wait for the lock, sees more granted than its limit; and nobody is  *)
(* refused but where the limit was used up in a window, and that wait.     *)
QuotaIsExact ==
    /\ \A t \in 0 .. clock :
          /\ GlobalLimit > 0 => Granted(All, t, Window - MaxWait) <= GlobalLimit
          /\ Limit > 0 => \A s \in Students : Granted(s, t, Window - MaxWait) <= Limit
    /\ \A c \in Callers : callers[c].at = "refused" =>
          LET by == callers[c].stamp + MaxWait
              span == Window + MaxWait
          IN  \/ Limit > 0 /\ Granted(callers[c].student, by, span) >= Limit
              \/ GlobalLimit > 0 /\ Granted(All, by, span) >= GlobalLimit

=============================================================================
