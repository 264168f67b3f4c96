--------------------------- MODULE CodeExecution ---------------------------
(***************************************************************************)
(* tools/code_executor.py: calls of PythonSandbox.execute that share one   *)
(* semaphore.  A program runs in a container, or on the host where that is *)
(* configured or allowed as a fallback; a reader collects its output until *)
(* the program closes it or the deadline passes.                           *)
(***************************************************************************)
EXTENDS Integers, FiniteSets, FiniteSetsExt

CONSTANTS Calls,
          MaxConcurrent,       \* PYTHON_EXEC_MAX_CONCURRENT
          MaxChars, Marker,    \* PYTHON_EXEC_MAX_OUTPUT_CHARS, length of the marker
          Outputs              \* pairs of lengths a program may write to its streams

VARIABLES policy,   \* configured backend and whether the host may stand in
          daemon,   \* whether Docker answers, and what the cache says of it
          calls,    \* call -> how far it is, its program, its result
          slots     \* calls that hold the semaphore

vars == <<policy, daemon, calls, slots>>

NoProgram == [place |-> "none", running |-> FALSE, open |-> FALSE,
              ended |-> "not", removal |-> "none"]
NoResult == [status |-> "none", infra |-> FALSE, out |-> 0, err |-> 0]

Init ==
    /\ policy \in [backend : {"docker", "local", "disabled"}, fallback : BOOLEAN]
    /\ daemon = [up |-> TRUE, cached |-> {}]
    /\ calls = [c \in Calls |-> [at |-> "new", program |-> NoProgram, past |-> {},
                                 result |-> NoResult]]
    /\ slots = {}

(* How a program ends by itself: docker run keeps 125 to 127 for its own   *)
(* failures, and a program may exit with them too.                         *)
Exits == {"zero", "code", "reserved"}

-----------------------------------------------------------------------------
(* Output.                                                                 *)

Least(a, b) == Min({a, b})
Most(a, b) == Max({a, b})

(* _truncate_output: lengths of what is left of both streams.              *)
Truncated(out, err) ==
    LET budget == MaxChars - Marker
        short == MaxChars <= Marker
        half == Least(out, Most(1, budget \div 2))
        rest == Least(err, Most(1, budget - half))
        unused == Most(0, budget - half - rest)
        more == Least(unused, out - half)
        keptOut == IF short THEN 0 ELSE IF out > 0 /\ err > 0 THEN half + more
                   ELSE Least(out, budget)
        keptErr == IF short THEN 0 ELSE IF out > 0 /\ err > 0
                   THEN rest + Least(unused - more, err - rest)
                   ELSE Least(err, budget - keptOut)
        mark == Least(Marker, MaxChars)
    IN  IF out + err <= MaxChars THEN [out |-> out, err |-> err]
        ELSE [out |-> keptOut + (IF out > keptOut THEN mark ELSE 0),
              err |-> keptErr + (IF err > keptErr THEN mark ELSE 0)]

(* _communicate_limited keeps at most MaxChars bytes of each stream; when  *)
(* it has dropped some, one more character makes the truncation show.      *)
Collected(out, err) ==
    LET keptOut == Least(out, MaxChars)
        keptErr == Least(err, MaxChars)
    IN  IF out = keptOut /\ err = keptErr THEN [out |-> out, err |-> err]
        ELSE IF keptOut > 0 THEN Truncated(keptOut + 1, keptErr)
        ELSE Truncated(keptOut, keptErr + 1)

-----------------------------------------------------------------------------
(* A call.                                                                 *)

Put(c, call) == calls' = [calls EXCEPT ![c] = call]
Result(c, status, infra, text) ==
    [calls[c] EXCEPT !.at = "finish",
        !.result = [status |-> status, infra |-> infra, out |-> text.out, err |-> text.err]]
Said == [out |-> 0, err |-> 1]     \* a message of the sandbox itself

Disabled(c) ==
    /\ calls[c].at = "new" /\ policy.backend = "disabled"
    /\ Put(c, [Result(c, "disabled", FALSE, Said) EXCEPT !.at = "done"])
    /\ UNCHANGED <<policy, daemon, slots>>

(* Mutant of Acquire: the limit is not waited for.                         *)
AcquireAnyway(c) ==
    /\ calls[c].at = "new" /\ policy.backend # "disabled"
    /\ slots' = slots \cup {c}
    /\ Put(c, [calls[c] EXCEPT !.at = "choose"])
    /\ UNCHANGED <<policy, daemon>>

Acquire(c) ==
    /\ calls[c].at = "new" /\ policy.backend # "disabled"
    /\ Cardinality(slots) < MaxConcurrent
    /\ slots' = slots \cup {c}
    /\ Put(c, [calls[c] EXCEPT !.at = "choose"])
    /\ UNCHANGED <<policy, daemon>>

(* No slot within PYTHON_EXEC_BUSY_TIMEOUT_SECONDS.                        *)
Busy(c) ==
    /\ calls[c].at = "new" /\ policy.backend # "disabled"
    /\ Cardinality(slots) = MaxConcurrent
    /\ Put(c, [Result(c, "busy", FALSE, Said) EXCEPT !.at = "done"])
    /\ UNCHANGED <<policy, daemon, slots>>

(* A program that the reader has left behind runs on beside the next one.  *)
Send(c, place) ==
    [calls[c] EXCEPT !.at = "launch",
        !.past = IF calls[c].program.ended = "not" THEN @ ELSE @ \cup {calls[c].program},
        !.program = [NoProgram EXCEPT !.place = place]]

(* is_available trusts its cache for a while; otherwise it asks Docker.    *)
Choose(c) ==
    /\ calls[c].at = "choose"
    /\ IF policy.backend = "local" THEN Put(c, Send(c, "host")) /\ UNCHANGED daemon
       ELSE \E available \in daemon.cached \cup {daemon.up} :
               /\ daemon' = [daemon EXCEPT !.cached = {available}]
               /\ Put(c, IF available THEN Send(c, "container")
                         ELSE IF policy.fallback THEN Send(c, "host")
                         ELSE Result(c, "disabled", FALSE, Said))
    /\ UNCHANGED <<policy, slots>>

OnHost(c) == calls[c].program.place = "host"
Back(c, call) == IF OnHost(c) THEN call ELSE [call EXCEPT !.at = "docker"]

Begun(program) ==
    [program EXCEPT !.running = TRUE, !.open = TRUE, !.ended = "running"]

(* The program starts; or the file, the process, the image or the daemon   *)
(* fails, which docker run reports with a reserved code.                   *)
Launch(c) ==
    /\ calls[c].at = "launch"
    /\ \/ /\ OnHost(c) \/ daemon.up
          /\ Put(c, [calls[c] EXCEPT !.at = "run", !.program = Begun(@)])
       \/ Put(c, Back(c, Result(c, "internal_error", ~OnHost(c), Said)))
    /\ UNCHANGED <<policy, daemon, slots>>

-----------------------------------------------------------------------------
(* The program and its reader.                                             *)

(* The output of docker run stays open as long as its program runs.        *)
CloseOutput(c) ==
    /\ calls[c].program.running /\ calls[c].program.open /\ OnHost(c)
    /\ Put(c, [calls[c] EXCEPT !.program = [@ EXCEPT !.open = FALSE]])
    /\ UNCHANGED <<policy, daemon, slots>>

Ended(program, how) ==
    [program EXCEPT !.running = FALSE, !.open = FALSE, !.ended = how]

Exit(c) ==
    /\ calls[c].program.running
    /\ \E how \in Exits : Put(c, [calls[c] EXCEPT !.program = Ended(@, how)])
    /\ UNCHANGED <<policy, daemon, slots>>

(* Killing, and docker rm -f, which may fail in silence.                  *)
Stopped(program) ==
    IF ~program.running THEN {program}
    ELSE {Ended(program, "killed")} \cup
         (IF program.place = "host" THEN {}
          ELSE {[program EXCEPT !.removal = "failed", !.ended = "killed"]})

Completed(c) ==
    /\ calls[c].at = "run" /\ ~calls[c].program.running
    /\ \E text \in Outputs :
          LET how == calls[c].program.ended
          IN  Put(c, Back(c, Result(c, IF how = "zero" THEN "success" ELSE "error",
                                    ~OnHost(c) /\ how = "reserved", Collected(text[1], text[2]))))
    /\ UNCHANGED <<policy, daemon, slots>>

(* The deadline may also pass over output that is still unread.            *)
TimedOut(c) ==
    /\ calls[c].at = "run"
    /\ \E written \in Outputs :
          LET text == Collected(written[1], written[2])
              said == [text EXCEPT !.err = IF @ = 0 THEN 1 ELSE @]
          IN  \E program \in Stopped(calls[c].program) :
                 Put(c, [Back(c, Result(c, "timeout", FALSE, said)) EXCEPT !.program = program])
    /\ UNCHANGED <<policy, daemon, slots>>

(* The output is closed and the program still runs a moment later: an      *)
(* internal error, and nobody stops the program.                           *)
ClosedEarly(c) ==
    /\ calls[c].at = "run" /\ calls[c].program.running /\ ~calls[c].program.open
    /\ Put(c, Result(c, "internal_error", FALSE, Said))
    /\ UNCHANGED <<policy, daemon, slots>>

(* Mutant of FallBack: whatever went wrong.                                *)
FallBackAlways(c) ==
    /\ calls[c].at = "docker"
    /\ Put(c, IF policy.fallback /\ calls[c].result.status # "success" THEN Send(c, "host")
              ELSE [calls[c] EXCEPT !.at = "finish"])
    /\ UNCHANGED <<policy, daemon, slots>>

(* _should_host_fallback_after_docker_result                               *)
FallBack(c) ==
    /\ calls[c].at = "docker"
    /\ Put(c, IF policy.fallback /\ calls[c].result.infra THEN Send(c, "host")
              ELSE [calls[c] EXCEPT !.at = "finish"])
    /\ UNCHANGED <<policy, daemon, slots>>

Release(c) ==
    /\ calls[c].at = "finish"
    /\ slots' = slots \ {c}
    /\ Put(c, [calls[c] EXCEPT !.at = "done"])
    /\ UNCHANGED <<policy, daemon>>

(* Docker goes away or comes back; the cache does not notice, and expires. *)
DaemonChanges ==
    /\ daemon' \in {[daemon EXCEPT !.up = ~@], [daemon EXCEPT !.cached = {}]}
    /\ UNCHANGED <<policy, calls, slots>>

Next ==
    \/ \E c \in Calls :
          \/ Disabled(c) \/ Acquire(c) \/ Busy(c) \/ Choose(c) \/ Launch(c)
          \/ CloseOutput(c) \/ Exit(c) \/ Completed(c) \/ TimedOut(c) \/ ClosedEarly(c)
          \/ FallBack(c) \/ Release(c)
    \/ DaemonChanges

Spec == Init /\ [][Next]_vars

-----------------------------------------------------------------------------

Orphan(p) ==
    \/ p.place = "container" /\ p.removal = "failed"
    \/ p.place = "host" /\ ~p.open

(* The limit holds for calls, and a program runs without a slot only where *)
(* docker rm failed or where, on the host, it had closed its output; what  *)
(* ran in a container is run again only on the host, where that is allowed *)
(* and only if it ended the way docker run fails itself: not if it timed   *)
(* out or raised; a call that was refused has run nothing; and neither     *)
(* stream is longer than the limit, marker included.  (Both together may   *)
(* be: the combined output is cut only where one stream alone was longer.) *)
ExecutionIsContained ==
    /\ Cardinality(slots) <= MaxConcurrent
    /\ \A c \in Calls :
          LET call == calls[c]
          IN  /\ call.program.running => c \in slots \/ Orphan(call.program)
              /\ \A p \in call.past : p.place = "container" /\ p.ended = "reserved"
              /\ call.past # {} => policy.fallback /\ OnHost(c)
              /\ call.result.status \in {"busy", "disabled"} =>
                    call.past = {} /\ call.program.ended = "not"
              /\ call.result.out <= MaxChars /\ call.result.err <= MaxChars

=============================================================================
