---------------------------- MODULE SandboxPool ----------------------------
(***************************************************************************)
(* run_backtest_sandbox (sandbox/executor.rs): a pool of Python processes  *)
(* that answer a request line with a JSON line, and a single-shot process  *)
(* as the way out when no pooled one is free or the pooled run failed.     *)
(* Nothing but the order of the lines says which answer belongs to which   *)
(* request, and a strategy can write lines of its own to the same stdout.  *)
(*                                                                         *)
(* The pool is global to a process and written for any number of threads;  *)
(* a worker process has one task in hand, so the callers of the deployed   *)
(* system are one per process.  A slot is an index of the pool's vector.   *)
(***************************************************************************)
EXTENDS Naturals, Sequences, FiniteSets

CONSTANTS
    Callers,        \* the threads that call run_backtest_sandbox
    NumSlots,       \* pool_size()
    Strategies,     \* the kinds of strategy a caller may bring, see below
    StdinRoom,      \* requests the stdin pipe holds, those larger than the pipe apart
    StdoutRoom,     \* lines the stdout pipe holds while nobody reads it
    PipeRoom,       \* chatty runs that the stderr pipe of one process has room for
    MaxCalls,       \* bound: calls in total
    MaxDeaths       \* bound: pooled processes killed from outside

Slots == 1..NumSlots
Calls == 1..MaxCalls

\* A line that does not parse as an answer; 0 in answer is a failed request.
Junk == 0
Lines == Calls \cup {Junk}

\* "chatty" prints, which goes to stderr; "writer" may reach stdout (print is
\* rebound, sys.stdout is not: a DataFrame's info() writes there); the answer to a
\* "broken" one does not parse; an "endless" one never gets to its answer.
ASSUME PoolAssumption ==
    /\ NumSlots \in Nat /\ MaxCalls \in Nat /\ MaxDeaths \in Nat
    /\ StdinRoom \in Nat /\ StdoutRoom \in Nat /\ PipeRoom \in Nat
    /\ Strategies \subseteq {"quiet", "chatty", "writer", "broken", "endless"}

VARIABLES
    \* the pool, behind PROCESS_POOL's mutex
    lock,       \* who holds the mutex across steps; {} or {c}
    inUse,      \* slots with in_use set
    \* the pooled processes
    alive,      \* slots whose process runs
    stdin,      \* requests in the pipe to a process
    running,    \* the request a process has taken from it and works on, or 0
    stdout,     \* lines written by a process and not read
    stderr,     \* what a process has written to stderr, which nobody reads
    spoken,     \* history: slots in whose present process a strategy wrote to stdout
    deaths,
    \* the callers
    pc,
    call,       \* the number of the call a caller is in; 0 before the first
    slot,       \* available_idx, 0 when there is none
    answer,     \* what send_request returned: a call's answer, or 0 for an error
    calls,      \* calls so far
    strategy,   \* what each call runs
    large,      \* calls whose request line, with its bars, is larger than the stdin pipe
    runs        \* how often the strategy of a call was started

poolVars == <<lock, inUse>>
pipeVars == <<stdin, running, stdout, stderr, spoken>>
processVars == <<alive, pipeVars, deaths>>
callerVars == <<pc, call, slot, answer, calls, strategy, large, runs>>
vars == <<poolVars, processVars, callerVars>>

Phases == {"idle", "acquire", "send", "write", "read", "release", "fallback", "single"}

PoolTypeOK ==
    /\ lock \in SUBSET Callers
    /\ inUse \in SUBSET Slots
    /\ alive \in SUBSET Slots
    /\ stdin \in [Slots -> Seq(Calls)]
    /\ running \in [Slots -> Calls \cup {0}]
    /\ stdout \in [Slots -> Seq(Lines)]
    /\ stderr \in [Slots -> Nat]
    /\ spoken \in SUBSET Slots
    /\ deaths \in Nat
    /\ pc \in [Callers -> Phases]
    /\ call \in [Callers -> Calls \cup {0}]
    /\ slot \in [Callers -> Slots \cup {0}]
    /\ answer \in [Callers -> Calls \cup {0}]
    /\ calls \in 0..MaxCalls
    /\ strategy \in [Calls -> Strategies \cup {"none"}]
    /\ large \in SUBSET Calls
    /\ runs \in [Calls -> Nat]

\* get_pool on the first call; a process that could not be spawned has no slot,
\* which is the same as one that is dead and not in use.
Init ==
    /\ lock = {}
    /\ inUse = {}
    /\ alive \in SUBSET Slots
    /\ stdin = [s \in Slots |-> <<>>]
    /\ running = [s \in Slots |-> 0]
    /\ stdout = [s \in Slots |-> <<>>]
    /\ stderr = [s \in Slots |-> 0]
    /\ spoken = {}
    /\ deaths = 0
    /\ pc = [c \in Callers |-> "idle"]
    /\ call = [c \in Callers |-> 0]
    /\ slot = [c \in Callers |-> 0]
    /\ answer = [c \in Callers |-> 0]
    /\ calls = 0
    /\ strategy = [n \in Calls |-> "none"]
    /\ large = {}
    /\ runs = [n \in Calls |-> 0]

GoTo(c, phase) == pc' = [pc EXCEPT ![c] = phase]

-----------------------------------------------------------------------------
(* run_backtest_sandbox *)

Call(c) ==
    /\ pc[c] = "idle"
    /\ calls < MaxCalls
    /\ calls' = calls + 1
    /\ call' = [call EXCEPT ![c] = calls + 1]
    /\ \E kind \in Strategies : strategy' = [strategy EXCEPT ![calls + 1] = kind]
    /\ \E lines \in SUBSET {calls + 1} : large' = large \cup lines
    /\ GoTo(c, "acquire")
    /\ UNCHANGED <<poolVars, processVars, slot, answer, runs>>

Free == alive \ inUse

\* Mutant: the scan looks at is_alive only.
AcquireAlive(c) ==
    /\ pc[c] = "acquire"
    /\ lock = {}
    /\ \/ \E s \in alive :
             /\ \A t \in alive : s <= t
             /\ inUse' = inUse \cup {s}
             /\ slot' = [slot EXCEPT ![c] = s]
             /\ GoTo(c, "send")
       \/ alive = {} /\ GoTo(c, "fallback") /\ UNCHANGED <<inUse, slot>>
    /\ UNCHANGED <<lock, processVars, call, answer, calls, strategy, large, runs>>

\* First step: the mutex, the first free slot, in_use, and the mutex given back.
Acquire(c) ==
    /\ pc[c] = "acquire"
    /\ lock = {}
    /\ \/ \E s \in Free :
             /\ \A t \in Free : s <= t
             /\ inUse' = inUse \cup {s}
             /\ slot' = [slot EXCEPT ![c] = s]
             /\ GoTo(c, "send")
       \/ Free = {} /\ GoTo(c, "fallback") /\ UNCHANGED <<inUse, slot>>
    /\ UNCHANGED <<lock, processVars, call, answer, calls, strategy, large, runs>>

\* Second step: the mutex is taken, and held until send_request returns.
Send(c) ==
    /\ pc[c] = "send"
    /\ lock = {}
    /\ lock' = {c}
    /\ GoTo(c, "write")
    /\ UNCHANGED <<inUse, processVars, call, slot, answer, calls, strategy, large, runs>>

\* A process that waits for a request takes a line of any size.
StdinTakes(s, n) ==
    \/ running[s] = 0 /\ stdin[s] = <<>>
    \/ n \notin large /\ Len(stdin[s]) < StdinRoom

\* The line is written, however long that takes.  Writing to a process that is
\* gone fails.
Write(c) ==
    /\ pc[c] = "write"
    /\ \/ /\ slot[c] \in alive
          /\ StdinTakes(slot[c], call[c])
          /\ stdin' = [stdin EXCEPT ![slot[c]] = Append(@, call[c])]
          /\ GoTo(c, "read")
          /\ UNCHANGED lock
       \/ /\ slot[c] \notin alive
          /\ GoTo(c, "release")
          /\ lock' = {}
          /\ UNCHANGED stdin
    /\ UNCHANGED <<inUse, alive, running, stdout, stderr, spoken, deaths,
                   call, slot, answer, calls, strategy, large, runs>>

\* The first line is the answer, whatever call it is about; one that does not
\* parse is an error.  The reader is buffered and made anew for every request: of
\* what it has read beyond that line, k - 1 lines and perhaps the beginning of the
\* next one are lost with it.
TakeLine(c) ==
    /\ pc[c] = "read"
    /\ stdout[slot[c]] # <<>>
    /\ answer' = [answer EXCEPT ![c] = Head(stdout[slot[c]])]
    /\ LET lines == stdout[slot[c]]
       IN  \E k \in 1..Len(lines) :
              \/ stdout' = [stdout EXCEPT ![slot[c]] = SubSeq(lines, k + 1, Len(lines))]
              \/ /\ k > 1
                 /\ stdout' = [stdout EXCEPT ![slot[c]] =
                                  <<Junk>> \o SubSeq(lines, k + 1, Len(lines))]
    /\ lock' = {}
    /\ GoTo(c, "release")
    /\ UNCHANGED <<inUse, alive, stdin, running, stderr, spoken, deaths,
                   call, slot, calls, strategy, large, runs>>

\* The process is gone and its pipe is empty: NoResult.
EndOfFile(c) ==
    /\ pc[c] = "read"
    /\ slot[c] \notin alive
    /\ stdout[slot[c]] = <<>>
    /\ lock' = {}
    /\ GoTo(c, "release")
    /\ UNCHANGED <<inUse, processVars, call, slot, answer, calls, strategy, large, runs>>

\* Mutant: the timeout of send_request is honoured by not reading on.
ReadOrGiveUp(c) ==
    \/ TakeLine(c)
    \/ EndOfFile(c)
    \/ /\ pc[c] = "read"
       /\ lock' = {}
       /\ GoTo(c, "release")
       /\ UNCHANGED <<inUse, processVars, call, slot, answer, calls, strategy, large, runs>>

\* The parameter _timeout_secs is not used.
Read(c) == TakeLine(c) \/ EndOfFile(c)

\* Mutant: a failed run is tried again in the pool.
ReleaseAndRetry(c) ==
    /\ pc[c] = "release"
    /\ lock = {}
    /\ inUse' = inUse \ {slot[c]}
    /\ IF answer[c] = 0 THEN GoTo(c, "acquire") ELSE GoTo(c, "idle")
    /\ slot' = [slot EXCEPT ![c] = 0]
    /\ answer' = [answer EXCEPT ![c] = 0]
    /\ UNCHANGED <<lock, processVars, call, calls, strategy, large, runs>>

\* Third step: the slot is free again, its process replaced when it is gone and
\* another one can be spawned; a process that runs is kept with whatever its pipes
\* hold.  A call with an answer is over (an answer that came too late is returned as
\* Timeout), any failure is followed by the single-shot process.
Release(c) ==
    /\ pc[c] = "release"
    /\ lock = {}
    /\ inUse' = inUse \ {slot[c]}
    /\ \/ UNCHANGED <<alive, pipeVars>>
       \/ /\ slot[c] \notin alive
          /\ alive' = alive \cup {slot[c]}
          /\ stdin' = [stdin EXCEPT ![slot[c]] = <<>>]
          /\ running' = [running EXCEPT ![slot[c]] = 0]
          /\ stdout' = [stdout EXCEPT ![slot[c]] = <<>>]
          /\ stderr' = [stderr EXCEPT ![slot[c]] = 0]
          /\ spoken' = spoken \ {slot[c]}
    /\ IF answer[c] = 0 THEN GoTo(c, "fallback") ELSE GoTo(c, "idle")
    /\ slot' = [slot EXCEPT ![c] = 0]
    /\ answer' = [answer EXCEPT ![c] = 0]
    /\ UNCHANGED <<lock, deaths, call, calls, strategy, large, runs>>

-----------------------------------------------------------------------------
(* run_backtest_sandbox_fallback *)

\* A process of its own; when it cannot be spawned or written to, the call is over.
Fallback(c) ==
    /\ pc[c] = "fallback"
    /\ \/ /\ GoTo(c, "single")
          /\ runs' = [runs EXCEPT ![call[c]] = @ + 1]
       \/ GoTo(c, "idle") /\ UNCHANGED runs
    /\ UNCHANGED <<poolVars, processVars, call, slot, answer, calls, strategy, large>>

\* The reader thread has the first line, or the end of the stream: Ok or an error.
SingleEnds(c) ==
    /\ pc[c] = "single"
    /\ strategy[call[c]] # "endless"
    /\ GoTo(c, "idle")
    /\ UNCHANGED <<poolVars, processVars, call, slot, answer, calls, strategy, large, runs>>

\* Mutant: the deadline is computed and never looked at.
SingleWaits(c) == FALSE /\ UNCHANGED vars

\* The deadline has passed: SIGKILL, and the reader is joined.
SingleTimesOut(c) ==
    /\ pc[c] = "single"
    /\ GoTo(c, "idle")
    /\ UNCHANGED <<poolVars, processVars, call, slot, answer, calls, strategy, large, runs>>

-----------------------------------------------------------------------------
(* A pooled process: main() of sandbox_runner.py *)

\* The next line of stdin is taken and the strategy started.
Begin(s) ==
    /\ s \in alive
    /\ running[s] = 0
    /\ stdin[s] # <<>>
    /\ running' = [running EXCEPT ![s] = Head(stdin[s])]
    /\ stdin' = [stdin EXCEPT ![s] = Tail(@)]
    /\ runs' = [runs EXCEPT ![Head(stdin[s])] = @ + 1]
    /\ UNCHANGED <<poolVars, alive, stdout, stderr, spoken, deaths,
                   pc, call, slot, answer, calls, strategy, large>>

\* Of the callers, only one that reads this very pipe makes room in it.
StdoutTakes(s) ==
    \/ Len(stdout[s]) < StdoutRoom
    \/ stdout[s] = <<>> /\ \E c \in Callers : pc[c] = "read" /\ slot[c] = s

\* The strategy writes a line of its own to stdout.
Speak(s) ==
    /\ running[s] # 0
    /\ strategy[running[s]] = "writer"
    /\ StdoutTakes(s)
    /\ stdout' = [stdout EXCEPT ![s] = Append(@, Junk)]
    /\ spoken' = spoken \cup {s}
    /\ UNCHANGED <<poolVars, alive, stdin, running, stderr, deaths, callerVars>>

\* A print goes to stderr; when that pipe is full, the process waits in the write.
Ends(s) ==
    /\ strategy[running[s]] # "endless"
    /\ strategy[running[s]] = "chatty" => stderr[s] < PipeRoom

\* The run is over and the answer is written.
Answer(s) ==
    /\ running[s] # 0
    /\ Ends(s)
    /\ StdoutTakes(s)
    /\ stdout' = [stdout EXCEPT ![s] =
                     Append(@, IF strategy[running[s]] = "broken" THEN Junk ELSE running[s])]
    /\ stderr' = [stderr EXCEPT ![s] = IF strategy[running[s]] = "chatty" THEN @ + 1 ELSE @]
    /\ running' = [running EXCEPT ![s] = 0]
    /\ UNCHANGED <<poolVars, alive, stdin, spoken, deaths, callerVars>>

\* Killed from outside (memory), in the middle of a request or idle; what it has
\* written stays in the pipe.
Die(s) ==
    /\ s \in alive
    /\ deaths < MaxDeaths
    /\ deaths' = deaths + 1
    /\ alive' = alive \ {s}
    /\ stdin' = [stdin EXCEPT ![s] = <<>>]
    /\ running' = [running EXCEPT ![s] = 0]
    /\ UNCHANGED <<poolVars, stdout, stderr, spoken, callerVars>>

-----------------------------------------------------------------------------
CallerStep(c) ==
    \/ Acquire(c)
    \/ Send(c)
    \/ Write(c)
    \/ Read(c)
    \/ Release(c)
    \/ Fallback(c)
    \/ SingleEnds(c)
    \/ SingleTimesOut(c)

Next ==
    \/ \E c \in Callers : Call(c) \/ CallerStep(c)
    \/ \E s \in Slots : Begin(s) \/ Speak(s) \/ Answer(s) \/ Die(s)

Spec == Init /\ [][Next]_vars

\* Threads and processes run, a strategy that is not endless gets to its answer,
\* the deadline of the single-shot process comes, and the mutex is free again and
\* again for the finitely many calls that want it.
Fairness ==
    /\ \A c \in Callers : WF_vars(CallerStep(c))
    /\ \A s \in Slots : WF_vars(Begin(s) \/ Answer(s))

FairSpec == Spec /\ Fairness

-----------------------------------------------------------------------------
(* Safety *)

InSlot(c) == pc[c] \in {"send", "write", "read", "release"}

\* A slot belongs to one caller from acquire to release, in_use says so to
\* everybody else, and the mutex is held from the first byte sent to the line
\* received.
SlotInv ==
    /\ \A c, d \in Callers : InSlot(c) /\ InSlot(d) /\ slot[c] = slot[d] => c = d
    /\ inUse = {slot[c] : c \in {d \in Callers : InSlot(d)}}
    /\ \A c \in Callers : lock = {c} <=> pc[c] \in {"write", "read"}

\* Nothing is under way in a process and nothing is left in its pipes.
Clean(s) == stdin[s] = <<>> /\ running[s] = 0 /\ stdout[s] = <<>>

\* Where the caller's own call is while it waits for a line.
InHand(c) ==
    LET s == slot[c]
    IN  \/ stdin[s] = <<call[c]>> /\ running[s] = 0 /\ stdout[s] = <<>>
        \/ stdin[s] = <<>> /\ running[s] = call[c] /\ stdout[s] = <<>>
        \/ stdin[s] = <<>> /\ running[s] = 0 /\ stdout[s] \in {<<call[c]>>, <<Junk>>}
        \/ s \notin alive /\ Clean(s)

\* As long as no strategy has written to the stdout of a process, requests and
\* answers alternate in its pipes: a slot nobody uses holds no request and no answer
\* that the next caller could take for its own, in use it holds the caller's one
\* call, and once released nothing of it is left behind.  A dead process has
\* nothing in hand.
LineInv ==
    /\ \A s \in Slots \ alive : stdin[s] = <<>> /\ running[s] = 0
    /\ \A s \in (alive \ inUse) \ spoken : Clean(s)
    /\ \A c \in Callers :
          /\ pc[c] \in {"send", "write", "release"} /\ slot[c] \in alive \ spoken => Clean(slot[c])
          /\ pc[c] = "read" /\ slot[c] \notin spoken => InHand(c)

PoolInv == PoolTypeOK /\ SlotInv /\ LineInv

\* No caller is given the result of another call, neither of one that ran in the
\* slot before nor of one that runs beside it, unless a strategy has written to the
\* stdout of that very process: it takes that to cross two calls, and the damage
\* stays with the process until it is replaced.
OwnAnswer ==
    \A c \in Callers : pc[c] = "release" => answer[c] \in {0, call[c]} \/ slot[c] \in spoken

\* executor.rs:3: "JSON communication over stdin/stdout", and sandbox_runner.py:7-9
\* and 645: a request is one line, and stdout carries its {"status": ...}.  So an
\* answer is always the caller's own.
AnswersMatchRequests == \A c \in Callers : answer[c] \in {0, call[c]}

\* A strategy is started at most once in the pool and once on its own, and before
\* its call has a slot not at all: no request is read twice or sent again, also when
\* it is still waiting in a pipe its caller has given up on.
RunsTwiceAtMost ==
    /\ \A n \in Calls : runs[n] <= 2
    /\ \A c \in Callers : pc[c] = "acquire" => runs[call[c]] = 0

-----------------------------------------------------------------------------
(* Liveness *)

\* A caller that will never get on, with the mutex in its hand: its line will not
\* come, or its request does not fit while the process that should read it cannot
\* get rid of what it has to say.
Stuck(c) ==
    /\ pc[c] \in {"write", "read"}
    /\ LET s == slot[c]
       IN  /\ running[s] # 0
           /\ \/ pc[c] = "read" /\ stdout[s] = <<>> /\ ~Ends(s)
              \/ pc[c] = "write" /\ ~StdinTakes(s, call[c]) /\ (~Ends(s) \/ ~StdoutTakes(s))

\* Every call returns, unless some caller is stuck in a pooled process: on an
\* endless strategy, on a full stderr pipe that nobody reads, or on both ends of a
\* process that earlier lines have filled.
CallReturns ==
    \A c \in Callers : (pc[c] # "idle") ~> (pc[c] = "idle" \/ \E d \in Callers : Stuck(d))

\* executor.rs:43: "timeout (seconds)", and 28: "Timeout: strategy execution
\* exceeded {0} seconds".  So every call returns.
TimeoutHonoured == \A c \in Callers : (pc[c] # "idle") ~> (pc[c] = "idle")
=============================================================================
