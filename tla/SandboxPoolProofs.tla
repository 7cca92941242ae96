------------------------- MODULE SandboxPoolProofs -------------------------
(***************************************************************************)
(* Proofs about SandboxPool: the pool's invariant, whose answers a caller  *)
(* gets, and how often a strategy is started, for any number of callers,   *)
(* slots, calls and killed processes, pipes of any size, and strategies    *)
(* that write whatever they like to stdout.                                *)
(***************************************************************************)
EXTENDS SandboxPool, TLAPS

\* The calls under way are numbered differently, and an answer is kept for no
\* longer than its slot.
CallInv ==
    /\ \A c \in Callers : pc[c] # "idle" => call[c] \in 1..calls
    /\ \A c, d \in Callers :
          pc[c] # "idle" /\ pc[d] # "idle" /\ call[c] = call[d] => c = d
    /\ \A c \in Callers : pc[c] # "release" => answer[c] = 0

\* A request waits in a pipe, and in one place of one pipe.
Waiting(n) == \E s \in Slots : \E i \in 1..Len(stdin[s]) : stdin[s][i] = n

WaitsOnce ==
    \A s, t \in Slots : \A i \in 1..Len(stdin[s]), j \in 1..Len(stdin[t]) :
        stdin[s][i] = stdin[t][j] => s = t /\ i = j

Early(c) == pc[c] \in {"acquire", "send", "write"}
Late(c) == pc[c] \in {"read", "release", "fallback"}

\* How often the strategy of a call has been started, by how far the call is and
\* whether its request is still to be read: the caller may have left with another
\* line, and the request be read after the single-shot run.
RunInv ==
    /\ \A n \in Calls :
          /\ runs[n] <= 2
          /\ Waiting(n) => runs[n] <= 1
          /\ n > calls => runs[n] = 0 /\ ~Waiting(n)
    /\ \A c \in Callers : Early(c) => runs[call[c]] = 0 /\ ~Waiting(call[c])
    /\ \A c \in Callers : Late(c) => /\ runs[call[c]] <= 1
                                     /\ Waiting(call[c]) => runs[call[c]] = 0

IInv == PoolInv /\ OwnAnswer /\ CallInv /\ WaitsOnce /\ RunInv

-----------------------------------------------------------------------------
LEMMA Initially ==
    ASSUME Init
    PROVE  IInv
<1> USE PoolAssumption DEF PoolAssumption, Init, Slots, Calls
<1>1. PoolTypeOK
    BY DEF PoolTypeOK, Phases, Lines
<1>2. SlotInv /\ LineInv /\ OwnAnswer
    BY DEF SlotInv, LineInv, InSlot, Clean, OwnAnswer
<1>3. WaitsOnce /\ \A n \in Calls : ~Waiting(n)
    BY DEF WaitsOnce, Waiting
<1>4. CallInv /\ RunInv
    BY <1>3 DEF CallInv, RunInv, Early, Late
<1> QED BY <1>1, <1>2, <1>3, <1>4 DEF IInv, PoolInv

LEMMA SlotOfCaller ==
    ASSUME PoolInv, NEW c \in Callers, InSlot(c)
    PROVE  slot[c] \in Slots /\ slot[c] \in inUse
BY DEF PoolInv, PoolTypeOK, SlotInv

LEMMA CallOfCaller ==
    ASSUME PoolInv, CallInv, NEW c \in Callers, pc[c] # "idle"
    PROVE  call[c] \in Calls
BY PoolAssumption DEF PoolAssumption, PoolInv, PoolTypeOK, CallInv, Calls

\* There is one mutex.
LEMMA NobodyElseHolds ==
    ASSUME PoolInv, NEW c \in Callers, pc[c] \in {"write", "read"}, NEW d \in Callers \ {c}
    PROVE  pc[d] \notin {"write", "read"}
<1>1. lock = {c} /\ (pc[d] \in {"write", "read"} => lock = {d})
    BY DEF PoolInv, SlotInv
<1> QED BY <1>1

LEMMA SlotsDiffer ==
    ASSUME PoolInv, NEW c \in Callers, NEW d \in Callers, c # d, InSlot(c), InSlot(d)
    PROVE  slot[c] # slot[d]
BY DEF PoolInv, SlotInv

\* Starts only grow where a step of Begin or Fallback says so.
LEMMA RunsFrame ==
    ASSUME RunInv, UNCHANGED <<runs, calls, call>>,
           \A n \in Calls : Waiting(n)' => Waiting(n),
           \A d \in Callers : pc[d] # "idle" => call[d] \in Calls,
           \A d \in Callers : Early(d)' => Early(d),
           \A d \in Callers : Late(d)' => Early(d) \/ Late(d)
    PROVE  RunInv'
<1>0. \A d \in Callers : Early(d) \/ Late(d) => call[d] \in Calls
    BY DEF Early, Late
<1>1. \A n \in Calls : /\ runs'[n] <= 2
                       /\ Waiting(n)' => runs'[n] <= 1
                       /\ n > calls' => runs'[n] = 0 /\ ~Waiting(n)'
    BY DEF RunInv
<1>2. \A d \in Callers : Early(d)' => runs'[call'[d]] = 0 /\ ~Waiting(call[d])'
    BY <1>0 DEF RunInv
<1>3. \A d \in Callers : Late(d)' => /\ runs'[call'[d]] <= 1
                                     /\ Waiting(call[d])' => runs'[call'[d]] = 0
    BY <1>0 DEF RunInv
<1> QED BY <1>1, <1>2, <1>3 DEF RunInv

-----------------------------------------------------------------------------
(* The callers in the pool *)

LEMMA CallStep ==
    ASSUME IInv, NEW c \in Callers, Call(c)
    PROVE  IInv'
<1> USE PoolAssumption DEF PoolAssumption, IInv, PoolInv
<1>1. /\ UNCHANGED <<lock, inUse, alive, stdin, running, stdout, stderr, spoken, deaths, slot,
                     answer, runs>>
      /\ pc[c] = "idle" /\ calls < MaxCalls /\ calls' = calls + 1
    BY DEF Call, poolVars, processVars, pipeVars
<1>2. /\ pc' = [pc EXCEPT ![c] = "acquire"] /\ call' = [call EXCEPT ![c] = calls + 1]
      /\ strategy' \in [Calls -> Strategies \cup {"none"}]
      /\ large' \in SUBSET Calls
    BY DEF Call, GoTo, PoolTypeOK, Calls
<1>3. calls + 1 \in Calls
    BY <1>1 DEF PoolTypeOK, Calls
<1>4. PoolTypeOK'
    BY <1>1, <1>2, <1>3 DEF PoolTypeOK, Calls, Phases
<1>5. SlotInv' /\ LineInv' /\ OwnAnswer'
    BY <1>1, <1>2 DEF SlotInv, LineInv, InHand, Clean, InSlot, OwnAnswer, PoolTypeOK
<1>6. CallInv'
    BY <1>1, <1>2 DEF CallInv, PoolTypeOK, Calls
<1>7. WaitsOnce' /\ \A n \in Calls : Waiting(n)' <=> Waiting(n)
    BY <1>1 DEF WaitsOnce, Waiting
<1>8. RunInv'
    <2>1. runs[calls + 1] = 0 /\ ~Waiting(calls + 1)
        BY <1>1, <1>3 DEF RunInv, PoolTypeOK
    <2>2. ASSUME NEW d \in Callers, d # c, pc[d] # "idle"
          PROVE  call'[d] = call[d] /\ call[d] \in Calls /\ pc'[d] = pc[d]
        BY <1>2, <2>2, CallOfCaller DEF PoolTypeOK
    <2>3. call'[c] = calls + 1 /\ pc'[c] = "acquire"
        BY <1>2 DEF PoolTypeOK
    <2>4. ASSUME NEW d \in Callers, Early(d)'
          PROVE  runs'[call'[d]] = 0 /\ ~Waiting(call[d])'
        <3>1. CASE d = c
            BY <1>1, <1>3, <1>7, <2>1, <2>3, <3>1
        <3>2. CASE d # c
            <4>1. pc'[d] = pc[d] /\ Early(d) /\ pc[d] # "idle"
                BY <1>2, <2>4, <3>2 DEF Early, PoolTypeOK
            <4> QED BY <1>1, <1>7, <2>2, <3>2, <4>1 DEF RunInv
        <3> QED BY <3>1, <3>2
    <2>5. ASSUME NEW d \in Callers, Late(d)'
          PROVE  runs'[call'[d]] <= 1 /\ (Waiting(call[d])' => runs'[call'[d]] = 0)
        <3>1. d # c /\ pc'[d] = pc[d] /\ Late(d) /\ pc[d] # "idle"
            BY <1>2, <2>5 DEF Late, PoolTypeOK
        <3> QED BY <1>1, <1>7, <2>2, <3>1 DEF RunInv
    <2>6. \A n \in Calls : /\ runs'[n] <= 2
                           /\ Waiting(n)' => runs'[n] <= 1
                           /\ n > calls' => runs'[n] = 0 /\ ~Waiting(n)'
        BY <1>1, <1>7 DEF RunInv, PoolTypeOK, Calls
    <2> QED BY <2>4, <2>5, <2>6 DEF RunInv
<1> QED BY <1>4, <1>5, <1>6, <1>7, <1>8

LEMMA AcquireStep ==
    ASSUME IInv, NEW c \in Callers, Acquire(c)
    PROVE  IInv'
<1> USE PoolAssumption DEF PoolAssumption, IInv, PoolInv
<1>1. /\ UNCHANGED <<lock, alive, stdin, running, stdout, stderr, spoken, deaths, call, answer,
                     calls, strategy, large, runs>>
      /\ pc[c] = "acquire" /\ lock = {}
    BY DEF Acquire, processVars, pipeVars
<1>2. /\ pc' \in [Callers -> Phases] /\ pc'[c] \in {"send", "fallback"}
      /\ \A d \in Callers \ {c} : pc'[d] = pc[d]
    BY DEF Acquire, GoTo, PoolTypeOK, Phases
<1>3. CallInv' /\ WaitsOnce' /\ RunInv'
    <2>1. CallInv' /\ WaitsOnce'
        BY <1>1, <1>2 DEF CallInv, WaitsOnce
    <2>2. \A d \in Callers : (Early(d)' => Early(d)) /\ (Late(d)' => Early(d) \/ Late(d))
        BY <1>1, <1>2 DEF Early, Late
    <2>3. \A n \in Calls : Waiting(n)' => Waiting(n)
        BY <1>1 DEF Waiting
    <2> QED BY <1>1, <2>1, <2>2, <2>3, CallOfCaller, RunsFrame
<1>4. CASE UNCHANGED <<inUse, slot>> /\ pc' = [pc EXCEPT ![c] = "fallback"]
    <2>1. PoolTypeOK' /\ SlotInv'
        BY <1>1, <1>4 DEF PoolTypeOK, SlotInv, InSlot, Phases
    <2>2. LineInv' /\ OwnAnswer'
        BY <1>1, <1>4 DEF PoolTypeOK, LineInv, InHand, Clean, OwnAnswer
    <2> QED BY <1>3, <2>1, <2>2
<1>5. ASSUME NEW s \in alive \ inUse, inUse' = inUse \cup {s},
             slot' = [slot EXCEPT ![c] = s], pc' = [pc EXCEPT ![c] = "send"]
      PROVE  IInv'
    <2>1. PoolTypeOK'
        BY <1>1, <1>5 DEF PoolTypeOK, Phases
    <2>2. SlotInv'
        BY <1>1, <1>5 DEF SlotInv, InSlot, PoolTypeOK
    <2>3. s \notin spoken => Clean(s)
        BY <1>5 DEF LineInv
    <2>4. LineInv'
        BY <1>1, <1>5, <2>3 DEF LineInv, InHand, Clean, PoolTypeOK
    <2>5. OwnAnswer'
        BY <1>1, <1>5 DEF OwnAnswer, PoolTypeOK
    <2> QED BY <1>3, <2>1, <2>2, <2>4, <2>5
<1> QED BY <1>4, <1>5 DEF Acquire, Free, GoTo

LEMMA SendStep ==
    ASSUME IInv, NEW c \in Callers, Send(c)
    PROVE  IInv'
<1> USE PoolAssumption DEF PoolAssumption, IInv, PoolInv
<1>1. /\ UNCHANGED <<inUse, alive, stdin, running, stdout, stderr, spoken, deaths, call, slot,
                     answer, calls, strategy, large, runs>>
      /\ pc[c] = "send" /\ lock = {} /\ lock' = {c} /\ pc' = [pc EXCEPT ![c] = "write"]
    BY DEF Send, GoTo, processVars, pipeVars
<1>2. PoolTypeOK'
    BY <1>1 DEF PoolTypeOK, Phases
<1>3. SlotInv'
    <2>1. \A d \in Callers : pc[d] \notin {"write", "read"}
        BY <1>1 DEF SlotInv
    <2>2. pc'[c] = "write" /\ \A d \in Callers \ {c} : pc'[d] = pc[d]
        BY <1>1 DEF PoolTypeOK
    <2>3. \A d \in Callers : InSlot(d)' <=> InSlot(d)
        BY <1>1, <2>2 DEF InSlot
    <2>4. \A d \in Callers : lock' = {d} <=> pc'[d] \in {"write", "read"}
        BY <1>1, <2>1, <2>2
    <2> QED BY <1>1, <2>3, <2>4 DEF SlotInv
<1>4. LineInv' /\ OwnAnswer'
    BY <1>1 DEF LineInv, InHand, Clean, OwnAnswer, PoolTypeOK
<1>5. CallInv' /\ WaitsOnce'
    BY <1>1 DEF CallInv, WaitsOnce, PoolTypeOK
<1>6. \A d \in Callers : (Early(d)' => Early(d)) /\ (Late(d)' => Early(d) \/ Late(d))
    BY <1>1 DEF Early, Late, PoolTypeOK
<1>7. \A n \in Calls : Waiting(n)' => Waiting(n)
    BY <1>1 DEF Waiting
<1>8. RunInv'
    BY <1>1, <1>6, <1>7, CallOfCaller, RunsFrame
<1> QED BY <1>2, <1>3, <1>4, <1>5, <1>8

\* The request is in one place: at the end of this pipe.
LEMMA WriteStep ==
    ASSUME IInv, NEW c \in Callers, Write(c)
    PROVE  IInv'
<1> USE PoolAssumption DEF PoolAssumption, IInv, PoolInv
<1>1. /\ UNCHANGED <<inUse, alive, running, stdout, stderr, spoken, deaths, call, slot, answer,
                     calls, strategy, large, runs>>
      /\ pc[c] = "write"
    BY DEF Write
<1>2. slot[c] \in Slots /\ call[c] \in Calls /\ InSlot(c)
    BY <1>1, SlotOfCaller, CallOfCaller DEF InSlot
<1>3. /\ pc' \in [Callers -> Phases] /\ pc'[c] \in {"read", "release"}
      /\ \A d \in Callers \ {c} : pc'[d] = pc[d]
    BY DEF Write, GoTo, PoolTypeOK, Phases
<1>4. CallInv' /\ \A d \in Callers : (Early(d)' => Early(d)) /\ (Late(d)' => Early(d) \/ Late(d))
    <2>1. answer[c] = 0
        BY <1>1 DEF CallInv
    <2> QED BY <1>1, <1>3, <2>1 DEF CallInv, Early, Late
<1>5. OwnAnswer'
    BY <1>1, <1>3 DEF OwnAnswer, CallInv
<1>6. CASE /\ slot[c] \notin alive /\ lock' = {} /\ stdin' = stdin
           /\ pc' = [pc EXCEPT ![c] = "release"]
    <2>1. PoolTypeOK'
        BY <1>1, <1>6 DEF PoolTypeOK, Phases
    <2>2. SlotInv'
        <3>1. \A d \in Callers \ {c} : pc[d] \notin {"write", "read"}
            BY <1>1, NobodyElseHolds
        <3>2. \A d \in Callers : InSlot(d)' <=> InSlot(d)
            BY <1>3, <1>2, <1>6 DEF InSlot
        <3> QED BY <1>1, <1>3, <1>6, <3>1, <3>2 DEF SlotInv
    <2>3. LineInv'
        BY <1>1, <1>6 DEF LineInv, InHand, Clean, PoolTypeOK
    <2>4. WaitsOnce' /\ \A n \in Calls : Waiting(n)' => Waiting(n)
        BY <1>6 DEF WaitsOnce, Waiting
    <2>5. RunInv'
        BY <1>1, <1>4, <2>4, CallOfCaller, RunsFrame
    <2> QED BY <1>4, <1>5, <2>1, <2>2, <2>3, <2>4, <2>5
<1>7. CASE /\ slot[c] \in alive /\ lock' = lock
           /\ stdin' = [stdin EXCEPT ![slot[c]] = Append(stdin[slot[c]], call[c])]
           /\ pc' = [pc EXCEPT ![c] = "read"]
    <2>1. PoolTypeOK'
        BY <1>1, <1>2, <1>7 DEF PoolTypeOK, Phases
    <2>2. SlotInv'
        <3>1. \A d \in Callers : InSlot(d)' <=> InSlot(d)
            BY <1>2, <1>3, <1>7 DEF InSlot
        <3>2. \A d \in Callers : pc'[d] \in {"write", "read"} <=> pc[d] \in {"write", "read"}
            BY <1>1, <1>3, <1>7 DEF PoolTypeOK
        <3> QED BY <1>1, <1>7, <3>1, <3>2 DEF SlotInv
    <2>3. LineInv'
        <3>1. \A s \in Slots \ {slot[c]} : stdin'[s] = stdin[s] /\ (Clean(s)' <=> Clean(s))
            BY <1>1, <1>7 DEF Clean, PoolTypeOK
        <3>2. slot[c] \notin spoken => InHand(c)'
            <4>1. SUFFICES ASSUME slot[c] \notin spoken PROVE InHand(c)'
                OBVIOUS
            <4>2. Clean(slot[c])
                BY <1>1, <1>7, <4>1 DEF LineInv
            <4>3. stdin'[slot[c]] = <<call[c]>>
                BY <1>2, <1>7, <4>2 DEF Clean, PoolTypeOK
            <4> QED BY <1>1, <4>2, <4>3 DEF Clean, InHand
        <3>3. ASSUME NEW d \in Callers, d # c, InSlot(d)
              PROVE  slot[d] \in Slots \ {slot[c]} /\ (InHand(d)' <=> InHand(d))
            <4>1. slot[d] \in Slots \ {slot[c]}
                BY <1>2, <3>3, SlotOfCaller, SlotsDiffer
            <4> QED BY <1>1, <3>1, <4>1 DEF InHand, Clean
        <3>4. \A s \in Slots \ alive' : stdin'[s] = <<>> /\ running'[s] = 0
            BY <1>1, <1>7, <3>1 DEF LineInv
        <3>5. \A s \in (alive' \ inUse') \ spoken' : Clean(s)'
            BY <1>1, <1>2, <3>1, SlotOfCaller DEF LineInv, PoolTypeOK
        <3>6. ASSUME NEW d \in Callers
              PROVE  /\ pc'[d] \in {"send", "write", "release"} /\ slot'[d] \in alive' \ spoken' =>
                            Clean(slot[d])'
                     /\ pc'[d] = "read" /\ slot'[d] \notin spoken' => InHand(d)'
            <4>1. CASE d = c
                BY <1>1, <1>7, <3>2, <4>1 DEF PoolTypeOK
            <4>2. CASE d # c
                <5>1. pc'[d] = pc[d] /\ slot'[d] = slot[d]
                    BY <1>1, <1>3, <4>2
                <5> QED BY <1>1, <3>1, <3>3, <4>2, <5>1 DEF LineInv, InSlot
            <4> QED BY <4>1, <4>2
        <3> QED BY <3>4, <3>5, <3>6 DEF LineInv
    <2>4. ASSUME NEW s \in Slots, NEW i \in 1..Len(stdin'[s])
          PROVE  \/ i \in 1..Len(stdin[s]) /\ stdin'[s][i] = stdin[s][i]
                 \/ s = slot[c] /\ i = Len(stdin[s]) + 1 /\ stdin'[s][i] = call[c]
        BY <1>2, <1>7, <2>4 DEF PoolTypeOK
    <2>5. ~Waiting(call[c]) /\ runs[call[c]] = 0
        BY <1>1 DEF RunInv, Early
    <2>6. WaitsOnce'
        <3>1. SUFFICES ASSUME NEW s \in Slots, NEW t \in Slots, NEW i \in 1..Len(stdin'[s]),
                              NEW j \in 1..Len(stdin'[t]), stdin'[s][i] = stdin'[t][j]
                       PROVE  s = t /\ i = j
            BY DEF WaitsOnce
        <3> QED BY <2>4, <2>5, <3>1 DEF WaitsOnce, Waiting
    <2>7. \A n \in Calls : Waiting(n)' => Waiting(n) \/ n = call[c]
        BY <2>4 DEF Waiting
    <2>8. RunInv'
        <3>1. ASSUME NEW d \in Callers, d # c, Early(d) \/ Late(d)
              PROVE  call[d] \in Calls /\ (Waiting(call[d])' => Waiting(call[d]))
            <4>1. call[d] # call[c] /\ call[d] \in Calls
                BY <1>1, <3>1, CallOfCaller DEF CallInv, Early, Late
            <4> QED BY <1>1, <2>7, <4>1
        <3>2. ASSUME NEW d \in Callers, Early(d)'
              PROVE  runs'[call'[d]] = 0 /\ ~Waiting(call[d])'
            <4>1. d # c /\ Early(d)
                BY <1>3, <1>7, <3>2 DEF Early, PoolTypeOK
            <4> QED BY <1>1, <3>1, <4>1 DEF RunInv
        <3>3. ASSUME NEW d \in Callers, Late(d)'
              PROVE  runs'[call'[d]] <= 1 /\ (Waiting(call[d])' => runs'[call'[d]] = 0)
            <4>1. CASE d = c
                BY <1>1, <2>5, <4>1
            <4>2. CASE d # c
                <5>1. Late(d)
                    BY <1>3, <3>3, <4>2 DEF Late
                <5> QED BY <1>1, <3>1, <4>2, <5>1 DEF RunInv
            <4> QED BY <4>1, <4>2
        <3>4. \A n \in Calls : /\ runs'[n] <= 2
                               /\ Waiting(n)' => runs'[n] <= 1
                               /\ n > calls' => runs'[n] = 0 /\ ~Waiting(n)'
            <4>1. call[c] \in 1..calls /\ calls \in Nat
                BY <1>1 DEF CallInv, PoolTypeOK
            <4>2. \A n \in Calls : n > calls => n # call[c]
                BY <4>1 DEF Calls
            <4> QED BY <1>1, <2>5, <2>7, <4>2 DEF RunInv
        <3> QED BY <3>2, <3>3, <3>4 DEF RunInv
    <2> QED BY <1>4, <1>5, <2>1, <2>2, <2>3, <2>6, <2>8
<1> QED BY <1>6, <1>7 DEF Write, GoTo

\* The caller leaves with its own line, with one that does not parse, or with that of
\* another call out of a pipe a strategy has written to.
LEMMA TakeLineStep ==
    ASSUME IInv, NEW c \in Callers, TakeLine(c)
    PROVE  IInv'
<1> USE PoolAssumption DEF PoolAssumption, IInv, PoolInv
<1>1. /\ UNCHANGED <<inUse, alive, stdin, running, stderr, spoken, deaths, call, slot, calls,
                     strategy, large, runs>>
      /\ pc[c] = "read" /\ stdout[slot[c]] # <<>>
      /\ lock' = {} /\ pc' = [pc EXCEPT ![c] = "release"]
      /\ answer' = [answer EXCEPT ![c] = Head(stdout[slot[c]])]
    BY DEF TakeLine, GoTo
<1>2. slot[c] \in Slots /\ InSlot(c) /\ stdout[slot[c]] \in Seq(Lines)
    BY <1>1, SlotOfCaller DEF InSlot, PoolTypeOK
<1>3. pc'[c] = "release" /\ \A d \in Callers \ {c} : pc'[d] = pc[d]
    BY <1>1 DEF PoolTypeOK
<1>4. PICK k \in 1..Len(stdout[slot[c]]) :
         \/ stdout' = [stdout EXCEPT ![slot[c]] =
                          SubSeq(stdout[slot[c]], k + 1, Len(stdout[slot[c]]))]
         \/ /\ k > 1
            /\ stdout' = [stdout EXCEPT ![slot[c]] =
                             <<Junk>> \o SubSeq(stdout[slot[c]], k + 1, Len(stdout[slot[c]]))]
    BY DEF TakeLine
<1>5. PoolTypeOK'
    <2>1. Head(stdout[slot[c]]) \in Calls \cup {0}
        BY <1>1, <1>2 DEF Lines, Junk
    <2>2. /\ SubSeq(stdout[slot[c]], k + 1, Len(stdout[slot[c]])) \in Seq(Lines)
          /\ <<Junk>> \o SubSeq(stdout[slot[c]], k + 1, Len(stdout[slot[c]])) \in Seq(Lines)
        BY <1>2 DEF Lines, Junk
    <2>3. stdout' \in [Slots -> Seq(Lines)]
        BY <1>2, <1>4, <2>2 DEF PoolTypeOK
    <2> QED BY <1>1, <2>1, <2>3 DEF PoolTypeOK, Phases
<1>6. SlotInv'
    <2>1. \A d \in Callers \ {c} : pc[d] \notin {"write", "read"}
        BY <1>1, NobodyElseHolds
    <2>2. \A d \in Callers : InSlot(d)' <=> InSlot(d)
        BY <1>2, <1>3 DEF InSlot
    <2> QED BY <1>1, <1>3, <2>1, <2>2 DEF SlotInv
<1>7. slot[c] \notin spoken =>
         /\ stdin[slot[c]] = <<>> /\ running[slot[c]] = 0 /\ stdout'[slot[c]] = <<>>
         /\ answer'[c] \in {0, call[c]}
    <2>1. SUFFICES ASSUME slot[c] \notin spoken
                   PROVE  /\ stdin[slot[c]] = <<>> /\ running[slot[c]] = 0
                          /\ stdout'[slot[c]] = <<>> /\ answer'[c] \in {0, call[c]}
        OBVIOUS
    <2>2. InHand(c)
        BY <1>1, <2>1 DEF LineInv
    <2>3. /\ stdin[slot[c]] = <<>> /\ running[slot[c]] = 0
          /\ stdout[slot[c]] \in {<<call[c]>>, <<Junk>>}
        BY <1>1, <2>2 DEF InHand, Clean
    <2>4. Len(stdout[slot[c]]) = 1 /\ Head(stdout[slot[c]]) \in {0, call[c]}
        BY <2>3 DEF Junk
    <2>5. k = 1 /\ SubSeq(stdout[slot[c]], k + 1, Len(stdout[slot[c]])) = <<>>
        <3>1. k = 1
            BY <2>4
        <3>2. SubSeq(stdout[slot[c]], 2, 1) = <<>>
            BY <1>2
        <3> QED BY <2>4, <3>1, <3>2
    <2>6. stdout'[slot[c]] = <<>>
        <3>1. stdout' = [stdout EXCEPT ![slot[c]] = <<>>]
            <4>1. ~(k > 1)
                BY <2>5
            <4>2. stdout' = [stdout EXCEPT ![slot[c]] =
                                SubSeq(stdout[slot[c]], k + 1, Len(stdout[slot[c]]))]
                BY <1>4, <4>1, Zenon
            <4> QED BY <2>5, <4>2, Zenon
        <3> QED BY <1>2, <3>1 DEF PoolTypeOK
    <2> QED BY <1>1, <2>3, <2>4, <2>6 DEF PoolTypeOK
<1>8. LineInv'
    <2>1. \A s \in Slots \ {slot[c]} : stdout'[s] = stdout[s] /\ (Clean(s)' <=> Clean(s))
        BY <1>1, <1>4 DEF Clean, PoolTypeOK
    <2>2. ASSUME NEW d \in Callers, d # c, InSlot(d)
          PROVE  slot[d] \in Slots \ {slot[c]} /\ (InHand(d)' <=> InHand(d))
        <3>1. slot[d] \in Slots \ {slot[c]}
            BY <1>2, <2>2, SlotOfCaller, SlotsDiffer
        <3> QED BY <1>1, <2>1, <3>1 DEF InHand, Clean
    <2>3. ASSUME NEW d \in Callers
          PROVE  /\ pc'[d] \in {"send", "write", "release"} /\ slot'[d] \in alive' \ spoken' =>
                        Clean(slot[d])'
                 /\ pc'[d] = "read" /\ slot'[d] \notin spoken' => InHand(d)'
        <3>1. CASE d = c
            BY <1>1, <1>3, <1>7, <3>1 DEF Clean
        <3>2. CASE d # c
            BY <1>1, <1>3, <2>1, <2>2, <3>2 DEF LineInv, InSlot
        <3> QED BY <3>1, <3>2
    <2>4. \A s \in (alive' \ inUse') \ spoken' : Clean(s)'
        BY <1>1, <1>2, <2>1, SlotOfCaller DEF LineInv, PoolTypeOK
    <2> QED BY <1>1, <2>3, <2>4 DEF LineInv
<1>9. OwnAnswer' /\ CallInv'
    <2>1. OwnAnswer'
        BY <1>1, <1>3, <1>7 DEF OwnAnswer, PoolTypeOK
    <2>2. CallInv'
        BY <1>1, <1>3 DEF CallInv, PoolTypeOK
    <2> QED BY <2>1, <2>2
<1>10. WaitsOnce' /\ RunInv'
    <2>1. WaitsOnce' /\ \A n \in Calls : Waiting(n)' => Waiting(n)
        BY <1>1 DEF WaitsOnce, Waiting
    <2>2. \A d \in Callers : (Early(d)' => Early(d)) /\ (Late(d)' => Early(d) \/ Late(d))
        BY <1>1, <1>3 DEF Early, Late
    <2> QED BY <1>1, <2>1, <2>2, CallOfCaller, RunsFrame
<1> QED BY <1>5, <1>6, <1>8, <1>9, <1>10

LEMMA EndOfFileStep ==
    ASSUME IInv, NEW c \in Callers, EndOfFile(c)
    PROVE  IInv'
<1> USE PoolAssumption DEF PoolAssumption, IInv, PoolInv
<1>1. /\ UNCHANGED <<inUse, alive, stdin, running, stdout, stderr, spoken, deaths, call, slot,
                     answer, calls, strategy, large, runs>>
      /\ pc[c] = "read" /\ slot[c] \notin alive
      /\ lock' = {} /\ pc' = [pc EXCEPT ![c] = "release"]
    BY DEF EndOfFile, GoTo, processVars, pipeVars
<1>2. pc'[c] = "release" /\ \A d \in Callers \ {c} : pc'[d] = pc[d]
    BY <1>1 DEF PoolTypeOK
<1>3. PoolTypeOK'
    BY <1>1 DEF PoolTypeOK, Phases
<1>4. SlotInv'
    <2>1. \A d \in Callers \ {c} : pc[d] \notin {"write", "read"}
        BY <1>1, NobodyElseHolds
    <2>2. \A d \in Callers : InSlot(d)' <=> InSlot(d)
        BY <1>1, <1>2 DEF InSlot
    <2> QED BY <1>1, <1>2, <2>1, <2>2 DEF SlotInv
<1>5. LineInv'
    BY <1>1, <1>2 DEF LineInv, InHand, Clean
<1>6. OwnAnswer' /\ CallInv'
    BY <1>1, <1>2 DEF OwnAnswer, CallInv
<1>7. WaitsOnce' /\ \A n \in Calls : Waiting(n)' => Waiting(n)
    BY <1>1 DEF WaitsOnce, Waiting
<1>8. \A d \in Callers : (Early(d)' => Early(d)) /\ (Late(d)' => Early(d) \/ Late(d))
    BY <1>1, <1>2 DEF Early, Late
<1>9. RunInv'
    BY <1>1, <1>7, <1>8, CallOfCaller, RunsFrame
<1> QED BY <1>3, <1>4, <1>5, <1>6, <1>7, <1>9

\* A slot is given back as it is, or with a new process and empty pipes.
LEMMA ReleaseStep ==
    ASSUME IInv, NEW c \in Callers, Release(c)
    PROVE  IInv'
<1> USE PoolAssumption DEF PoolAssumption, IInv, PoolInv
<1>1. /\ UNCHANGED <<lock, deaths, call, calls, strategy, large, runs>>
      /\ pc[c] = "release" /\ lock = {} /\ inUse' = inUse \ {slot[c]}
      /\ slot' = [slot EXCEPT ![c] = 0] /\ answer' = [answer EXCEPT ![c] = 0]
    BY DEF Release
<1>2. /\ pc' \in [Callers -> Phases] /\ pc'[c] \in {"fallback", "idle"}
      /\ \A d \in Callers \ {c} : pc'[d] = pc[d] /\ slot'[d] = slot[d] /\ answer'[d] = answer[d]
    <2>1. pc' = [pc EXCEPT ![c] = "fallback"] \/ pc' = [pc EXCEPT ![c] = "idle"]
        BY DEF Release, GoTo
    <2> QED BY <1>1, <2>1 DEF PoolTypeOK, Phases
<1>3. slot[c] \in Slots /\ InSlot(c)
    BY <1>1, SlotOfCaller DEF InSlot
<1>4. ASSUME NEW d \in Callers, d # c, InSlot(d)
      PROVE  slot[d] \in Slots \ {slot[c]}
    BY <1>3, <1>4, SlotOfCaller, SlotsDiffer
<1>5. /\ alive' \in SUBSET Slots /\ spoken' \in SUBSET Slots
      /\ stdin' \in [Slots -> Seq(Calls)] /\ running' \in [Slots -> Calls \cup {0}]
      /\ stdout' \in [Slots -> Seq(Lines)] /\ stderr' \in [Slots -> Nat]
      /\ \A s \in Slots \ {slot[c]} :
            /\ s \in alive' <=> s \in alive
            /\ s \in spoken' <=> s \in spoken
            /\ stdin'[s] = stdin[s] /\ running'[s] = running[s] /\ stdout'[s] = stdout[s]
      /\ stdin'[slot[c]] = stdin[slot[c]] \/ stdin'[slot[c]] = <<>>
      /\ slot[c] \notin alive' => stdin'[slot[c]] = <<>> /\ running'[slot[c]] = 0
      /\ slot[c] \in alive' \ spoken' =>
            stdin'[slot[c]] = <<>> /\ running'[slot[c]] = 0 /\ stdout'[slot[c]] = <<>>
    <2>1. CASE UNCHANGED <<alive, pipeVars>>
        <3>1. UNCHANGED <<alive, stdin, running, stdout, stderr, spoken>>
            BY <2>1 DEF pipeVars
        <3>2. slot[c] \notin alive => stdin[slot[c]] = <<>> /\ running[slot[c]] = 0
            BY <1>3 DEF LineInv
        <3>3. slot[c] \in alive \ spoken => Clean(slot[c])
            BY <1>1 DEF LineInv
        <3> QED BY <3>1, <3>2, <3>3 DEF PoolTypeOK, Clean
    <2>2. CASE /\ slot[c] \notin alive
               /\ alive' = alive \cup {slot[c]}
               /\ stdin' = [stdin EXCEPT ![slot[c]] = <<>>]
               /\ running' = [running EXCEPT ![slot[c]] = 0]
               /\ stdout' = [stdout EXCEPT ![slot[c]] = <<>>]
               /\ stderr' = [stderr EXCEPT ![slot[c]] = 0]
               /\ spoken' = spoken \ {slot[c]}
        <3>1. /\ stdin' \in [Slots -> Seq(Calls)] /\ stdin'[slot[c]] = <<>>
              /\ \A s \in Slots \ {slot[c]} : stdin'[s] = stdin[s]
            BY <1>3, <2>2 DEF PoolTypeOK
        <3>2. /\ stdout' \in [Slots -> Seq(Lines)] /\ stdout'[slot[c]] = <<>>
              /\ \A s \in Slots \ {slot[c]} : stdout'[s] = stdout[s]
            BY <1>3, <2>2 DEF PoolTypeOK
        <3>3. /\ running' \in [Slots -> Calls \cup {0}] /\ running'[slot[c]] = 0
              /\ \A s \in Slots \ {slot[c]} : running'[s] = running[s]
            BY <1>3, <2>2 DEF PoolTypeOK
        <3>4. stderr' \in [Slots -> Nat]
            BY <1>3, <2>2 DEF PoolTypeOK
        <3> QED BY <1>3, <2>2, <3>1, <3>2, <3>3, <3>4 DEF PoolTypeOK
    <2> QED BY <2>1, <2>2 DEF Release
<1>6. PoolTypeOK'
    BY <1>1, <1>2, <1>5 DEF PoolTypeOK
<1>7. SlotInv'
    <2>1. \A d \in Callers : InSlot(d)' <=> d # c /\ InSlot(d)
        BY <1>2 DEF InSlot
    <2>2. \A d, e \in Callers : InSlot(d)' /\ InSlot(e)' /\ slot'[d] = slot'[e] => d = e
        BY <1>2, <2>1 DEF SlotInv
    <2>3. inUse' = {slot'[d] : d \in {e \in Callers : InSlot(e)'}}
        BY <1>1, <1>2, <1>3, <1>4, <2>1 DEF SlotInv
    <2>4. \A d \in Callers : lock' = {d} <=> pc'[d] \in {"write", "read"}
        BY <1>1, <1>2 DEF SlotInv
    <2> QED BY <2>2, <2>3, <2>4 DEF SlotInv, InSlot
<1>8. LineInv'
    <2>1. \A s \in Slots \ {slot[c]} : Clean(s)' <=> Clean(s)
        BY <1>5 DEF Clean
    <2>2. \A s \in Slots \ alive' : stdin'[s] = <<>> /\ running'[s] = 0
        BY <1>5 DEF LineInv
    <2>3. \A s \in (alive' \ inUse') \ spoken' : Clean(s)'
        <3>1. SUFFICES ASSUME NEW s \in (alive' \ inUse') \ spoken' PROVE Clean(s)'
            OBVIOUS
        <3>2. CASE s = slot[c]
            BY <1>5, <3>2 DEF Clean
        <3>3. CASE s # slot[c]
            BY <1>1, <1>5, <2>1, <3>3 DEF LineInv
        <3> QED BY <3>2, <3>3
    <2>4. ASSUME NEW d \in Callers
          PROVE  /\ pc'[d] \in {"send", "write", "release"} /\ slot'[d] \in alive' \ spoken' =>
                        Clean(slot[d])'
                 /\ pc'[d] = "read" /\ slot'[d] \notin spoken' => InHand(d)'
        <3>1. CASE d = c
            BY <1>2, <3>1
        <3>2. CASE d # c
            <4>1. pc'[d] # "read"
                BY <1>1, <1>2, <3>2 DEF SlotInv
            <4>2. ASSUME pc'[d] \in {"send", "write", "release"}
                  PROVE  /\ pc[d] \in {"send", "write", "release"} /\ slot'[d] = slot[d]
                         /\ slot[d] \in Slots \ {slot[c]}
                BY <1>2, <1>4, <3>2, <4>2 DEF InSlot
            <4> QED BY <1>5, <2>1, <4>1, <4>2 DEF LineInv
        <3> QED BY <3>1, <3>2
    <2> QED BY <2>2, <2>3, <2>4 DEF LineInv
<1>9. OwnAnswer' /\ CallInv'
    <2>1. OwnAnswer'
        <3>1. SUFFICES ASSUME NEW d \in Callers, pc'[d] = "release"
                       PROVE  answer'[d] \in {0, call'[d]} \/ slot'[d] \in spoken'
            BY DEF OwnAnswer
        <3>2. d # c /\ pc[d] = "release" /\ slot[d] \in Slots \ {slot[c]}
            BY <1>2, <1>4, <3>1 DEF InSlot
        <3> QED BY <1>1, <1>2, <1>5, <3>2 DEF OwnAnswer
    <2>2. CallInv'
        BY <1>1, <1>2 DEF CallInv, PoolTypeOK
    <2> QED BY <2>1, <2>2
<1>10. WaitsOnce' /\ RunInv'
    <2>1. ASSUME NEW s \in Slots, NEW i \in 1..Len(stdin'[s])
          PROVE  i \in 1..Len(stdin[s]) /\ stdin'[s][i] = stdin[s][i]
        <3>1. stdin'[s] = stdin[s] \/ stdin'[s] = <<>>
            BY <1>5
        <3> QED BY <2>1, <3>1
    <2>2. WaitsOnce' /\ \A n \in Calls : Waiting(n)' => Waiting(n)
        BY <2>1 DEF WaitsOnce, Waiting
    <2>3. \A d \in Callers : (Early(d)' => Early(d)) /\ (Late(d)' => Early(d) \/ Late(d))
        BY <1>1, <1>2 DEF Early, Late
    <2> QED BY <1>1, <2>2, <2>3, CallOfCaller, RunsFrame
<1> QED BY <1>6, <1>7, <1>8, <1>9, <1>10

-----------------------------------------------------------------------------
(* The single-shot process *)

LEMMA SingleStep ==
    ASSUME IInv, NEW c \in Callers, Fallback(c) \/ SingleEnds(c) \/ SingleTimesOut(c)
    PROVE  IInv'
<1> USE PoolAssumption DEF PoolAssumption, IInv, PoolInv
<1>1. /\ UNCHANGED <<lock, inUse, alive, stdin, running, stdout, stderr, spoken, deaths, call,
                     slot, answer, calls, strategy, large>>
      /\ pc[c] \in {"fallback", "single"}
    BY DEF Fallback, SingleEnds, SingleTimesOut, poolVars, processVars, pipeVars
<1>2. call[c] \in Calls
    BY <1>1, CallOfCaller
<1>3. /\ pc' \in [Callers -> Phases] /\ pc'[c] \in {"single", "idle"}
      /\ \A d \in Callers \ {c} : pc'[d] = pc[d]
    BY DEF Fallback, SingleEnds, SingleTimesOut, GoTo, PoolTypeOK, Phases
<1>4. \/ runs' = runs
      \/ pc[c] = "fallback" /\ runs' = [runs EXCEPT ![call[c]] = runs[call[c]] + 1]
    BY DEF Fallback, SingleEnds, SingleTimesOut
<1>5. PoolTypeOK'
    BY <1>1, <1>2, <1>3, <1>4 DEF PoolTypeOK
<1>6. SlotInv' /\ LineInv' /\ OwnAnswer'
    <2>1. \A d \in Callers, phase \in {"send", "write", "read", "release"} :
             pc'[d] = phase <=> pc[d] = phase
        BY <1>1, <1>3
    <2>2. \A d \in Callers : InSlot(d)' <=> InSlot(d)
        BY <2>1 DEF InSlot
    <2>3. SlotInv'
        BY <1>1, <2>1, <2>2 DEF SlotInv
    <2>4. LineInv' /\ OwnAnswer'
        BY <1>1, <2>1 DEF LineInv, InHand, Clean, OwnAnswer
    <2> QED BY <2>3, <2>4
<1>7. CallInv' /\ WaitsOnce' /\ \A n \in Calls : Waiting(n)' => Waiting(n)
    BY <1>1, <1>3 DEF CallInv, WaitsOnce, Waiting
<1>8. \A d \in Callers : /\ (Early(d)' => Early(d) /\ d # c)
                         /\ (Late(d)' => Late(d) /\ d # c)
    BY <1>3 DEF Early, Late
<1>9. RunInv'
    <2>1. CASE runs' = runs
        BY <1>1, <1>7, <1>8, <2>1, CallOfCaller, RunsFrame
    <2>2. CASE pc[c] = "fallback" /\ runs' = [runs EXCEPT ![call[c]] = runs[call[c]] + 1]
        <3>1. runs[call[c]] <= 1 /\ (Waiting(call[c]) => runs[call[c]] = 0)
            BY <2>2 DEF RunInv, Late
        <3>2. /\ runs'[call[c]] = runs[call[c]] + 1 /\ runs[call[c]] \in Nat
              /\ \A n \in Calls \ {call[c]} : runs'[n] = runs[n]
            BY <1>2, <2>2 DEF PoolTypeOK
        <3>3. call[c] \in 1..calls /\ calls \in Nat
            BY <1>1 DEF CallInv, PoolTypeOK
        <3>4. \A n \in Calls : /\ runs'[n] <= 2
                               /\ Waiting(n)' => runs'[n] <= 1
                               /\ n > calls' => runs'[n] = 0 /\ ~Waiting(n)'
            <4>1. \A n \in Calls : n > calls => n # call[c]
                BY <3>3 DEF Calls
            <4> QED BY <1>1, <1>7, <3>1, <3>2, <4>1 DEF RunInv
        <3>5. ASSUME NEW d \in Callers, d # c, pc[d] # "idle"
              PROVE  call[d] \in Calls \ {call[c]}
            BY <1>1, <3>5, CallOfCaller DEF CallInv
        <3>6. \A d \in Callers : Early(d)' => runs'[call'[d]] = 0 /\ ~Waiting(call[d])'
            BY <1>1, <1>7, <1>8, <3>2, <3>5 DEF RunInv, Early
        <3>7. \A d \in Callers : Late(d)' => /\ runs'[call'[d]] <= 1
                                             /\ Waiting(call[d])' => runs'[call'[d]] = 0
            BY <1>1, <1>7, <1>8, <3>2, <3>5 DEF RunInv, Late
        <3> QED BY <3>4, <3>6, <3>7 DEF RunInv
    <2> QED BY <1>4, <2>1, <2>2
<1> QED BY <1>5, <1>6, <1>7, <1>9

-----------------------------------------------------------------------------
(* The pooled processes *)

\* A step of one process leaves the lines of the others alone.
LEMMA LineFrame ==
    ASSUME PoolInv, NEW s \in Slots, UNCHANGED <<inUse, pc, call, slot>>,
           alive' \in SUBSET Slots,
           \A t \in Slots \ {s} : /\ t \in alive' <=> t \in alive
                                  /\ t \in spoken' <=> t \in spoken
                                  /\ stdin'[t] = stdin[t] /\ running'[t] = running[t]
                                  /\ stdout'[t] = stdout[t],
           s \notin alive' => stdin'[s] = <<>> /\ running'[s] = 0,
           s \in (alive' \ inUse) \ spoken' => Clean(s)',
           \A c \in Callers : InSlot(c) /\ slot[c] = s /\ s \notin spoken' =>
               /\ pc[c] # "read" /\ s \in alive' => Clean(s)'
               /\ pc[c] = "read" => InHand(c)'
    PROVE  LineInv'
<1> USE DEF PoolInv
<1>1. \A t \in Slots \ {s} : Clean(t)' <=> Clean(t)
    BY DEF Clean
<1>2. \A t \in Slots \ alive' : stdin'[t] = <<>> /\ running'[t] = 0
    BY DEF LineInv
<1>3. \A t \in (alive' \ inUse') \ spoken' : Clean(t)'
    <2>1. SUFFICES ASSUME NEW t \in (alive' \ inUse') \ spoken' PROVE Clean(t)'
        OBVIOUS
    <2>2. CASE t = s
        BY <2>2
    <2>3. CASE t # s
        BY <1>1, <2>3 DEF LineInv
    <2> QED BY <2>2, <2>3
<1>4. ASSUME NEW c \in Callers
      PROVE  /\ pc'[c] \in {"send", "write", "release"} /\ slot'[c] \in alive' \ spoken' =>
                    Clean(slot[c])'
             /\ pc'[c] = "read" /\ slot'[c] \notin spoken' => InHand(c)'
    <2>1. CASE ~InSlot(c)
        BY <2>1 DEF InSlot
    <2>2. CASE InSlot(c) /\ slot[c] = s
        <3>1. Clean(slot[c])' <=> Clean(s)'
            BY <2>2 DEF Clean
        <3> QED BY <2>2, <3>1
    <2>3. CASE InSlot(c) /\ slot[c] # s
        <3>1. slot[c] \in Slots \ {s}
            BY <2>3, SlotOfCaller
        <3>2. (Clean(slot[c])' <=> Clean(slot[c])) /\ (InHand(c)' <=> InHand(c))
            BY <3>1 DEF Clean, InHand
        <3> QED BY <3>1, <3>2 DEF LineInv
    <2> QED BY <2>1, <2>2, <2>3
<1> QED BY <1>2, <1>3, <1>4 DEF LineInv

\* What a process has taken or been sent, it was sent by the caller that waits for it,
\* unless its lines are crossed.
LEMMA WorkHasReader ==
    ASSUME PoolInv, NEW s \in alive \ spoken, ~Clean(s)
    PROVE  \E c \in Callers : pc[c] = "read" /\ slot[c] = s /\ InHand(c)
<1>1. s \in inUse
    BY DEF PoolInv, PoolTypeOK, LineInv
<1>2. PICK c \in Callers : InSlot(c) /\ slot[c] = s
    BY <1>1 DEF PoolInv, SlotInv
<1>3. pc[c] = "read"
    BY <1>2 DEF PoolInv, LineInv, InSlot
<1> QED BY <1>2, <1>3 DEF PoolInv, LineInv

LEMMA BeginStep ==
    ASSUME IInv, NEW s \in Slots, Begin(s)
    PROVE  IInv'
<1> USE PoolAssumption DEF PoolAssumption, IInv, PoolInv
<1> DEFINE n == Head(stdin[s])
<1>1. /\ UNCHANGED <<lock, inUse, alive, stdout, stderr, spoken, deaths, pc, call, slot, answer,
                     calls, strategy, large>>
      /\ s \in alive /\ running[s] = 0 /\ stdin[s] # <<>>
      /\ running' = [running EXCEPT ![s] = n] /\ stdin' = [stdin EXCEPT ![s] = Tail(stdin[s])]
      /\ runs' = [runs EXCEPT ![n] = runs[n] + 1]
    BY DEF Begin, poolVars
<1>2. /\ stdin[s] \in Seq(Calls) /\ n \in Calls /\ Tail(stdin[s]) \in Seq(Calls)
      /\ Len(stdin[s]) \in Nat /\ 1 \in 1..Len(stdin[s]) /\ stdin[s][1] = n
    BY <1>1 DEF PoolTypeOK
<1>3. PoolTypeOK'
    BY <1>1, <1>2 DEF PoolTypeOK
<1>4. SlotInv' /\ OwnAnswer' /\ CallInv'
    BY <1>1 DEF SlotInv, InSlot, OwnAnswer, CallInv
<1>5. LineInv'
    <2>1. s \notin spoken => \E c \in Callers : pc[c] = "read" /\ slot[c] = s /\ InHand(c)
        BY <1>1, WorkHasReader DEF Clean
    <2>2. s \notin spoken' => s \in inUse
        BY <1>1, <2>1, SlotOfCaller DEF InSlot
    <2>3. ASSUME NEW c \in Callers, InSlot(c), slot[c] = s, s \notin spoken'
          PROVE  pc[c] = "read" /\ InHand(c)'
        <3>1. pc[c] = "read" /\ InHand(c)
            BY <1>1, <2>1, <2>3, SlotsDiffer DEF InSlot
        <3>2. stdin[s] = <<call[c]>> /\ stdout[s] = <<>>
            BY <1>1, <2>3, <3>1 DEF InHand, Clean
        <3>3. n = call[c] /\ Tail(stdin[s]) = <<>>
            BY <1>2, <3>2
        <3>4. stdin'[s] = <<>> /\ running'[s] = call[c] /\ stdout'[s] = <<>>
            BY <1>1, <3>2, <3>3 DEF PoolTypeOK
        <3> QED BY <1>1, <2>3, <3>1, <3>4 DEF InHand
    <2>4. \A t \in Slots \ {s} : stdin'[t] = stdin[t] /\ running'[t] = running[t]
        BY <1>1 DEF PoolTypeOK
    <2>5. alive' \in SUBSET Slots
        BY <1>1 DEF PoolTypeOK
    <2> QED BY <1>1, <2>2, <2>3, <2>4, <2>5, LineFrame
<1>6. ASSUME NEW t \in Slots, NEW i \in 1..Len(stdin'[t])
      PROVE  IF t = s THEN i + 1 \in 1..Len(stdin[t]) /\ stdin'[t][i] = stdin[t][i + 1]
                      ELSE i \in 1..Len(stdin[t]) /\ stdin'[t][i] = stdin[t][i]
    <2>1. CASE t = s
        <3>1. stdin'[s] = Tail(stdin[s])
            BY <1>1 DEF PoolTypeOK
        <3> QED BY <1>2, <1>6, <2>1, <3>1
    <2>2. CASE t # s
        <3>1. stdin'[t] = stdin[t]
            BY <1>1, <2>2 DEF PoolTypeOK
        <3> QED BY <1>6, <2>2, <3>1
    <2> QED BY <2>1, <2>2
<1>7. WaitsOnce'
    <2>1. SUFFICES ASSUME NEW t \in Slots, NEW u \in Slots, NEW i \in 1..Len(stdin'[t]),
                          NEW j \in 1..Len(stdin'[u]), stdin'[t][i] = stdin'[u][j]
                   PROVE  t = u /\ i = j
        BY DEF WaitsOnce
    <2> DEFINE p == IF t = s THEN i + 1 ELSE i
               q == IF u = s THEN j + 1 ELSE j
    <2>2. p \in 1..Len(stdin[t]) /\ stdin'[t][i] = stdin[t][p]
        BY <1>6
    <2>3. q \in 1..Len(stdin[u]) /\ stdin'[u][j] = stdin[u][q]
        BY <1>6
    <2> HIDE DEF p, q
    <2>4. stdin[t][p] = stdin[u][q]
        BY <2>1, <2>2, <2>3
    <2>5. t = u /\ p = q
        BY <2>2, <2>3, <2>4 DEF WaitsOnce
    <2> QED BY <2>5 DEF p, q
<1>8. Waiting(n) /\ (\A m \in Calls : Waiting(m)' => Waiting(m) /\ m # n)
    <2>1. Waiting(n)
        BY <1>2 DEF Waiting
    <2>2. ASSUME NEW m \in Calls, NEW t \in Slots, NEW i \in 1..Len(stdin'[t]), stdin'[t][i] = m
          PROVE  Waiting(m) /\ m # n
        <3>1. Waiting(m)
            BY <1>6, <2>2 DEF Waiting
        <3>2. m # n
            BY <1>2, <1>6, <2>2 DEF WaitsOnce
        <3> QED BY <3>1, <3>2
    <2> QED BY <2>1, <2>2 DEF Waiting
<1>9. RunInv'
    <2>1. /\ runs'[n] = runs[n] + 1 /\ runs[n] \in Nat /\ runs[n] <= 1
          /\ \A m \in Calls \ {n} : runs'[m] = runs[m]
        BY <1>1, <1>2, <1>8 DEF RunInv, PoolTypeOK
    <2>2. \A m \in Calls : /\ runs'[m] <= 2
                           /\ Waiting(m)' => runs'[m] <= 1
                           /\ m > calls' => runs'[m] = 0 /\ ~Waiting(m)'
        BY <1>1, <1>2, <1>8, <2>1 DEF RunInv
    <2>3. ASSUME NEW c \in Callers, Early(c)'
          PROVE  runs'[call'[c]] = 0 /\ ~Waiting(call[c])'
        <3>1. Early(c) /\ call[c] \in Calls
            BY <1>1, <2>3, CallOfCaller DEF Early
        <3> QED BY <1>1, <1>8, <2>1, <3>1 DEF RunInv
    <2>4. ASSUME NEW c \in Callers, Late(c)'
          PROVE  runs'[call'[c]] <= 1 /\ (Waiting(call[c])' => runs'[call'[c]] = 0)
        <3>1. Late(c) /\ call[c] \in Calls
            BY <1>1, <2>4, CallOfCaller DEF Late
        <3> QED BY <1>1, <1>8, <2>1, <3>1 DEF RunInv
    <2> QED BY <2>2, <2>3, <2>4 DEF RunInv
<1> QED BY <1>3, <1>4, <1>5, <1>7, <1>9

\* From here on nothing is said of the lines of this process.
LEMMA SpeakStep ==
    ASSUME IInv, NEW s \in Slots, Speak(s)
    PROVE  IInv'
<1> USE PoolAssumption DEF PoolAssumption, IInv, PoolInv
<1>1. /\ UNCHANGED <<lock, inUse, alive, stdin, running, stderr, deaths, pc, call, slot, answer,
                     calls, strategy, large, runs>>
      /\ running[s] # 0 /\ spoken' = spoken \cup {s}
      /\ stdout' = [stdout EXCEPT ![s] = Append(stdout[s], Junk)]
    BY DEF Speak, poolVars, callerVars
<1>2. PoolTypeOK'
    BY <1>1 DEF PoolTypeOK, Lines
<1>3. SlotInv' /\ OwnAnswer' /\ CallInv'
    BY <1>1 DEF SlotInv, InSlot, OwnAnswer, CallInv
<1>4. LineInv'
    <2>1. s \in alive /\ s \in spoken' /\ alive' \in SUBSET Slots
        BY <1>1 DEF LineInv, PoolTypeOK
    <2>2. \A t \in Slots \ {s} : stdout'[t] = stdout[t] /\ (t \in spoken' <=> t \in spoken)
        BY <1>1 DEF PoolTypeOK
    <2> QED BY <1>1, <2>1, <2>2, LineFrame
<1>5. WaitsOnce' /\ \A n \in Calls : Waiting(n)' => Waiting(n)
    BY <1>1 DEF WaitsOnce, Waiting
<1>6. \A d \in Callers : (Early(d)' => Early(d)) /\ (Late(d)' => Early(d) \/ Late(d))
    BY <1>1 DEF Early, Late
<1>7. RunInv'
    BY <1>1, <1>5, <1>6, CallOfCaller, RunsFrame
<1> QED BY <1>2, <1>3, <1>4, <1>5, <1>7

LEMMA AnswerStep ==
    ASSUME IInv, NEW s \in Slots, Answer(s)
    PROVE  IInv'
<1> USE PoolAssumption DEF PoolAssumption, IInv, PoolInv
<1>1. /\ UNCHANGED <<lock, inUse, alive, stdin, spoken, deaths, pc, call, slot, answer, calls,
                     strategy, large, runs>>
      /\ running[s] # 0 /\ running' = [running EXCEPT ![s] = 0]
    BY DEF Answer, poolVars, callerVars
<1>2. PICK line \in {Junk, running[s]} : stdout' = [stdout EXCEPT ![s] = Append(stdout[s], line)]
    BY DEF Answer
<1>3. PoolTypeOK'
    <2>1. line \in Lines
        BY <1>1, <1>2 DEF PoolTypeOK, Lines
    <2>2. stdout' \in [Slots -> Seq(Lines)]
        BY <1>2, <2>1 DEF PoolTypeOK
    <2>3. stderr' \in [Slots -> Nat]
        BY DEF Answer, PoolTypeOK
    <2> QED BY <1>1, <2>2, <2>3 DEF PoolTypeOK
<1>4. SlotInv' /\ OwnAnswer' /\ CallInv'
    BY <1>1 DEF SlotInv, InSlot, OwnAnswer, CallInv
<1>5. LineInv'
    <2>0. s \in alive
        BY <1>1 DEF LineInv
    <2>1. s \notin spoken => \E c \in Callers : pc[c] = "read" /\ slot[c] = s /\ InHand(c)
        BY <1>1, <2>0, WorkHasReader DEF Clean
    <2>2. s \notin spoken' => s \in inUse
        BY <1>1, <2>1, SlotOfCaller DEF InSlot
    <2>3. ASSUME NEW c \in Callers, InSlot(c), slot[c] = s, s \notin spoken'
          PROVE  pc[c] = "read" /\ InHand(c)'
        <3>1. pc[c] = "read" /\ InHand(c)
            BY <1>1, <2>1, <2>3, SlotsDiffer DEF InSlot
        <3>2. stdin[s] = <<>> /\ running[s] = call[c] /\ stdout[s] = <<>>
            BY <1>1, <2>3, <3>1 DEF InHand, Clean
        <3>3. Append(stdout[s], line) \in {<<call[c]>>, <<Junk>>}
            BY <1>2, <3>2
        <3>4. stdin'[s] = <<>> /\ running'[s] = 0 /\ stdout'[s] \in {<<call[c]>>, <<Junk>>}
            BY <1>1, <1>2, <3>2, <3>3 DEF PoolTypeOK
        <3> QED BY <1>1, <2>3, <3>1, <3>4 DEF InHand
    <2>4. \A t \in Slots \ {s} : stdout'[t] = stdout[t] /\ running'[t] = running[t]
        BY <1>1, <1>2 DEF PoolTypeOK
    <2>5. alive' \in SUBSET Slots
        BY <1>1 DEF PoolTypeOK
    <2> QED BY <1>1, <2>0, <2>2, <2>3, <2>4, <2>5, LineFrame
<1>6. WaitsOnce' /\ \A n \in Calls : Waiting(n)' => Waiting(n)
    BY <1>1 DEF WaitsOnce, Waiting
<1>7. \A d \in Callers : (Early(d)' => Early(d)) /\ (Late(d)' => Early(d) \/ Late(d))
    BY <1>1 DEF Early, Late
<1>8. RunInv'
    BY <1>1, <1>6, <1>7, CallOfCaller, RunsFrame
<1> QED BY <1>3, <1>4, <1>5, <1>6, <1>8

LEMMA DieStep ==
    ASSUME IInv, NEW s \in Slots, Die(s)
    PROVE  IInv'
<1> USE PoolAssumption DEF PoolAssumption, IInv, PoolInv
<1>1. /\ UNCHANGED <<lock, inUse, stdout, stderr, spoken, pc, call, slot, answer, calls, strategy,
                     large, runs>>
      /\ alive' = alive \ {s} /\ stdin' = [stdin EXCEPT ![s] = <<>>]
      /\ running' = [running EXCEPT ![s] = 0] /\ deaths' \in Nat
    BY DEF Die, poolVars, callerVars, PoolTypeOK
<1>2. PoolTypeOK'
    BY <1>1 DEF PoolTypeOK
<1>3. SlotInv' /\ OwnAnswer' /\ CallInv'
    BY <1>1 DEF SlotInv, InSlot, OwnAnswer, CallInv
<1>4. LineInv'
    <2>1. stdin'[s] = <<>> /\ running'[s] = 0 /\ s \notin alive' /\ alive' \in SUBSET Slots
        BY <1>1 DEF PoolTypeOK
    <2>2. \A t \in Slots \ {s} : stdin'[t] = stdin[t] /\ running'[t] = running[t]
        BY <1>1 DEF PoolTypeOK
    <2>3. ASSUME NEW c \in Callers, pc[c] = "read", slot[c] = s, s \notin spoken
          PROVE  InHand(c)'
        <3>1. InHand(c)
            BY <2>3 DEF LineInv
        <3>2. stdout[s] = <<>> \/ stdout[s] \in {<<call[c]>>, <<Junk>>}
            BY <2>3, <3>1 DEF InHand, Clean
        <3> QED BY <1>1, <2>1, <2>3, <3>2 DEF InHand, Clean
    <2> QED BY <1>1, <2>1, <2>2, <2>3, LineFrame
<1>5. ASSUME NEW t \in Slots, NEW i \in 1..Len(stdin'[t])
      PROVE  i \in 1..Len(stdin[t]) /\ stdin'[t][i] = stdin[t][i]
    <2>1. stdin'[t] = stdin[t] \/ stdin'[t] = <<>>
        BY <1>1 DEF PoolTypeOK
    <2> QED BY <1>5, <2>1
<1>6. WaitsOnce' /\ \A n \in Calls : Waiting(n)' => Waiting(n)
    BY <1>5 DEF WaitsOnce, Waiting
<1>7. \A d \in Callers : (Early(d)' => Early(d)) /\ (Late(d)' => Early(d) \/ Late(d))
    BY <1>1 DEF Early, Late
<1>8. RunInv'
    BY <1>1, <1>6, <1>7, CallOfCaller, RunsFrame
<1> QED BY <1>2, <1>3, <1>4, <1>6, <1>8

-----------------------------------------------------------------------------
LEMMA IInvStep ==
    ASSUME IInv, [Next]_vars
    PROVE  IInv'
<1>1. CASE UNCHANGED vars
    <2>1. /\ UNCHANGED <<lock, inUse, alive, stdin, running, stdout, stderr, spoken, deaths>>
          /\ UNCHANGED <<pc, call, slot, answer, calls, strategy, large, runs>>
        BY <1>1 DEF vars, poolVars, processVars, pipeVars, callerVars
    <2>2. PoolInv' /\ OwnAnswer' /\ CallInv'
        BY <2>1 DEF IInv, PoolInv, PoolTypeOK, SlotInv, LineInv, InSlot, InHand, Clean, OwnAnswer,
                    CallInv
    <2>3. WaitsOnce' /\ RunInv'
        BY <2>1 DEF IInv, WaitsOnce, RunInv, Waiting, Early, Late
    <2> QED BY <2>2, <2>3 DEF IInv
<1>2. ASSUME NEW c \in Callers, Call(c) \/ CallerStep(c)
      PROVE  IInv'
    BY <1>2, CallStep, AcquireStep, SendStep, WriteStep, TakeLineStep, EndOfFileStep, ReleaseStep,
       SingleStep DEF CallerStep, Read
<1>3. ASSUME NEW s \in Slots, Begin(s) \/ Speak(s) \/ Answer(s) \/ Die(s)
      PROVE  IInv'
    BY <1>3, BeginStep, SpeakStep, AnswerStep, DieStep
<1> QED BY <1>1, <1>2, <1>3 DEF Next

LEMMA Inductive == Spec => []IInv
<1>1. Init => IInv
    BY Initially
<1>2. IInv /\ [Next]_vars => IInv'
    BY IInvStep
<1> QED BY <1>1, <1>2, PTL DEF Spec

\* A slot belongs to one caller at a time; and as long as no strategy has written to
\* its process's stdout, what is in the pipes is about that caller's call and nothing
\* stays in them (executor.rs:104-138, 242-304, sandbox_runner.py:645-663).
THEOREM SlotsAreExclusive == Spec => []PoolInv
BY Inductive, PTL DEF IInv

\* A caller is given the line of another call only by a process whose stdout a
\* strategy has written to since the process was started (executor.rs:104-138,
\* 260-304, sandbox_runner.py:393).
THEOREM CrossingNeedsAWriter == Spec => []OwnAnswer
BY Inductive, PTL DEF IInv

\* A strategy is started at most once in the pool and at most once on its own,
\* whatever dies meanwhile and in whatever order the two come (executor.rs:260-340).
THEOREM StartedTwiceAtMost == Spec => []RunsTwiceAtMost
<1>1. IInv => RunsTwiceAtMost
    BY DEF IInv, RunInv, RunsTwiceAtMost, Early
<1> QED BY <1>1, Inductive, PTL
=============================================================================
