-------------------------- MODULE CollectorProofs --------------------------
(***************************************************************************)
(* Proofs about the evidence collector, for every set of threads, devices  *)
(* and commands and every budget.  They rest on one strengthening, IInv,   *)
(* which says what the stage of a call implies about its retries, its      *)
(* records and the people at its device.                                   *)
(***************************************************************************)
EXTENDS Collector, TLAPS

(* The stages of record_failure, and those of release. *)
Failing == {"failed", "count", "compare", "open", "stamp"}

Releasing == {"release", "delete"}

(* What the stage of a call says of its retries and its records. *)
StageFits(c) ==
    /\ c.at \notin Failing => c.attempt <= MaxRetries
    /\ c.at \notin {"done", "artifact"} \cup Releasing => c.ledger = {}
    /\ c.at = "artifact" => c.ledger = {"event"}
    /\ c.at \in Releasing => c.ledger = {"event", "artifact"}
    /\ c.at # "done" => c.out = "none"
    /\ c.out = "collected" => c.ledger = {"event", "artifact"}
    /\ "artifact" \in c.ledger => "event" \in c.ledger
    /\ c.ledger = {"event"} => c.at = "artifact" \/ c.out = "ledger error"

StagesFit == \A w \in Workers : StageFits(call[w])

(* A watched person is still there, and acquire has not looked yet. *)
WatchedIsThere ==
    \A w \in watched : call[w].at \in BeforeLock /\ call[w].dev \in human

IInv == TypeOK /\ StagesFit /\ WatchedIsThere

----------------------------------------------------------------------------
(* The budget, without the rest of the assumption. *)
LEMMA Budget ==
    /\ MaxRetries \in Nat
    /\ Threshold \in Nat \ {0}
    /\ Cooldown \in Nat \ {0}
BY CollectorAssumption

LEMMA NoRetryYet ==
    /\ 0 \in 0..(MaxRetries + 1)
    /\ 0 <= MaxRetries
    /\ 0 \in 0..Threshold
BY Budget

(* What Key and Breaker name. *)
LEMMA NamesTyped ==
    ASSUME TypeOK, NEW w \in Workers
    PROVE  /\ Key(w) \in Keys
           /\ Breaker(w) \in Keys \X Workers
BY DEF TypeOK, Calls, Key, Breaker, Keys

(* A write to one attribute of one breaker. *)
LEMMA WriteTyped ==
    ASSUME TypeOK, NEW b \in Keys \X Workers,
           \/ \E x \in {"CLOSED", "OPEN", "HALF_OPEN"} :
                breaker' = [breaker EXCEPT ![b].state = x]
           \/ \E x \in 0..Threshold : breaker' = [breaker EXCEPT ![b].fails = x]
           \/ \E x \in 0..Cooldown : breaker' = [breaker EXCEPT ![b].age = x]
    PROVE  breaker' \in [Keys \X Workers -> Breakers]
<1>1. breaker \in [Keys \X Workers -> Breakers] /\ breaker[b] \in Breakers
      BY DEF TypeOK
<1>2. \E r \in Breakers : breaker' = [breaker EXCEPT ![b] = r]
  <2>1. CASE \E x \in {"CLOSED", "OPEN", "HALF_OPEN"} :
               breaker' = [breaker EXCEPT ![b].state = x]
    <3>1. PICK x \in {"CLOSED", "OPEN", "HALF_OPEN"} :
            breaker' = [breaker EXCEPT ![b].state = x]
          BY <2>1
    <3>2. [breaker[b] EXCEPT !.state = x] \in Breakers
          BY <1>1 DEF Breakers
    <3> QED BY <3>1, <3>2
  <2>2. CASE \E x \in 0..Threshold : breaker' = [breaker EXCEPT ![b].fails = x]
    <3>1. PICK x \in 0..Threshold : breaker' = [breaker EXCEPT ![b].fails = x]
          BY <2>2
    <3>2. [breaker[b] EXCEPT !.fails = x] \in Breakers
          BY <1>1 DEF Breakers
    <3> QED BY <3>1, <3>2
  <2>3. CASE \E x \in 0..Cooldown : breaker' = [breaker EXCEPT ![b].age = x]
    <3>1. PICK x \in 0..Cooldown : breaker' = [breaker EXCEPT ![b].age = x]
          BY <2>3
    <3>2. [breaker[b] EXCEPT !.age = x] \in Breakers
          BY <1>1 DEF Breakers
    <3> QED BY <3>1, <3>2
  <2> QED BY <2>1, <2>2, <2>3
<1> QED BY <1>1, <1>2

(* A step that changes the call of one thread to a fitting one, and may    *)
(* only forget the person watched, keeps what is said of calls.            *)
LEMMA OneCall ==
    ASSUME IInv, NEW w \in Workers, NEW c \in Calls, StageFits(c),
           call' = [call EXCEPT ![w] = c], human' = human,
           watched' \subseteq watched, w \notin watched'
    PROVE  call' \in [Workers -> Calls] /\ StagesFit' /\ WatchedIsThere'
<1>1. call' \in [Workers -> Calls]
      BY DEF IInv, TypeOK
<1>2. \A v \in Workers : call'[v] = IF v = w THEN c ELSE call[v]
      BY DEF IInv, TypeOK
<1>3. StagesFit'
      BY <1>2, ZenonT(240) DEF IInv, StagesFit, StageFits
<1>4. WatchedIsThere'
      BY <1>2 DEF IInv, TypeOK, WatchedIsThere
<1> QED BY <1>1, <1>3, <1>4

(* Moving to a stage before the commits, and leaving collect. *)
LEMMA MovedFits ==
    ASSUME NEW c \in Calls, StageFits(c),
           NEW s \in Stages \ {"done", "artifact"},
           c.at \notin {"done", "artifact"},
           c.at \in Releasing <=> s \in Releasing,
           c.at \in Failing => s \in Failing
    PROVE  [c EXCEPT !.at = s] \in Calls /\ StageFits([c EXCEPT !.at = s])
BY DEF Calls, StageFits, Releasing, Failing

LEMMA EndedFits ==
    ASSUME NEW c \in Calls, StageFits(c), NEW w \in Workers,
           NEW o \in Outcomes,
           o = "collected" => c.ledger = {"event", "artifact"},
           c.ledger = {"event"} => o = "ledger error"
    PROVE  Ended(c, w, o) \in Calls /\ StageFits(Ended(c, w, o))
<1>1. 0 \in 0..(MaxRetries + 1) /\ 0 <= MaxRetries /\ 0 \in 0..Threshold
      BY NoRetryYet
<1>2. Ended(c, w, o) \in Calls
      BY <1>1 DEF Calls, Ended, Stages
<1>3. Ended(c, w, o).attempt = 0
      BY Budget DEF Calls, Ended
<1>4. StageFits(Ended(c, w, o))
      BY <1>1, <1>3 DEF Calls, Ended, StageFits, Releasing, Failing
<1> QED BY <1>2, <1>4

(* Steps of a call that stay before the commits: the records are as they   *)
(* were, and so is everything but the stage.                               *)
LEMMA MoveKeeps ==
    ASSUME IInv, NEW w \in Workers, NEW s \in Stages, Goto(w, s),
           s \notin {"done", "artifact"},
           call[w].at \notin {"done", "artifact"},
           call[w].at \in Releasing <=> s \in Releasing,
           call[w].at \in Failing => s \in Failing,
           human' = human,
           w \notin watched \/ s \in BeforeLock
    PROVE  call' \in [Workers -> Calls] /\ StagesFit' /\ WatchedIsThere'
           /\ watched' \subseteq Workers
<1> DEFINE c == [call[w] EXCEPT !.at = s]
<1>1. call[w] \in Calls /\ StageFits(call[w])
      BY DEF IInv, TypeOK, StagesFit
<1>2. c \in Calls /\ StageFits(c)
      BY <1>1, MovedFits
<1>3. call' = [call EXCEPT ![w] = c]
      BY DEF Goto, IInv, TypeOK
<1>4. call' \in [Workers -> Calls]
      BY <1>2, <1>3 DEF IInv, TypeOK
<1>5. \A v \in Workers : call'[v] = IF v = w THEN c ELSE call[v]
      BY <1>3 DEF IInv, TypeOK
<1>6. StagesFit'
      BY <1>2, <1>5, ZenonT(240) DEF IInv, StagesFit, StageFits
<1>7. c.dev = call[w].dev /\ c.at = s
      BY <1>1 DEF Calls
<1>8. WatchedIsThere'
      BY <1>5, <1>7 DEF IInv, TypeOK, WatchedIsThere, Goto
<1> QED BY <1>4, <1>6, <1>8 DEF Goto, IInv, TypeOK

LEMMA EndKeeps ==
    ASSUME IInv, NEW w \in Workers, NEW o \in Outcomes, End(w, o),
           o = "collected" => call[w].ledger = {"event", "artifact"},
           call[w].ledger = {"event"} => o = "ledger error",
           human' = human
    PROVE  call' \in [Workers -> Calls] /\ StagesFit' /\ WatchedIsThere'
           /\ watched' \subseteq Workers
<1>1. call[w] \in Calls /\ StageFits(call[w])
      BY DEF IInv, TypeOK, StagesFit
<1>2. Ended(call[w], w, o) \in Calls /\ StageFits(Ended(call[w], w, o))
      BY <1>1, EndedFits
<1>3. watched' \subseteq watched /\ w \notin watched'
      BY DEF End
<1> QED BY <1>2, <1>3, OneCall DEF End, IInv, TypeOK

----------------------------------------------------------------------------
(* The initial state. *)
LEMMA InitIInv == Init => IInv
<1> SUFFICES ASSUME Init PROVE IInv
    OBVIOUS
<1>1. (CHOOSE d \in Devices : TRUE) \in Devices
      BY CollectorAssumption
<1>2. (CHOOSE c \in Commands : TRUE) \in Commands
      BY CollectorAssumption
<1>3. call \in [Workers -> Calls]
      BY <1>1, <1>2, NoRetryYet DEF Init, Calls, Stages, Outcomes
<1>4. Fresh \in Breakers
      BY Budget DEF Fresh, Breakers
<1>5. TypeOK
      BY <1>3, <1>4 DEF Init, TypeOK
<1>6. StagesFit
      BY NoRetryYet DEF Init, StagesFit, StageFits, Releasing
<1>7. WatchedIsThere
      BY DEF Init, WatchedIsThere
<1> QED BY <1>5, <1>6, <1>7 DEF IInv

(* What every case below starts from. *)
LEMMA CallFits ==
    ASSUME IInv, NEW w \in Workers
    PROVE  call[w] \in Calls /\ StageFits(call[w])
BY DEF IInv, TypeOK, StagesFit

(* The gates before the command: people, lock, breaker table. *)
LEMMA GateKeeps ==
    ASSUME IInv, NEW w \in Workers,
           LookForHuman(w) \/ LookAtLock(w) \/ TakeLock(w)
    PROVE  IInv'
<1>0. call[w] \in Calls /\ StageFits(call[w])
      BY CallFits
<1>1. CASE LookForHuman(w)
  <2>1. call[w].ledger = {}
        BY <1>0, <1>1 DEF LookForHuman, StageFits, Releasing
  <2>2. CASE End(w, "BLOCKED")
        BY <1>1, <2>1, <2>2, EndKeeps DEF LookForHuman, IInv, TypeOK, Outcomes
  <2>3. CASE Goto(w, "look at lock")
        BY <1>1, <2>3, MoveKeeps
        DEF LookForHuman, IInv, TypeOK, Stages, BeforeLock, Releasing, Failing
  <2> QED BY <1>1, <2>2, <2>3 DEF LookForHuman
<1>2. CASE LookAtLock(w)
  <2>1. call[w].ledger = {}
        BY <1>0, <1>2 DEF LookAtLock, StageFits, Releasing
  <2>2. CASE MayLock(call[w].dev) /\ Goto(w, "take lock")
    <3>1. w \notin watched
          BY <2>2 DEF MayLock, IInv, WatchedIsThere
    <3> QED BY <1>2, <2>2, <3>1, MoveKeeps
            DEF LookAtLock, IInv, TypeOK, Stages, Releasing, Failing
  <2>3. CASE End(w, "BLOCKED")
        BY <1>2, <2>1, <2>3, EndKeeps DEF LookAtLock, IInv, TypeOK, Outcomes
  <2> QED BY <1>2, <2>2, <2>3 DEF LookAtLock
<1>3. CASE TakeLock(w)
  <2>1. w \notin watched
        BY <1>3 DEF TakeLock, IInv, WatchedIsThere, BeforeLock
  <2>2. lock' \in [Devices -> {Owner, Nobody}]
        BY <1>3 DEF TakeLock, IInv, TypeOK
  <2> QED BY <1>3, <2>1, <2>2, MoveKeeps
          DEF TakeLock, IInv, TypeOK, Stages, Releasing, Failing
<1> QED BY <1>1, <1>2, <1>3

(* The breaker of the key: found, created, asked. *)
LEMMA BreakerKeeps ==
    ASSUME IInv, NEW w \in Workers,
           \/ LookUpBreaker(w) \/ CreateBreaker(w) \/ AskBreaker(w)
           \/ LookAtCooldown(w) \/ HalfOpen(w) \/ HearVerdict(w)
    PROVE  IInv'
<1>0. call[w] \in Calls /\ StageFits(call[w])
      BY CallFits
<1>k. Key(w) \in Keys /\ Breaker(w) \in Keys \X Workers
      BY NamesTyped DEF IInv
<1>u. w \notin watched
      BY DEF LookUpBreaker, CreateBreaker, AskBreaker, LookAtCooldown,
             HalfOpen, HearVerdict, IInv, WatchedIsThere, BeforeLock
<1>1. CASE LookUpBreaker(w) /\ table[Key(w)] = NoBreaker
  <2>1. Goto(w, "create")
        BY <1>1 DEF LookUpBreaker, Goto
  <2> QED BY <1>1, <1>u, <2>1, MoveKeeps
          DEF LookUpBreaker, IInv, TypeOK, Stages, Releasing, Failing
<1>2. CASE LookUpBreaker(w) /\ table[Key(w)] # NoBreaker
  <2> DEFINE c == [call[w] EXCEPT !.at = "breaker", !.brk = table[Key(w)]]
  <2>1. table[Key(w)] \in Workers
        BY <1>2, <1>k DEF IInv, TypeOK
  <2>2. c \in Calls
        BY <1>0, <2>1 DEF Calls, Stages
  <2>3. call[w].at = "look up"
        BY <1>2 DEF LookUpBreaker
  <2>4. StageFits(c)
        BY <1>0, <2>3 DEF StageFits, Calls, Releasing, Failing
  <2>5. call' = [call EXCEPT ![w] = c]
        BY <1>2 DEF LookUpBreaker, IInv, TypeOK
  <2>6. human' = human /\ watched' = watched
        BY <1>2 DEF LookUpBreaker
  <2> HIDE DEF c
  <2> QED BY <1>2, <1>u, <2>2, <2>4, <2>5, <2>6, OneCall
          DEF LookUpBreaker, IInv, TypeOK
<1>3. CASE CreateBreaker(w)
  <2>1. table' \in [Keys -> Workers \cup {NoBreaker}]
        BY <1>3, <1>k DEF CreateBreaker, IInv, TypeOK
  <2> QED BY <1>3, <1>u, <2>1, MoveKeeps
          DEF CreateBreaker, IInv, TypeOK, Stages, Releasing, Failing
<1>4. CASE AskBreaker(w)
      BY <1>4, <1>u, MoveKeeps
      DEF AskBreaker, IInv, TypeOK, Stages, Releasing, Failing
<1>5. CASE LookAtCooldown(w)
      BY <1>5, <1>u, MoveKeeps
      DEF LookAtCooldown, IInv, TypeOK, Stages, Releasing, Failing
<1>6. CASE HalfOpen(w)
  <2>1. breaker' \in [Keys \X Workers -> Breakers]
        BY <1>6, <1>k, WriteTyped DEF HalfOpen, IInv
  <2> QED BY <1>6, <1>u, <2>1, MoveKeeps
          DEF HalfOpen, IInv, TypeOK, Stages, Releasing, Failing
<1>7. CASE HearVerdict(w)
  <2>1. call[w].ledger = {}
        BY <1>0, <1>7 DEF HearVerdict, StageFits, Releasing
  <2>2. CASE End(w, "RETRYABLE")
        BY <1>7, <2>1, <2>2, EndKeeps DEF HearVerdict, IInv, TypeOK, Outcomes
  <2>3. CASE Goto(w, "execute")
        BY <1>7, <1>u, <2>3, MoveKeeps
        DEF HearVerdict, IInv, TypeOK, Stages, Releasing, Failing
  <2> QED BY <1>7, <2>2, <2>3 DEF HearVerdict
<1> QED BY <1>1, <1>2, <1>3, <1>4, <1>5, <1>6, <1>7

(* The command: answered, retried, raised. *)
LEMMA ExecuteKeeps ==
    ASSUME IInv, NEW w \in Workers,
           Answer(w) \/ NoAnswer(w) \/ Raise(w)
    PROVE  IInv'
<1>0. call[w] \in Calls /\ StageFits(call[w])
      BY CallFits
<1>u. w \notin watched /\ call[w].ledger = {}
      BY <1>0 DEF Answer, NoAnswer, Raise, IInv, WatchedIsThere, BeforeLock,
                  StageFits, Releasing
<1>1. CASE Answer(w)
      BY <1>1, <1>u, MoveKeeps
      DEF Answer, IInv, TypeOK, Stages, Releasing, Failing
<1>2. CASE NoAnswer(w)
  <2> DEFINE s == IF call[w].attempt < MaxRetries THEN "execute" ELSE "failed"
  <2> DEFINE c == [call[w] EXCEPT !.attempt = call[w].attempt + 1, !.at = s]
  <2>1. call[w].attempt \in 0..(MaxRetries + 1)
        BY <1>0 DEF Calls
  <2>2. call[w].at = "execute" /\ call[w].out = "none"
        BY <1>0, <1>2 DEF NoAnswer, StageFits
  <2>3. call[w].attempt <= MaxRetries
        BY <1>0, <2>2 DEF StageFits, Failing
  <2>4. call[w].attempt + 1 \in 0..(MaxRetries + 1)
        BY <2>1, <2>3, Budget
  <2>5. c \in Calls
        BY <1>0, <2>4 DEF Calls, Stages
  <2>6. /\ c.at = s
        /\ c.ledger = {}
        /\ c.out = "none"
        BY <1>0, <1>u, <2>2 DEF Calls
  <2>7. c.attempt = call[w].attempt + 1
        BY <1>0, <2>1 DEF Calls
  <2>8. c.at \notin Failing => c.attempt <= MaxRetries
        BY <2>1, <2>6, <2>7, Budget DEF Failing
  <2>9. call' = [call EXCEPT ![w] = c]
        BY <1>2 DEF NoAnswer, IInv, TypeOK
  <2>10. s \in {"execute", "failed"}
        OBVIOUS
  <2>11. StageFits(c)
    <3> HIDE DEF c, s
    <3> QED BY <2>6, <2>8, <2>10 DEF StageFits, Releasing
  <2>12. human' = human /\ watched' = watched
        BY <1>2 DEF NoAnswer
  <2> HIDE DEF c
  <2> QED BY <1>2, <1>u, <2>5, <2>9, <2>11, <2>12, OneCall
          DEF NoAnswer, IInv, TypeOK
<1>3. CASE Raise(w)
      BY <1>3, <1>u, EndKeeps DEF Raise, IInv, TypeOK, Outcomes
<1> QED BY <1>1, <1>2, <1>3

(* The breaker is told: record_failure and record_success. *)
LEMMA TellKeeps ==
    ASSUME IInv, NEW w \in Workers,
           \/ ReadFailures(w) \/ CountFailure(w) \/ CompareFailures(w)
           \/ OpenBreaker(w) \/ StampBreaker(w)
           \/ ForgetFailures(w) \/ CloseBreaker(w)
    PROVE  IInv'
<1>0. call[w] \in Calls /\ StageFits(call[w])
      BY CallFits
<1>k. Key(w) \in Keys /\ Breaker(w) \in Keys \X Workers
      BY NamesTyped DEF IInv
<1>u. w \notin watched /\ call[w].ledger = {}
      BY <1>0 DEF ReadFailures, CountFailure, CompareFailures, OpenBreaker,
                  StampBreaker, ForgetFailures, CloseBreaker, IInv,
                  WatchedIsThere, BeforeLock, StageFits, Releasing
<1>1. CASE ReadFailures(w)
  <2> DEFINE n == breaker[Breaker(w)].fails
             c == [call[w] EXCEPT !.at = "count", !.seen = n]
  <2>1. n \in 0..Threshold
        BY <1>k DEF IInv, TypeOK, Breakers
  <2>2. call' = [call EXCEPT ![w] = c]
        BY <1>1 DEF ReadFailures, IInv, TypeOK
  <2>3. call[w].at = "failed"
        BY <1>1 DEF ReadFailures
  <2> HIDE DEF n
  <2>4. c \in Calls
        BY <1>0, <2>1 DEF Calls, Stages
  <2>5. /\ c.at = "count" /\ c.ledger = call[w].ledger
        /\ c.out = call[w].out /\ call[w].out = "none"
        BY <1>0, <2>3 DEF Calls, StageFits
  <2> HIDE DEF c
  <2>6. StageFits(c)
        BY <1>u, <2>5 DEF StageFits, Releasing, Failing
  <2>7. human' = human /\ watched' = watched
        BY <1>1 DEF ReadFailures
  <2>8. givenUp' \in [Keys -> Nat]
        BY <1>1, <1>k DEF ReadFailures, IInv, TypeOK
  <2> QED BY <1>1, <1>u, <2>2, <2>4, <2>6, <2>7, <2>8, OneCall
          DEF ReadFailures, IInv, TypeOK
<1>2. CASE CountFailure(w)
  <2>1. (IF call[w].seen < Threshold THEN call[w].seen + 1 ELSE Threshold)
          \in 0..Threshold
        BY <1>0, Budget DEF Calls
  <2>2. breaker' \in [Keys \X Workers -> Breakers]
        BY <1>2, <1>k, <2>1, WriteTyped DEF CountFailure, IInv
  <2> QED BY <1>2, <1>u, <2>2, MoveKeeps
          DEF CountFailure, IInv, TypeOK, Stages, Releasing, Failing
<1>3. CASE CompareFailures(w)
  <2>1. CASE Goto(w, "open")
        BY <1>3, <1>u, <2>1, MoveKeeps
        DEF CompareFailures, IInv, TypeOK, Stages, Releasing, Failing
  <2>2. CASE End(w, "RETRYABLE")
        BY <1>3, <1>u, <2>2, EndKeeps DEF CompareFailures, IInv, TypeOK, Outcomes
  <2> QED BY <1>3, <2>1, <2>2 DEF CompareFailures
<1>4. CASE OpenBreaker(w)
  <2>1. breaker' \in [Keys \X Workers -> Breakers]
        BY <1>4, <1>k, WriteTyped DEF OpenBreaker, IInv
  <2> QED BY <1>4, <1>u, <2>1, MoveKeeps
          DEF OpenBreaker, IInv, TypeOK, Stages, Releasing, Failing
<1>5. CASE StampBreaker(w)
  <2>1. breaker' \in [Keys \X Workers -> Breakers]
    <3>1. 0 \in 0..Cooldown
          BY Budget
    <3> QED BY <1>5, <1>k, <3>1, WriteTyped DEF StampBreaker, IInv
  <2> QED BY <1>5, <1>u, <2>1, EndKeeps DEF StampBreaker, IInv, TypeOK, Outcomes
<1>6. CASE ForgetFailures(w)
  <2>1. breaker' \in [Keys \X Workers -> Breakers]
    <3>1. 0 \in 0..Threshold
          BY NoRetryYet
    <3> QED BY <1>6, <1>k, <3>1, WriteTyped DEF ForgetFailures, IInv
  <2>2. givenUp' \in [Keys -> Nat]
        BY <1>6, <1>k DEF ForgetFailures, IInv, TypeOK
  <2> QED BY <1>6, <1>u, <2>1, <2>2, MoveKeeps
          DEF ForgetFailures, IInv, TypeOK, Stages, Releasing, Failing
<1>7. CASE CloseBreaker(w)
  <2>1. breaker' \in [Keys \X Workers -> Breakers]
        BY <1>7, <1>k, WriteTyped DEF CloseBreaker, IInv
  <2>2. givenUp' \in [Keys -> Nat]
        BY <1>7, <1>k DEF CloseBreaker, IInv, TypeOK
  <2> QED BY <1>7, <1>u, <2>1, <2>2, MoveKeeps
          DEF CloseBreaker, IInv, TypeOK, Stages, Releasing, Failing
<1> QED BY <1>1, <1>2, <1>3, <1>4, <1>5, <1>6, <1>7

(* The commits and the return. *)
LEMMA CommitKeeps ==
    ASSUME IInv, NEW w \in Workers,
           \/ AppendEvent(w) \/ AppendArtifact(w) \/ LedgerError(w)
           \/ LookToRelease(w) \/ Release(w)
    PROVE  IInv'
<1>0. call[w] \in Calls /\ StageFits(call[w])
      BY CallFits
<1>u. w \notin watched
      BY DEF AppendEvent, AppendArtifact, LedgerError, LookToRelease, Release,
             IInv, WatchedIsThere, BeforeLock
<1>1. CASE AppendEvent(w) \/ AppendArtifact(w)
  <2> DEFINE r == IF AppendEvent(w) THEN "event" ELSE "artifact"
  <2> DEFINE s == IF AppendEvent(w) THEN "artifact" ELSE "release"
  <2> DEFINE c == [call[w] EXCEPT !.at = s, !.ledger = call[w].ledger \cup {r}]
  <2>0. call[w].ledger \in SUBSET {"event", "artifact"}
        BY <1>0 DEF Calls
  <2>1. \/ call[w].at = "event" /\ s = "artifact" /\ r = "event"
        \/ call[w].at = "artifact" /\ s = "release" /\ r = "artifact"
        BY <1>1 DEF AppendEvent, AppendArtifact
  <2>2. call' = [call EXCEPT ![w] = c]
        BY <1>1, <2>1 DEF AppendEvent, AppendArtifact, IInv, TypeOK
  <2> HIDE DEF r, s
  <2>3. c \in Calls
        BY <1>0, <2>0, <2>1 DEF Calls, Stages
  <2>4. /\ c.at = s
        /\ c.ledger = call[w].ledger \cup {r}
        /\ c.out = call[w].out
        BY <1>0 DEF Calls
  <2>5. c.attempt = call[w].attempt
        BY <1>0 DEF Calls
  <2>6. call[w].out = "none" /\ call[w].attempt <= MaxRetries
        BY <1>0, <2>1 DEF StageFits, Failing
  <2>7. \/ s = "artifact" /\ c.ledger = {"event"}
        \/ s = "release" /\ c.ledger = {"event", "artifact"}
        BY <1>0, <2>1, <2>4 DEF StageFits, Releasing
  <2> HIDE DEF c
  <2>8. StageFits(c)
        BY <2>4, <2>5, <2>6, <2>7 DEF StageFits, Releasing
  <2>9. human' = human /\ watched' = watched
        BY <1>1 DEF AppendEvent, AppendArtifact
  <2> QED BY <1>1, <1>u, <2>2, <2>3, <2>8, <2>9, OneCall
          DEF AppendEvent, AppendArtifact, IInv, TypeOK
<1>2. CASE LedgerError(w)
      BY <1>2, <1>u, EndKeeps DEF LedgerError, IInv, TypeOK, Outcomes
<1>3. ASSUME LookToRelease(w) \/ Release(w)
      PROVE  /\ call[w].ledger = {"event", "artifact"}
             /\ {"event", "artifact"} # {"event"}
  <2>1. call[w].ledger = {"event", "artifact"}
        BY <1>0, <1>3 DEF LookToRelease, Release, StageFits, Releasing
  <2>2. "artifact" \in {"event", "artifact"} /\ "artifact" \notin {"event"}
        OBVIOUS
  <2> QED BY <2>1, <2>2
<1>4. CASE LookToRelease(w)
  <2>1. CASE Goto(w, "delete")
        BY <1>4, <1>u, <2>1, MoveKeeps
        DEF LookToRelease, IInv, TypeOK, Stages, Releasing, Failing
  <2>2. CASE End(w, "collected")
        BY <1>3, <1>4, <1>u, <2>2, EndKeeps
        DEF LookToRelease, IInv, TypeOK, Outcomes
  <2> QED BY <1>4, <2>1, <2>2 DEF LookToRelease
<1>5. CASE Release(w)
  <2>1. lock' \in [Devices -> {Owner, Nobody}]
        BY <1>5 DEF Release, IInv, TypeOK
  <2>2. \E o \in {"collected", "raised"} : End(w, o)
        BY <1>5 DEF Release
  <2> QED BY <1>3, <1>5, <1>u, <2>1, <2>2, EndKeeps
          DEF Release, IInv, TypeOK, Outcomes
<1> QED BY <1>1, <1>2, <1>4, <1>5

----------------------------------------------------------------------------
(* A new call: a thread that was between calls was not watched. *)
LEMMA CallKeeps ==
    ASSUME IInv, NEW w \in Workers, NEW d \in Devices, NEW c \in Commands,
           Call(w, d, c)
    PROVE  IInv'
<1> DEFINE r == [dev |-> d, cmd |-> c, attempt |-> 0, seen |-> 0,
                 brk |-> w, ledger |-> {},
                 at |-> IF c \in Readable THEN "look for human" ELSE "done",
                 out |-> IF c \in Readable THEN "none" ELSE "BLOCKED"]
<1>1. r \in Calls
      BY NoRetryYet DEF Calls, Stages, Outcomes
<1>2. StageFits(r)
      BY NoRetryYet DEF StageFits, Releasing
<1>3. call' = [call EXCEPT ![w] = r]
      BY DEF Call
<1>4. watched' = IF c \in Readable /\ d \in human THEN watched \cup {w}
                                                  ELSE watched
      BY DEF Call
<1>5. c \in Readable => r.at \in BeforeLock
      BY DEF BeforeLock
<1>6. r.dev = d
      OBVIOUS
<1>7. w \notin watched
      BY DEF Call, IInv, WatchedIsThere, BeforeLock
<1> HIDE DEF r
<1>8. \A v \in Workers : call'[v] = IF v = w THEN r ELSE call[v]
      BY <1>3 DEF IInv, TypeOK
<1>9. TypeOK'
      BY <1>1, <1>3, <1>4, ZenonT(60) DEF Call, IInv, TypeOK
<1>10. StagesFit'
      BY <1>2, <1>8, ZenonT(60) DEF IInv, StagesFit, StageFits
<1>11. WatchedIsThere'
      BY <1>4, <1>5, <1>6, <1>7, <1>8 DEF Call, IInv, TypeOK, WatchedIsThere
<1> QED BY <1>9, <1>10, <1>11 DEF IInv

(* People and time. *)
LEMMA PersonKeeps ==
    ASSUME IInv, NEW d \in Devices, DeclareHuman(d) \/ ClearHuman(d)
    PROVE  IInv'
<1>1. TypeOK'
      BY DEF DeclareHuman, ClearHuman, IInv, TypeOK
<1>2. StagesFit'
      BY DEF DeclareHuman, ClearHuman, IInv, StagesFit, StageFits
<1>3. WatchedIsThere'
      BY DEF DeclareHuman, ClearHuman, IInv, WatchedIsThere
<1> QED BY <1>1, <1>2, <1>3 DEF IInv

LEMMA OlderTyped ==
    ASSUME NEW b \in Breakers, b.age < Cooldown
    PROVE  [b EXCEPT !.age = b.age + 1] \in Breakers
BY Budget DEF Breakers

LEMMA TickKeeps ==
    ASSUME IInv, Tick
    PROVE  IInv'
<1>1. \A k \in Keys \X Workers : breaker[k] \in Breakers
      BY DEF IInv, TypeOK
<1>2. breaker' = [k \in Keys \X Workers |->
                    IF breaker[k].age < Cooldown
                    THEN [breaker[k] EXCEPT !.age = breaker[k].age + 1]
                    ELSE breaker[k]]
      BY DEF Tick, IInv, TypeOK
<1>3. \A k \in Keys \X Workers :
        breaker[k].age < Cooldown =>
          [breaker[k] EXCEPT !.age = breaker[k].age + 1] \in Breakers
      BY <1>1, OlderTyped
<1>4. breaker' \in [Keys \X Workers -> Breakers]
      BY <1>1, <1>2, <1>3
<1>5. givenUp' \in [Keys -> Nat]
  <2>1. givenUp \in [Keys -> Nat]
        BY DEF IInv, TypeOK
  <2> QED BY <2>1 DEF Tick
<1>6. TypeOK'
      BY <1>4, <1>5 DEF Tick, IInv, TypeOK
<1>7. StagesFit' /\ WatchedIsThere'
      BY DEF Tick, IInv, StagesFit, StageFits, WatchedIsThere
<1> QED BY <1>6, <1>7 DEF IInv

(* The strengthening is an invariant. *)
THEOREM Strengthening == Spec => []IInv
<1>1. Init => IInv
      BY InitIInv
<1>2. IInv /\ [Next]_vars => IInv'
  <2> SUFFICES ASSUME IInv, [Next]_vars PROVE IInv'
      OBVIOUS
  <2>1. ASSUME NEW w \in Workers, NEW d \in Devices, NEW c \in Commands,
               Call(w, d, c)
        PROVE  IInv'
        BY <2>1, CallKeeps
  <2>2. ASSUME NEW w \in Workers, Step(w) PROVE IInv'
        BY <2>2, GateKeeps, BreakerKeeps, ExecuteKeeps, TellKeeps, CommitKeeps
        DEF Step
  <2>3. ASSUME NEW d \in Devices, DeclareHuman(d) \/ ClearHuman(d) PROVE IInv'
        BY <2>3, PersonKeeps
  <2>4. CASE Tick
        BY <2>4, TickKeeps
  <2>5. CASE UNCHANGED vars
        BY <2>5 DEF vars, IInv, TypeOK, StagesFit, StageFits, WatchedIsThere
  <2> QED BY <2>1, <2>2, <2>3, <2>4, <2>5 DEF Next
<1> QED BY <1>1, <1>2, PTL DEF Spec

(* Every variable of the collector keeps its type. *)
THEOREM CollectorTyped == Spec => []TypeOK
<1>1. IInv => TypeOK
      BY DEF IInv
<1> QED BY <1>1, Strengthening, PTL

(* The ledger and the results of collect agree, though the event and the   *)
(* artifact of a command are two commits and either may fail.              *)
THEOREM CollectedIsRecorded == Spec => []EvidenceMatches
<1>1. IInv => EvidenceMatches
      BY DEF IInv, StagesFit, StageFits, EvidenceMatches, Releasing
<1> QED BY <1>1, Strengthening, PTL

(* The check of human_session_active and the check inside acquire together *)
(* keep every call off a device whose person came before acquire looked.   *)
THEOREM PersonIsNotJoined == Spec => []HumanKeepsOut
<1>1. IInv => HumanKeepsOut
      BY DEF IInv, WatchedIsThere, HumanKeepsOut, BeforeLock, Admitted
<1> QED BY <1>1, Strengthening, PTL

============================================================================
