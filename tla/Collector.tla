----------------------------- MODULE Collector -----------------------------
(***************************************************************************)
(* The evidence collector, access/collector.py: Collector.collect with the *)
(* circuit breakers, the device locks and the human sessions it shares     *)
(* between the threads that call it.                                       *)
(*                                                                         *)
(* Nothing in the collector holds a mutex, so every read of a shared       *)
(* attribute or dictionary and every write to one is an action of its own, *)
(* and the calls interleave between them.  The clock appears as the age of *)
(* a breaker: the time since its _opened_at, up to the cooldown.           *)
(***************************************************************************)
EXTENDS Integers

CONSTANTS Workers,     \* threads that call collect
          Devices,
          Commands,
          Readable,    \* the commands the allowlist classifies READ_ONLY
          MaxRetries,  \* budget.max_retries
          Threshold,   \* budget.breaker_threshold
          Cooldown,    \* breaker_cooldown_s, in ticks
          MostGiveUps, \* the bound GiveUpsBounded states
          NoBreaker    \* the mark of a key that has no breaker yet

ASSUME CollectorAssumption ==
    /\ Devices # {}
    /\ Commands # {}
    /\ Readable \subseteq Commands
    /\ MaxRetries \in Nat
    /\ Threshold \in Nat \ {0}
    /\ Cooldown \in Nat \ {0}
    /\ MostGiveUps \in Nat
    /\ NoBreaker \notin Workers

VARIABLES call,       \* the call of each thread, and what the ledger has of it
          table,      \* Collector._breakers: which breaker a key has
          breaker,    \* the breaker objects, named by key and maker
          lock,       \* SessionLockManager._locked_by
          human,      \* SessionLockManager._human_sessions
          watched,    \* history: threads whose device had a person before
                      \* acquire looked, who has not left since
          givenUp     \* history: calls of a key given up since it last
                      \* answered or a cooldown of its breaker last ended

vars == <<call, table, breaker, lock, human, watched, givenUp>>

----------------------------------------------------------------------------
(***************************************************************************)
(* Values.                                                                 *)
(***************************************************************************)

Keys == Devices \X Commands

Owner == "E02-collector"
Nobody == "nobody"

(* The class of the Failure raised, another exception, or a result. *)
Outcomes == {"none", "BLOCKED", "RETRYABLE", "raised", "ledger error",
             "collected"}

(* Where a call stands; "done" is also the state of a thread between calls. *)
Stages == {"done", "look for human", "look at lock", "take lock", "look up",
           "create", "breaker", "cooling", "half open", "verdict", "execute",
           "failed", "count", "compare", "open", "stamp", "answered", "close",
           "event", "artifact", "release", "delete"}

(* Stages in which acquire has not looked at the device yet. *)
BeforeLock == {"look for human", "look at lock"}

(* Stages in which the call has passed every gate. *)
Admitted == {"execute", "failed", "count", "compare", "open", "stamp",
             "answered", "close", "event", "artifact", "release", "delete"}

(* _opened_at is None, which state takes for time 0 of the monotonic clock *)
(* (_opened_at or 0): longer ago than any cooldown.                        *)
Fresh == [state |-> "CLOSED", fails |-> 0, age |-> Cooldown]

Key(w) == <<call[w].dev, call[w].cmd>>

Breaker(w) == <<Key(w), call[w].brk>>

Goto(w, stage) ==
    /\ call' = [call EXCEPT ![w].at = stage]
    /\ UNCHANGED watched

(* What is left of a call that has ended. *)
Ended(c, w, outcome) ==
    [c EXCEPT !.at = "done", !.out = outcome, !.attempt = 0, !.seen = 0,
              !.brk = w]

End(w, outcome) ==
    /\ call' = [call EXCEPT ![w] = Ended(call[w], w, outcome)]
    /\ watched' = watched \ {w}

Init ==
    /\ call = [w \in Workers |->
                 [at |-> "done", out |-> "none", attempt |-> 0, seen |-> 0,
                  brk |-> w, ledger |-> {},
                  dev |-> CHOOSE d \in Devices : TRUE,
                  cmd |-> CHOOSE c \in Commands : TRUE]]
    /\ table = [k \in Keys |-> NoBreaker]
    /\ breaker = [b \in Keys \X Workers |-> Fresh]
    /\ lock = [d \in Devices |-> Nobody]
    /\ human = {}
    /\ watched = {}
    /\ givenUp = [k \in Keys |-> 0]

----------------------------------------------------------------------------
(***************************************************************************)
(* A call of collect.                                                      *)
(***************************************************************************)

(* Step 1 of collect: only a command the allowlist calls READ_ONLY. *)
Call(w, d, c) ==
    /\ call[w].at = "done"
    /\ call' = [call EXCEPT ![w] =
                  [dev |-> d, cmd |-> c, attempt |-> 0, seen |-> 0,
                   brk |-> w, ledger |-> {},
                   at |-> IF c \in Readable THEN "look for human" ELSE "done",
                   out |-> IF c \in Readable THEN "none" ELSE "BLOCKED"]]
    /\ watched' = IF c \in Readable /\ d \in human THEN watched \cup {w}
                                                    ELSE watched
    /\ UNCHANGED <<table, breaker, lock, human, givenUp>>

(* human_session_active. *)
LookForHuman(w) ==
    /\ call[w].at = "look for human"
    /\ IF call[w].dev \in human THEN End(w, "BLOCKED")
                                ELSE Goto(w, "look at lock")
    /\ UNCHANGED <<table, breaker, lock, human, givenUp>>

(* Mutant: a wrong acquire, which trusts the check collect made before it. *)
MayLockBesideHuman(d) == lock[d] \in {Nobody, Owner}

(* The checks of SessionLockManager.acquire, which come before its write.  *)
(* Every thread asks as the same Owner, so a lock keeps no thread out.     *)
MayLock(d) == d \notin human /\ lock[d] \in {Nobody, Owner}

LookAtLock(w) ==
    /\ call[w].at = "look at lock"
    /\ IF MayLock(call[w].dev) THEN Goto(w, "take lock")
                                      ELSE End(w, "BLOCKED")
    /\ UNCHANGED <<table, breaker, lock, human, givenUp>>

TakeLock(w) ==
    /\ call[w].at = "take lock"
    /\ lock' = [lock EXCEPT ![call[w].dev] = Owner]
    /\ Goto(w, "look up")
    /\ UNCHANGED <<table, breaker, human, givenUp>>

(* Collector._breaker: the test "not in" and the reading of the table. *)
LookUpBreaker(w) ==
    /\ call[w].at = "look up"
    /\ call' = IF table[Key(w)] = NoBreaker
               THEN [call EXCEPT ![w].at = "create"]
               ELSE [call EXCEPT ![w].at = "breaker", ![w].brk = table[Key(w)]]
    /\ UNCHANGED <<table, breaker, lock, human, watched, givenUp>>

(* A new breaker is stored, over one another thread has stored since, and  *)
(* the table is read back.                                                 *)
CreateBreaker(w) ==
    /\ call[w].at = "create"
    /\ table' = [table EXCEPT ![Key(w)] = w]
    /\ Goto(w, "look up")
    /\ UNCHANGED <<breaker, lock, human, givenUp>>

(* CircuitBreaker.state, under allow_request, is four steps: is the breaker *)
(* open, has its cooldown passed, turn it into a half-open one, and what   *)
(* is it by then.                                                          *)
IsOpen(w) == breaker[Breaker(w)].state = "OPEN"

AskBreaker(w) ==
    /\ call[w].at = "breaker"
    /\ Goto(w, IF IsOpen(w) THEN "cooling" ELSE "verdict")
    /\ UNCHANGED <<table, breaker, lock, human, givenUp>>

LookAtCooldown(w) ==
    /\ call[w].at = "cooling"
    /\ Goto(w, IF breaker[Breaker(w)].age = Cooldown THEN "half open"
                                                     ELSE "verdict")
    /\ UNCHANGED <<table, breaker, lock, human, givenUp>>

HalfOpen(w) ==
    /\ call[w].at = "half open"
    /\ breaker' = [breaker EXCEPT ![Breaker(w)].state = "HALF_OPEN"]
    /\ Goto(w, "verdict")
    /\ UNCHANGED <<table, lock, human, givenUp>>

(* Mutant: a wrong gate: the breaker is asked and its refusal not heeded. *)
IgnoreVerdict(w) ==
    /\ call[w].at = "verdict"
    /\ Goto(w, "execute")
    /\ UNCHANGED <<table, breaker, lock, human, givenUp>>

(* A refusal keeps the device lock. *)
HearVerdict(w) ==
    /\ call[w].at = "verdict"
    /\ IF IsOpen(w) THEN End(w, "RETRYABLE") ELSE Goto(w, "execute")
    /\ UNCHANGED <<table, breaker, lock, human, givenUp>>

(* session.execute answers within the timeout. *)
Answer(w) ==
    /\ call[w].at = "execute"
    /\ Goto(w, "answered")
    /\ UNCHANGED <<table, breaker, lock, human, givenUp>>

(* Mutant: a wrong loop: a second failure starts the count again. *)
NoAnswerForever(w) ==
    /\ call[w].at = "execute"
    /\ call' = [call EXCEPT ![w].attempt = 1 - call[w].attempt]
    /\ UNCHANGED <<table, breaker, lock, human, watched, givenUp>>

(* Mutant: a wrong bound of the loop: one attempt more than range gives. *)
NoAnswerOnceMore(w) ==
    /\ call[w].at = "execute"
    /\ call' = [call EXCEPT ![w].attempt = @ + 1,
                            ![w].at = IF call[w].attempt <= MaxRetries
                                      THEN "execute" ELSE "failed"]
    /\ UNCHANGED <<table, breaker, lock, human, watched, givenUp>>

(* TimeoutError or ConnectionError: tried again while retries are left. *)
NoAnswer(w) ==
    /\ call[w].at = "execute"
    /\ call' = [call EXCEPT ![w].attempt = @ + 1,
                            ![w].at = IF call[w].attempt < MaxRetries
                                      THEN "execute" ELSE "failed"]
    /\ UNCHANGED <<table, breaker, lock, human, watched, givenUp>>

(* Any other exception leaves collect at once: no failure is recorded and  *)
(* the lock stays taken.                                                   *)
Raise(w) ==
    /\ call[w].at = "execute"
    /\ End(w, "raised")
    /\ UNCHANGED <<table, breaker, lock, human, givenUp>>

(* CircuitBreaker.record_failure is five steps: the failures are read,     *)
(* written one higher, compared with the threshold; then the breaker is    *)
(* open, and only then has it a new _opened_at.  The failure is raised;    *)
(* the lock stays taken.                                                   *)
ReadFailures(w) ==
    /\ call[w].at = "failed"
    /\ call' = [call EXCEPT ![w].at = "count",
                            ![w].seen = breaker[Breaker(w)].fails]
    /\ givenUp' = [givenUp EXCEPT ![Key(w)] = @ + 1]
    /\ UNCHANGED <<table, breaker, lock, human, watched>>

(* Only whether the count has reached the threshold is ever asked, so it   *)
(* is not followed beyond it.                                              *)
CountFailure(w) ==
    /\ call[w].at = "count"
    /\ breaker' = [breaker EXCEPT ![Breaker(w)].fails =
                     IF call[w].seen < Threshold THEN call[w].seen + 1
                                                 ELSE Threshold]
    /\ Goto(w, "compare")
    /\ UNCHANGED <<table, lock, human, givenUp>>

CompareFailures(w) ==
    /\ call[w].at = "compare"
    /\ IF breaker[Breaker(w)].fails >= Threshold
       THEN Goto(w, "open") ELSE End(w, "RETRYABLE")
    /\ UNCHANGED <<table, breaker, lock, human, givenUp>>

OpenBreaker(w) ==
    /\ call[w].at = "open"
    /\ breaker' = [breaker EXCEPT ![Breaker(w)].state = "OPEN"]
    /\ Goto(w, "stamp")
    /\ UNCHANGED <<table, lock, human, givenUp>>

StampBreaker(w) ==
    /\ call[w].at = "stamp"
    /\ breaker' = [breaker EXCEPT ![Breaker(w)].age = 0]
    /\ End(w, "RETRYABLE")
    /\ UNCHANGED <<table, lock, human, givenUp>>

(* CircuitBreaker.record_success: no failures, then closed. *)
ForgetFailures(w) ==
    /\ call[w].at = "answered"
    /\ breaker' = [breaker EXCEPT ![Breaker(w)].fails = 0]
    /\ givenUp' = [givenUp EXCEPT ![Key(w)] = 0]
    /\ Goto(w, "close")
    /\ UNCHANGED <<table, lock, human>>

CloseBreaker(w) ==
    /\ call[w].at = "close"
    /\ breaker' = [breaker EXCEPT ![Breaker(w)].state = "CLOSED"]
    /\ givenUp' = [givenUp EXCEPT ![Key(w)] = 0]
    /\ Goto(w, "event")
    /\ UNCHANGED <<table, lock, human>>

(* Mutant: a wrong order: the artifact is stored before its event. *)
AppendEventLast(w) ==
    /\ call[w].at = "event"
    /\ call' = [call EXCEPT ![w].at = "artifact", ![w].ledger = @ \cup {"artifact"}]
    /\ UNCHANGED <<table, breaker, lock, human, watched, givenUp>>

(* sign_event and append_event, serialised by the lock of the store. *)
AppendEvent(w) ==
    /\ call[w].at = "event"
    /\ call' = [call EXCEPT ![w].at = "artifact", ![w].ledger = @ \cup {"event"}]
    /\ UNCHANGED <<table, breaker, lock, human, watched, givenUp>>

AppendArtifact(w) ==
    /\ call[w].at = "artifact"
    /\ call' = [call EXCEPT ![w].at = "release", ![w].ledger = @ \cup {"artifact"}]
    /\ UNCHANGED <<table, breaker, lock, human, watched, givenUp>>

(* The ledger refuses a write: the failure leaves collect, lock taken. *)
LedgerError(w) ==
    /\ call[w].at \in {"event", "artifact"}
    /\ End(w, "ledger error")
    /\ UNCHANGED <<table, breaker, lock, human, givenUp>>

(* SessionLockManager.release, the only place where a lock is given back.  *)
LookToRelease(w) ==
    /\ call[w].at = "release"
    /\ IF lock[call[w].dev] = Owner THEN Goto(w, "delete")
                                    ELSE End(w, "collected")
    /\ UNCHANGED <<table, breaker, lock, human, givenUp>>

(* del, which raises KeyError where another thread has deleted the entry   *)
(* since: the evidence stays, the caller gets no result.                   *)
Release(w) ==
    /\ call[w].at = "delete"
    /\ lock' = [lock EXCEPT ![call[w].dev] = Nobody]
    /\ End(w, IF lock[call[w].dev] = Owner THEN "collected" ELSE "raised")
    /\ UNCHANGED <<table, breaker, human, givenUp>>

Step(w) ==
    \/ LookForHuman(w)
    \/ LookAtLock(w)
    \/ TakeLock(w)
    \/ LookUpBreaker(w)
    \/ CreateBreaker(w)
    \/ AskBreaker(w)
    \/ LookAtCooldown(w)
    \/ HalfOpen(w)
    \/ HearVerdict(w)
    \/ Answer(w)
    \/ NoAnswer(w)
    \/ Raise(w)
    \/ ReadFailures(w)
    \/ CountFailure(w)
    \/ CompareFailures(w)
    \/ OpenBreaker(w)
    \/ StampBreaker(w)
    \/ ForgetFailures(w)
    \/ CloseBreaker(w)
    \/ AppendEvent(w)
    \/ AppendArtifact(w)
    \/ LedgerError(w)
    \/ LookToRelease(w)
    \/ Release(w)

----------------------------------------------------------------------------
(***************************************************************************)
(* Around the calls: people and time.                                      *)
(***************************************************************************)

(* The history of a call that acquire has not looked at remembers a person *)
(* who comes, and forgets one who leaves.                                  *)
DeclareHuman(d) ==
    /\ d \notin human
    /\ human' = human \cup {d}
    /\ watched' = watched \cup
         {w \in Workers : call[w].dev = d /\ call[w].at \in BeforeLock}
    /\ UNCHANGED <<call, table, breaker, lock, givenUp>>

ClearHuman(d) ==
    /\ d \in human
    /\ human' = human \ {d}
    /\ watched' = {w \in watched : call[w].dev # d}
    /\ UNCHANGED <<call, table, breaker, lock, givenUp>>

(* The breaker a key has now. *)
Current(k) == <<k, table[k]>>

(* A tick of the clock.  The history of a key starts again when it ends    *)
(* the cooldown of the breaker the key has.                                *)
Tick ==
    /\ \E b \in DOMAIN breaker : breaker[b].age < Cooldown
    /\ breaker' = [b \in DOMAIN breaker |->
                     IF breaker[b].age < Cooldown
                     THEN [breaker[b] EXCEPT !.age = @ + 1] ELSE breaker[b]]
    /\ givenUp' = [k \in Keys |->
                     IF /\ table[k] # NoBreaker
                        /\ breaker[Current(k)].age = Cooldown - 1
                     THEN 0 ELSE givenUp[k]]
    /\ UNCHANGED <<call, table, lock, human, watched>>

Next ==
    \/ \E w \in Workers, d \in Devices, c \in Commands : Call(w, d, c)
    \/ \E w \in Workers : Step(w)
    \/ \E d \in Devices : DeclareHuman(d) \/ ClearHuman(d)
    \/ Tick

(* A thread that is inside collect runs on: every step of it is a few      *)
(* statements, or a command with a timeout.                                *)
Fairness == \A w \in Workers : WF_vars(Step(w))

Spec == Init /\ [][Next]_vars /\ Fairness

----------------------------------------------------------------------------
(***************************************************************************)
(* Properties.                                                             *)
(***************************************************************************)

Breakers == [state : {"CLOSED", "OPEN", "HALF_OPEN"}, fails : 0..Threshold,
             age : 0..Cooldown]

Calls == [at : Stages, out : Outcomes, attempt : 0..(MaxRetries + 1),
          seen : 0..Threshold, brk : Workers, ledger : SUBSET {"event", "artifact"},
          dev : Devices, cmd : Commands]

(* Every variable keeps its type. *)
TypeOK ==
    /\ call \in [Workers -> Calls]
    /\ table \in [Keys -> Workers \cup {NoBreaker}]
    /\ breaker \in [Keys \X Workers -> Breakers]
    /\ lock \in [Devices -> {Owner, Nobody}]
    /\ human \subseteq Devices
    /\ watched \subseteq Workers
    /\ givenUp \in [Keys -> Nat]

(* Evidence and results agree although the two records of a command are    *)
(* two commits: an artifact always has its event, a result handed back     *)
(* has both, and an event alone belongs to a call that is between the two  *)
(* commits or whose caller was told the ledger failed.                     *)
EvidenceMatches ==
    \A w \in Workers :
        /\ "artifact" \in call[w].ledger => "event" \in call[w].ledger
        /\ call[w].at \in {"release", "delete"} \/ call[w].out = "collected" =>
             "artifact" \in call[w].ledger
        /\ call[w].ledger = {"event"} =>
             call[w].at = "artifact" \/ call[w].out = "ledger error"

(* A command that does not answer stops being sent although the breaker is *)
(* told, asked and replaced without a lock: between two answers, or two    *)
(* ends of a cooldown, at most MostGiveUps calls of a key run to the end   *)
(* of their retries.  One thread makes Threshold; several make more, since *)
(* a breaker that has counted is replaced, a count is overwritten by one   *)
(* read before it, and a breaker is open before it is stamped.             *)
GiveUpsBounded == \A k \in Keys : givenUp[k] <= MostGiveUps

(* A person who comes to the device before acquire has looked, and stays,  *)
(* is never joined by the automation, however the threads interleave.  (A  *)
(* person who comes later is: nothing asks again before execute.)          *)
HumanKeepsOut ==
    \A w \in watched : call[w].at \notin Admitted

(* Every call of collect comes back, with a result or a failure: retries   *)
(* are bounded and nothing waits for a lock.                               *)
CallEnds == \A w \in Workers : call[w].at # "done" ~> call[w].at = "done"

============================================================================
