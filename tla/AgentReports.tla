---------------------------- MODULE AgentReports ----------------------------
(***************************************************************************)
(* The agent replicas of one cell (internal/agent): the election of the    *)
(* one that reports, its reporting loop with jitter, request timeout and   *)
(* backoff, and how old the cell's entry in a hub's index gets meanwhile.  *)
(*                                                                         *)
(* Time is in ticks.  An attempt is either good, and then delivered and    *)
(* answered within MaxLatency, or it is not answered and fails within      *)
(* Timeout, whether or not the hub stored it.  The lease is client-go's    *)
(* leaderelection over the cell's API server: a holder tries to renew      *)
(* every Retry and stops once it has failed to for RenewDeadline; others   *)
(* look every Retry and take over after LeaseDuration.  Timers run on time.*)
(***************************************************************************)
EXTENDS Integers

CONSTANTS
  Agents,
  Interval, Drift,   \* heartbeat interval, and jitterFraction of it
  Timeout, MaxBackoff,
  MaxFailures,       \* consecutive failures past which backoff is the same
  LeaseDuration, RenewDeadline,
  Retry,             \* the longest that retryPeriod is stretched to
  MaxLatency,
  Staleness,         \* the hub's window
  None

\* Config.Validate, of the timings.
Validate ==
  /\ Interval \in Nat \ {0}
  /\ Timeout \in Nat \ {0} /\ Timeout < Interval
  /\ MaxBackoff \in Nat /\ Interval <= MaxBackoff

\* The configuration, the order client-go asks of the lease timings, and the
\* two ways in which one fault fits into the staleness window: an attempt
\* that is lost, and a holder that dies.
ASSUME TimingAssumption ==
  /\ Validate
  /\ Drift \in Nat /\ Drift <= Interval
  /\ MaxFailures \in Nat \ {0}
  /\ LeaseDuration \in Nat /\ RenewDeadline \in Nat /\ Retry \in Nat
  /\ RenewDeadline + Retry < LeaseDuration
  /\ MaxLatency \in Nat /\ MaxLatency <= Timeout
  /\ Staleness \in Nat
  /\ 2 * (Interval + Drift) + Timeout + 2 * MaxLatency <= Staleness
  /\ 2 * Interval + Drift + LeaseDuration + Retry + 3 * MaxLatency <= Staleness

ASSUME NoneAssumption == None \notin Agents

VARIABLES
  agent,    \* per replica: [pc, timer, failures]
  holder,   \* who the lease names, or None
  renewed,  \* ticks since the lease was renewed
  heard,    \* the hub has an entry
  age,      \* ticks since the hub last received a report
  faults    \* history: lost attempts and lost holders since the last success

vars == <<agent, holder, renewed, heard, age, faults>>

\* Not running; without the lease; between attempts; in a good attempt, not
\* yet delivered and delivered; in one that will fail.
Steps == {"down", "standby", "wait", "send", "sent", "lost"}
Leading == {"wait", "send", "sent", "lost"}

TypeOK ==
  /\ agent \in [Agents -> [pc : Steps, timer : Nat, failures : 0..MaxFailures]]
  /\ holder \in Agents \cup {None}
  /\ renewed \in Nat /\ heard \in BOOLEAN /\ age \in Nat /\ faults \in Nat

Idle(pc) == [pc |-> pc, timer |-> 0, failures |-> 0]

\* The replicas are scheduled; each starts its informers before it contends.
Init ==
  /\ agent = [a \in Agents |-> Idle("down")]
  /\ holder = None /\ renewed = LeaseDuration
  /\ heard = FALSE /\ age = 0 /\ faults = 0

-----------------------------------------------------------------------------
Lesser(a, b) == IF a < b THEN a ELSE b

Leads(a) == agent[a].pc \in Leading

Become(a, s) == agent' = [agent EXCEPT ![a] = s]

At(pc, timer, failures) == [pc |-> pc, timer |-> timer, failures |-> failures]

Waiting(timer, failures) == At("wait", timer, failures)

\* The loop of backoff: the interval doubled after each further failure, no
\* further than MaxBackoff.
Backoff(n) ==
  IF n = 1 THEN Interval ELSE Lesser(Interval * 2^(n - 1), MaxBackoff)

\* jitter, in proportion to what is jittered.
Jittered(d) == LET drift == (d * Drift) \div Interval IN (d - drift)..(d + drift)

\* Past this the entry is stale whatever happens.
MaxAge == Staleness + 1

Fault == faults' = Lesser(faults + 1, 2)

-----------------------------------------------------------------------------
(***************************************************************************)
(* The election.                                                           *)
(***************************************************************************)
\* startInformers is done; a replica that is not wanted goes the other way.
Start(a) ==
  /\ agent[a].pc = "down"
  /\ Become(a, Idle("standby"))
  /\ UNCHANGED <<holder, renewed, heard, age, faults>>

\* The lease may be taken as soon as its holder could have given up.
FreeEarly(a) == holder \in {None, a} \/ renewed >= RenewDeadline

\* The lease may be taken: it is free, expired, or names this replica.
Free(a) == holder \in {None, a} \/ renewed >= LeaseDuration

\* Reporter.Run starts anew, after a full jitter.
Acquire(a) ==
  /\ agent[a].pc = "standby" /\ Free(a)
  /\ \E timer \in 0..Interval : Become(a, Waiting(timer, 0))
  /\ holder' = a /\ renewed' = 0
  /\ UNCHANGED <<heard, age, faults>>

Renew(a) ==
  /\ Leads(a) /\ renewed > 0
  /\ renewed' = 0
  /\ UNCHANGED <<agent, holder, heard, age, faults>>

\* ReleaseOnCancel, when the API server is reached.
Release == holder' = None /\ renewed' = LeaseDuration

\* The holder failed to renew for RenewDeadline: its loop is cancelled, the
\* lease is released or runs out, and runElected contends again.
StepDown(a) ==
  /\ Leads(a) /\ renewed >= RenewDeadline
  /\ Become(a, Idle("standby")) /\ Fault
  /\ Release \/ UNCHANGED <<holder, renewed>>
  /\ UNCHANGED <<heard, age>>

Relieved(a) == \E b \in Agents \ {a} : agent[b].pc # "down"

\* SIGTERM, with another replica up: the lease is released.
Stop(a) ==
  /\ agent[a].pc # "down" /\ Relieved(a)
  /\ Become(a, Idle("down"))
  /\ IF Leads(a) THEN Release /\ Fault
     ELSE UNCHANGED <<holder, renewed, faults>>
  /\ UNCHANGED <<heard, age>>

\* The process dies, with another replica up: the lease runs out.
Crash(a) ==
  /\ agent[a].pc # "down" /\ Relieved(a)
  /\ Become(a, Idle("down"))
  /\ IF Leads(a) THEN Fault ELSE UNCHANGED faults
  /\ UNCHANGED <<holder, renewed, heard, age>>

-----------------------------------------------------------------------------
(***************************************************************************)
(* The reporting loop.                                                     *)
(***************************************************************************)
\* once, when the timer fires: the hub is reached or it is not.
Attempt(a) ==
  LET s == agent[a] IN
  /\ s.pc = "wait" /\ s.timer = 0
  /\ \/ Become(a, At("send", MaxLatency, s.failures)) /\ UNCHANGED faults
     \/ Become(a, At("lost", Timeout, s.failures)) /\ Fault
  /\ UNCHANGED <<holder, renewed, heard, age>>

\* The hub stores the report, perhaps of an attempt whose answer is lost.
Deliver(a) ==
  /\ agent[a].pc \in {"send", "lost"}
  /\ agent' = [agent EXCEPT ![a].pc = IF @ = "send" THEN "sent" ELSE @]
  /\ heard' = TRUE /\ age' = 0
  /\ UNCHANGED <<holder, renewed, faults>>

\* The answer: the next heartbeat is due after a jittered interval.
Succeed(a) ==
  /\ agent[a].pc = "sent"
  /\ \E timer \in Jittered(Interval) : Become(a, Waiting(timer, 0))
  /\ faults' = 0
  /\ UNCHANGED <<holder, renewed, heard, age>>

\* The failure of an attempt, counted as if it were the next one.
FailDoubly(a) ==
  LET n == Lesser(agent[a].failures + 2, MaxFailures) IN
  /\ agent[a].pc = "lost"
  /\ \E timer \in Jittered(Backoff(n)) : Become(a, Waiting(timer, n))
  /\ UNCHANGED <<holder, renewed, heard, age, faults>>

\* An error or the timeout: the report is dropped, and the loop backs off.
Fail(a) ==
  LET n == Lesser(agent[a].failures + 1, MaxFailures) IN
  /\ agent[a].pc = "lost"
  /\ \E timer \in Jittered(Backoff(n)) : Become(a, Waiting(timer, n))
  /\ UNCHANGED <<holder, renewed, heard, age, faults>>

\* Everything that is due has happened: attempts start, end and are answered
\* on time, a holder that could not renew stops, and a lease that is free is
\* taken once somebody has looked.
Due ==
  \/ \E a \in Agents :
       Leads(a) /\ (agent[a].timer = 0 \/ renewed >= RenewDeadline + Retry)
  \/ /\ renewed >= LeaseDuration + Retry
     /\ \E a \in Agents : agent[a].pc = "standby"

Tick ==
  /\ ~Due
  /\ agent' = [a \in Agents |->
       [agent[a] EXCEPT !.timer = IF @ > 0 THEN @ - 1 ELSE 0]]
  /\ renewed' = Lesser(renewed + 1, LeaseDuration + Retry)
  /\ age' = Lesser(age + 1, MaxAge)
  /\ UNCHANGED <<holder, heard, faults>>

Next ==
  \/ \E a \in Agents :
       \/ Start(a) \/ Acquire(a) \/ Renew(a) \/ StepDown(a) \/ Stop(a) \/ Crash(a)
       \/ Attempt(a) \/ Deliver(a) \/ Succeed(a) \/ Fail(a)
  \/ Tick

Spec == Init /\ [][Next]_vars

-----------------------------------------------------------------------------
\* Two replicas never report at the same time, across handovers, crashes and
\* a lost API server, and whoever reports holds the lease (runElected).
OneReporter ==
  \A a \in Agents :
    Leads(a) => holder = a /\ \A b \in Agents \ {a} : ~Leads(b)

\* Neither a single lost report nor the loss of the reporting replica makes
\* the hub give up on a cell it has heard from: the entry is fresh until a
\* second fault follows before the next success (the heartbeat interval of
\* agent.go and the lease timings of run.go).
OneFaultIsAbsorbed == heard /\ faults <= 1 => age <= Staleness
=============================================================================
