---------------------------- MODULE AgentProofs -----------------------------
(***************************************************************************)
(* What is proved of the cell agent and its reports.  AgentReports, for    *)
(* any agents and any timings in the order that client-go asks for;        *)
(* PodCharge, for pods with any containers; and FleetCapacity, for any     *)
(* cells and replicas and any number of restarts, losses and edits.        *)
(***************************************************************************)
EXTENDS AgentReports, PodCharge, FleetCapacity, WellFoundedInduction, TLAPS

\* The longest a cell without faults is silent: an answer, a jittered
\* interval and a delivery.
Quiet == 2 * MaxLatency + Interval + Drift

\* The facts on the timings that the proofs use.
Timings ==
  /\ Interval \in Nat /\ Interval > 0 /\ Drift \in Nat /\ Drift <= Interval
  /\ Timeout \in Nat /\ MaxLatency \in Nat
  /\ MaxFailures \in Nat /\ MaxFailures > 0
  /\ LeaseDuration \in Nat /\ RenewDeadline \in Nat /\ Retry \in Nat
  /\ RenewDeadline + Retry < LeaseDuration
  /\ Staleness \in Nat /\ Quiet \in Nat
  /\ Quiet = 2 * MaxLatency + Interval + Drift
  /\ Quiet + Timeout + Interval + Drift <= Staleness
  /\ Quiet + LeaseDuration + Retry + Interval + MaxLatency <= Staleness

LEMMA TimingFacts == Timings
BY TimingAssumption DEF Validate, Timings, Quiet

\* What jitter makes of the interval itself.
LEMMA JitteredInterval ==
  ASSUME NEW timer \in Jittered(Interval)
  PROVE  timer \in Int /\ 0 <= timer /\ timer <= Interval + Drift
<1>1. Interval \in Nat /\ Interval > 0 /\ Drift \in Nat /\ Drift <= Interval
  BY TimingFacts, Zenon DEF Timings
<1>2. (Interval * Drift) \div Interval = Drift
  BY <1>1
<1> QED
  BY <1>1, <1>2 DEF Jittered

-----------------------------------------------------------------------------
\* The shape of the state; the timers of long backoffs need no bound.
Shape ==
  /\ agent \in [Agents -> [pc : Steps, timer : Int, failures : Nat]]
  /\ renewed \in Nat /\ heard \in BOOLEAN /\ age \in Nat /\ faults \in Nat

\* Whoever leads holds the lease, and stops in time.
Elected ==
  \A a \in Agents : Leads(a) => holder = a /\ renewed <= RenewDeadline + Retry

\* What a replica in state s may still take, when the hub's entry is as old
\* as it is and fault says how often something failed.
OnSchedule(s, fault) ==
  /\ s.pc \notin Leading => s.failures = 0
  /\ s.pc \in Leading /\ fault <= 1 => s.timer >= 0
  /\ s.pc \in {"send", "sent"} => s.timer >= 0 /\ s.timer <= MaxLatency
  /\ s.pc = "lost" => s.timer <= Timeout
  /\ fault = 0 => s.pc # "lost" /\ s.failures = 0
  /\ fault <= 1 /\ s.pc = "lost" => s.failures = 0

\* A report that has arrived is answered in time.
Answered(s, since) == s.pc = "sent" => since + s.timer <= MaxLatency

\* With no fault since the last success a report is never later than Quiet.
Prompt(s, since) ==
  /\ s.pc = "wait" => since + s.timer + MaxLatency <= Quiet
  /\ s.pc = "send" => since + s.timer <= Quiet

\* With one there is time for another report.
InTime(s, since) ==
  /\ s.pc = "wait" => since + s.timer + MaxLatency <= Staleness
  /\ s.pc = "send" => since + s.timer <= Staleness
  /\ s.pc = "lost" =>
       since + s.timer + Interval + Drift + MaxLatency <= Staleness

Leaderless == \A a \in Agents : ~Leads(a)

\* Nobody leads after one fault: somebody is going to.
Handover ==
  /\ \E a \in Agents : agent[a].pc = "standby"
  /\ renewed <= LeaseDuration + Retry
  /\ age <= Quiet + renewed

IInv ==
  /\ Shape
  /\ Elected
  /\ \A a \in Agents :
       /\ OnSchedule(agent[a], faults)
       /\ heard => Answered(agent[a], age)
       /\ heard /\ faults = 0 => Prompt(agent[a], age)
       /\ heard /\ faults = 1 => InTime(agent[a], age)
  /\ heard /\ faults = 0 => ~Leaderless
  /\ heard /\ faults = 1 /\ Leaderless => Handover

LEMMA InitIInv == Init => IInv
<1> SUFFICES ASSUME Init PROVE IInv
  BY Zenon
<1>1. \A a \in Agents : agent[a] = [pc |-> "down", timer |-> 0, failures |-> 0]
  BY Zenon DEF Init, Idle
<1>2. Shape
  <2>1. [pc |-> "down", timer |-> 0, failures |-> 0]
          \in [pc : Steps, timer : Int, failures : Nat]
    BY DEF Steps
  <2>2. agent \in [Agents -> [pc : Steps, timer : Int, failures : Nat]]
    BY <2>1, Zenon DEF Init, Idle
  <2> QED
    BY <2>2, TimingFacts, Zenon DEF Init, Shape, Timings
<1>3. \A a \in Agents : ~Leads(a) /\ OnSchedule(agent[a], faults)
  <2> SUFFICES ASSUME NEW a \in Agents
               PROVE  ~Leads(a) /\ OnSchedule(agent[a], faults)
    BY Zenon
  <2>1. agent[a].pc = "down" /\ agent[a].failures = 0
    BY <1>1
  <2> QED
    BY <2>1, Zenon DEF OnSchedule, Leads, Leading
<1> QED
  BY <1>2, <1>3, Zenon DEF Init, IInv, Elected

\* The leader is alone.
LEMMA Alone ==
  ASSUME Elected, NEW a \in Agents, NEW b \in Agents, Leads(a), Leads(b)
  PROVE  a = b
BY Zenon DEF Elected

\* A leader that goes away leaves an entry no older than Quiet, unless
\* something had failed already.
LEMMA LeaderIsPrompt ==
  ASSUME IInv, heard, faults = 0, NEW a \in Agents, Leads(a)
  PROVE  age <= Quiet
<1>1. agent[a].timer \in Int /\ agent[a].timer >= 0 /\ agent[a].pc # "lost"
  BY DEF IInv, Shape, OnSchedule, Leads
<1> QED
  BY <1>1, TimingFacts DEF IInv, Shape, Answered, Prompt, Leads, Leading, Timings

-----------------------------------------------------------------------------
USE DEF Leads

\* The actions that change one replica, which is s afterwards.
Changes(a, s) ==
  /\ s \in [pc : Steps, timer : Int, failures : Nat]
  /\ Become(a, s)

LEMMA Changed ==
  ASSUME Shape, NEW a \in Agents, NEW s, Changes(a, s)
  PROVE  /\ agent' \in [Agents -> [pc : Steps, timer : Int, failures : Nat]]
         /\ agent'[a] = s
         /\ \A b \in Agents \ {a} : agent'[b] = agent[b]
BY Zenon DEF Shape, Changes, Become

\* A leader that goes on leading.
LEMMA LeaderGoesOn ==
  ASSUME IInv, NEW a \in Agents, Leads(a), NEW s, Changes(a, s), s.pc \in Leading,
         holder' = holder, renewed' = renewed,
         heard' \in BOOLEAN, age' \in Nat, faults' \in Nat,
         OnSchedule(s, faults'), heard' => Answered(s, age'),
         heard' /\ faults' = 0 => Prompt(s, age'),
         heard' /\ faults' = 1 => InTime(s, age')
  PROVE  IInv'
<1>1. Shape /\ Elected
  BY Zenon DEF IInv
<1>2. Shape'
  BY <1>1, Changed, Zenon DEF Shape
<1>3. agent'[a] = s /\ \A b \in Agents \ {a} : agent'[b] = agent[b]
  BY <1>1, Changed, Zenon
<1>4. \A b \in Agents \ {a} : agent[b].pc \notin Leading
  BY <1>1, Alone, Zenon
<1>5. \A b \in Agents \ {a} : agent[b].failures = 0
  BY <1>4, Zenon DEF IInv, OnSchedule
<1>6. Elected'
  BY <1>1, <1>3, <1>4, Zenon DEF Elected
<1>7. ASSUME NEW b \in Agents
      PROVE  /\ OnSchedule(agent'[b], faults')
             /\ heard' => Answered(agent'[b], age')
             /\ heard' /\ faults' = 0 => Prompt(agent'[b], age')
             /\ heard' /\ faults' = 1 => InTime(agent'[b], age')
  <2>1. CASE b = a
    BY <2>1, <1>3, Zenon
  <2>2. CASE b # a
    BY <2>2, <1>3, <1>4, <1>5 DEF OnSchedule, Answered, Prompt, InTime, Leading
  <2> QED
    BY <2>1, <2>2, Zenon
<1>8. ~Leaderless'
  BY <1>3, Zenon DEF Leaderless
<1> QED
  BY <1>2, <1>6, <1>7, <1>8, Zenon DEF IInv

\* A replica that leads no longer; somebody is left who can.
LEMMA LeaderGoes ==
  ASSUME IInv, NEW a \in Agents, Leads(a), NEW pc \in {"down", "standby"},
         Become(a, Idle(pc)), Fault, heard' = heard, age' = age,
         \/ UNCHANGED <<holder, renewed>>
         \/ renewed' = LeaseDuration,
         pc = "standby" \/ Relieved(a)
  PROVE  IInv'
<1>1. Shape /\ Elected
  BY Zenon DEF IInv
<1>2. Changes(a, Idle(pc))
  BY DEF Changes, Idle, Steps
<1>3. /\ agent'[a] = Idle(pc)
      /\ \A b \in Agents \ {a} : agent'[b] = agent[b]
  BY <1>1, <1>2, Changed, Zenon
<1>4. \A b \in Agents \ {a} : agent[b].pc \notin Leading
  BY <1>1, Alone, Zenon
<1>5. faults' \in Nat /\ faults' # 0 /\ (faults' = 1 => faults = 0)
  BY <1>1 DEF Fault, Lesser, Shape
<1>6. Shape'
  BY <1>1, <1>2, <1>5, Changed, TimingFacts, Zenon DEF Shape, Timings
<1>7. Leaderless'
  BY <1>3, <1>4 DEF Leaderless, Idle, Leading
<1>8. ASSUME NEW b \in Agents
      PROVE  /\ OnSchedule(agent'[b], faults')
             /\ Answered(agent'[b], age')
             /\ Prompt(agent'[b], age') /\ InTime(agent'[b], age')
  <2>1. agent'[b].pc \notin Leading
    BY <1>7, Zenon DEF Leaderless
  <2>2. agent'[b].failures = 0
    BY <1>3, <1>4 DEF IInv, OnSchedule, Idle
  <2> QED
    BY <2>1, <2>2, <1>5, Zenon DEF OnSchedule, Answered, Prompt, InTime,
       Leading
<1>9. ASSUME heard', faults' = 1
      PROVE  Handover'
  <2>1. \E b \in Agents : agent'[b].pc = "standby"
    BY <1>1, <1>3, <1>4 DEF Idle, Relieved, Shape, Steps, Leading
  <2>2. age <= Quiet
    BY <1>9, <1>5, LeaderIsPrompt, Zenon
  <2>3. renewed' <= LeaseDuration + Retry
    <3>1. renewed <= RenewDeadline + Retry
      BY <1>1, Zenon DEF Elected
    <3> QED
      BY <3>1, <1>1, TimingFacts DEF Timings, Shape
  <2>4. age' <= Quiet + renewed'
    <3>1. age \in Nat /\ renewed' \in Nat /\ Quiet \in Nat /\ age' = age
      BY <1>1, <1>6, TimingFacts, Zenon DEF Timings, Shape
    <3>2. \A x, y, z \in Nat : x <= y => x <= y + z
      OBVIOUS
    <3> QED
      BY <2>2, <3>1, <3>2, Zenon
  <2> QED
    BY <2>1, <2>3, <2>4, Zenon DEF Handover
<1> QED
  BY <1>5, <1>6, <1>7, <1>8, <1>9, Zenon DEF IInv, Elected, Leaderless

\* A replica that does not lead comes or goes.
LEMMA OthersComeAndGo ==
  ASSUME IInv, NEW a \in Agents, ~Leads(a), NEW pc \in {"down", "standby"},
         Become(a, Idle(pc)), UNCHANGED <<holder, renewed, heard, age, faults>>,
         pc = "standby" \/ Relieved(a)
  PROVE  IInv'
<1>1. Shape /\ Elected
  BY Zenon DEF IInv
<1>2. Changes(a, Idle(pc))
  BY DEF Changes, Idle, Steps
<1>3. /\ agent'[a] = Idle(pc)
      /\ \A b \in Agents \ {a} : agent'[b] = agent[b]
  BY <1>1, <1>2, Changed, Zenon
<1>4. \A b \in Agents : agent'[b].pc \in Leading <=> agent[b].pc \in Leading
  BY <1>3 DEF Idle, Leading
<1>5. Shape'
  BY <1>1, <1>2, Changed, Zenon DEF Shape
<1>6. Elected' /\ (Leaderless' <=> Leaderless)
  BY <1>1, <1>3, <1>4, Zenon DEF Elected, Leaderless, Idle, Leading
<1>7. ASSUME NEW b \in Agents
      PROVE  /\ OnSchedule(agent'[b], faults)
             /\ heard => Answered(agent'[b], age)
             /\ heard /\ faults = 0 => Prompt(agent'[b], age)
             /\ heard /\ faults = 1 => InTime(agent'[b], age)
  BY <1>3 DEF IInv, OnSchedule, Answered, Prompt, InTime, Idle, Leading
<1>8. ASSUME Leaderless, Handover
      PROVE  Handover'
  <2>1. \E b \in Agents : agent'[b].pc = "standby"
    BY <1>1, <1>3, <1>8 DEF Idle, Relieved, Shape, Steps, Leading, Leaderless
  <2> QED
    BY <2>1, <1>8, Zenon DEF Handover
<1> QED
  BY <1>5, <1>6, <1>7, <1>8, Zenon DEF IInv

-----------------------------------------------------------------------------
(***************************************************************************)
(* One lemma per action.                                                   *)
(***************************************************************************)
LEMMA AcquireIInv ==
  ASSUME IInv, NEW a \in Agents, Acquire(a)
  PROVE  IInv'
<1>1. Shape /\ Elected
  BY Zenon DEF IInv
<1>2. PICK timer \in 0..Interval : Become(a, Waiting(timer, 0))
  BY Zenon DEF Acquire
<1>3. timer \in Int /\ 0 <= timer /\ timer <= Interval
  BY <1>2, TimingFacts DEF Timings
<1>4. Changes(a, Waiting(timer, 0))
  BY <1>2, <1>3, Zenon DEF Changes, Waiting, At, Steps
<1>5. /\ agent'[a] = Waiting(timer, 0)
      /\ \A b \in Agents \ {a} : agent'[b] = agent[b]
  BY <1>1, <1>4, Changed, Zenon
<1>6. Leaderless
  <2> SUFFICES ASSUME NEW b \in Agents, Leads(b) PROVE FALSE
    BY Zenon DEF Leaderless
  <2>1. holder = b /\ renewed <= RenewDeadline + Retry
    BY <1>1, Zenon DEF Elected
  <2>2. a # b
    BY Zenon DEF Acquire, Leading
  <2> QED
    BY <2>1, <2>2, <1>1, NoneAssumption, TimingFacts
       DEF Acquire, Free, Timings, Shape
<1>7. Shape'
  BY <1>1, <1>4, Changed, Zenon DEF Acquire, Shape
<1>8. Elected'
  BY <1>5, <1>6, TimingFacts DEF Elected, Leaderless, Acquire, Timings
<1>9. ~Leaderless'
  BY <1>5 DEF Leaderless, Waiting, At, Leading
<1>10. ASSUME NEW b \in Agents
       PROVE  /\ OnSchedule(agent'[b], faults')
              /\ heard' => Answered(agent'[b], age')
              /\ heard' /\ faults' = 0 => Prompt(agent'[b], age')
              /\ heard' /\ faults' = 1 => InTime(agent'[b], age')
  <2>1. CASE b # a
    BY <2>1, <1>5, Zenon DEF IInv, Acquire
  <2>2. CASE b = a
    <3>1. OnSchedule(agent'[a], faults') /\ Answered(agent'[a], age')
      BY <1>5, <1>3 DEF OnSchedule, Answered, Waiting, At, Leading
    <3>2. ~(heard' /\ faults' = 0)
      BY <1>6, Zenon DEF IInv, Acquire
    <3>3. ASSUME heard', faults' = 1
          PROVE  InTime(agent'[a], age')
      <4>1. age <= Quiet + renewed /\ renewed <= LeaseDuration + Retry
        BY <3>3, <1>6, Zenon DEF IInv, Acquire, Handover
      <4>2. age + timer + MaxLatency <= Staleness
        BY <4>1, <1>1, <1>3, TimingFacts DEF Timings, Shape
      <4> QED
        BY <4>2, <1>5 DEF InTime, Waiting, At, Acquire
    <3> QED
      BY <2>2, <3>1, <3>2, <3>3, Zenon
  <2> QED
    BY <2>1, <2>2, Zenon
<1> QED
  BY <1>7, <1>8, <1>9, <1>10, Zenon DEF IInv

LEMMA RenewIInv ==
  ASSUME IInv, NEW a \in Agents, Renew(a)
  PROVE  IInv'
<1>1. ~Leaderless
  BY Zenon DEF Leaderless, Renew
<1>2. Shape' /\ Elected' /\ ~Leaderless'
  BY <1>1, TimingFacts DEF IInv, Shape, Elected, Leaderless, Renew, Timings
<1> QED
  BY <1>2, Zenon DEF IInv, Renew

LEMMA StepDownIInv ==
  ASSUME IInv, NEW a \in Agents, StepDown(a)
  PROVE  IInv'
BY LeaderGoes, Zenon DEF StepDown, Release

LEMMA StartIInv ==
  ASSUME IInv, NEW a \in Agents, Start(a)
  PROVE  IInv'
BY OthersComeAndGo, Zenon DEF Start, Leading

LEMMA StopIInv ==
  ASSUME IInv, NEW a \in Agents, Stop(a)
  PROVE  IInv'
<1>1. CASE Leads(a)
  BY <1>1, LeaderGoes, Zenon DEF Stop, Release
<1>2. CASE ~Leads(a)
  BY <1>2, OthersComeAndGo, Zenon DEF Stop
<1> QED
  BY <1>1, <1>2, Zenon

LEMMA CrashIInv ==
  ASSUME IInv, NEW a \in Agents, Crash(a)
  PROVE  IInv'
<1>1. CASE Leads(a)
  BY <1>1, LeaderGoes, Zenon DEF Crash
<1>2. CASE ~Leads(a)
  BY <1>2, OthersComeAndGo, Zenon DEF Crash
<1> QED
  BY <1>1, <1>2, Zenon

\* What IInv says of a leader.
LEMMA LeaderFacts ==
  ASSUME IInv, NEW a \in Agents
  PROVE  /\ agent[a] \in [pc : Steps, timer : Int, failures : Nat]
         /\ age \in Nat /\ faults \in Nat /\ heard \in BOOLEAN
         /\ OnSchedule(agent[a], faults)
         /\ heard => Answered(agent[a], age)
         /\ heard /\ faults = 0 => Prompt(agent[a], age)
         /\ heard /\ faults = 1 => InTime(agent[a], age)
BY Zenon DEF IInv, Shape

LEMMA AttemptIInv ==
  ASSUME IInv, NEW a \in Agents, Attempt(a)
  PROVE  IInv'
<1> DEFINE s == agent[a]
           good == At("send", MaxLatency, s.failures)
           bad == At("lost", Timeout, s.failures)
<1>1. s \in [pc : Steps, timer : Int, failures : Nat]
  BY LeaderFacts, Zenon
<1>2. s.pc = "wait" /\ s.timer = 0 /\ Leads(a)
  BY Zenon DEF Attempt, Leading
<1>3. holder' = holder /\ renewed' = renewed /\ heard' = heard /\ age' = age
  BY Zenon DEF Attempt
<1>4. CASE Become(a, good) /\ UNCHANGED faults
  <2>1. good = [pc |-> "send", timer |-> MaxLatency, failures |-> s.failures]
    BY Zenon DEF At
  <2>2. Changes(a, good) /\ good.pc \in Leading
    BY <2>1, <1>1, <1>4, TimingFacts DEF Changes, Steps, Leading, Timings
  <2>3. OnSchedule(good, faults')
    BY <2>1, <1>2, <1>4, LeaderFacts, TimingFacts, SMTT(20) DEF OnSchedule,
       Leading, Timings
  <2>4. /\ Answered(good, age)
        /\ heard /\ faults = 0 => Prompt(good, age)
        /\ heard /\ faults = 1 => InTime(good, age)
    BY <2>1, <1>2, LeaderFacts, TimingFacts DEF Answered, Prompt, InTime, Timings
  <2> HIDE DEF good
  <2> QED
    BY <2>2, <2>3, <2>4, <1>2, <1>3, <1>4, LeaderFacts, LeaderGoesOn, Zenon
<1>5. CASE Become(a, bad) /\ Fault
  <2>1. bad = [pc |-> "lost", timer |-> Timeout, failures |-> s.failures]
    BY Zenon DEF At
  <2>2. Changes(a, bad) /\ bad.pc \in Leading
    BY <2>1, <1>1, <1>5, TimingFacts DEF Changes, Steps, Leading, Timings
  <2>3. faults' \in Nat /\ faults' # 0 /\ (faults' = 1 => faults = 0)
    BY <1>5, LeaderFacts DEF Fault, Lesser
  <2>4. OnSchedule(bad, faults')
    BY <2>1, <2>3, <1>2, LeaderFacts, TimingFacts DEF OnSchedule, Leading, Timings
  <2>5. Answered(bad, age') /\ (heard' /\ faults' = 1 => InTime(bad, age'))
    BY <2>1, <2>3, <1>2, <1>3, LeaderFacts, TimingFacts
       DEF Answered, Prompt, InTime, Timings
  <2> HIDE DEF bad
  <2> QED
    BY <2>2, <2>3, <2>4, <2>5, <1>2, <1>3, LeaderFacts, LeaderGoesOn, Zenon
<1> QED
  BY <1>4, <1>5, Zenon DEF Attempt

LEMMA DeliverIInv ==
  ASSUME IInv, NEW a \in Agents, Deliver(a)
  PROVE  IInv'
<1> DEFINE s == agent[a]
           t == [s EXCEPT !.pc = IF s.pc = "send" THEN "sent" ELSE s.pc]
<1>1. s \in [pc : Steps, timer : Int, failures : Nat]
  BY LeaderFacts, Zenon
<1>2. s.pc \in {"send", "lost"} /\ Leads(a)
  BY Zenon DEF Deliver, Leading
<1>3. /\ holder' = holder /\ renewed' = renewed /\ faults' = faults
      /\ heard' = TRUE /\ age' = 0
  BY Zenon DEF Deliver
<1>4. t = [pc |-> IF s.pc = "send" THEN "sent" ELSE "lost",
           timer |-> s.timer, failures |-> s.failures]
  BY <1>1, <1>2
<1>5. Become(a, t)
  BY Zenon DEF Deliver, Become
<1>6. Changes(a, t) /\ t.pc \in Leading
  BY <1>1, <1>4, <1>5, Zenon DEF Changes, Steps, Leading
<1>7. OnSchedule(t, faults)
  BY <1>2, <1>4, LeaderFacts, Zenon DEF OnSchedule, Leading
<1>8. Answered(t, 0) /\ (faults = 0 => Prompt(t, 0))
  BY <1>1, <1>2, <1>4, LeaderFacts, TimingFacts
     DEF OnSchedule, Answered, Prompt, Timings
<1>9. faults = 1 => InTime(t, 0)
  BY <1>1, <1>2, <1>4, LeaderFacts, TimingFacts DEF OnSchedule, InTime, Timings
<1> HIDE DEF t
<1> QED
  BY <1>2, <1>3, <1>6, <1>7, <1>8, <1>9, LeaderFacts, LeaderGoesOn, Zenon

LEMMA SucceedIInv ==
  ASSUME IInv, NEW a \in Agents, Succeed(a)
  PROVE  IInv'
<1>1. PICK timer \in Jittered(Interval) : Become(a, Waiting(timer, 0))
  BY Zenon DEF Succeed
<1>2. timer \in Int /\ 0 <= timer /\ timer <= Interval + Drift
  BY JitteredInterval, Zenon
<1> DEFINE t == Waiting(timer, 0)
<1>3. Changes(a, t) /\ t.pc \in Leading /\ OnSchedule(t, 0)
  BY <1>1, <1>2, Zenon DEF Changes, Steps, Leading, Waiting, At, OnSchedule
<1>4. /\ holder' = holder /\ renewed' = renewed /\ faults' = 0
      /\ heard' = heard /\ age' = age /\ Leads(a)
  BY Zenon DEF Succeed, Leading
<1>5. ASSUME heard
      PROVE  Answered(t, age) /\ Prompt(t, age)
  <2>1. age <= MaxLatency
    BY <1>5, LeaderFacts, TimingFacts DEF Succeed, OnSchedule, Answered, Timings
  <2> QED
    BY <2>1, <1>2, LeaderFacts, TimingFacts DEF Waiting, At, Answered, Prompt, Timings
<1> HIDE DEF t
<1> QED
  BY <1>3, <1>4, <1>5, LeaderFacts, LeaderGoesOn

LEMMA FailIInv ==
  ASSUME IInv, NEW a \in Agents, Fail(a)
  PROVE  IInv'
<1> DEFINE n == Lesser(agent[a].failures + 1, MaxFailures)
<1>1. PICK timer \in Jittered(Backoff(n)) : Become(a, Waiting(timer, n))
  BY Zenon DEF Fail
<1>2. agent[a].pc = "lost" /\ Leads(a)
  BY Zenon DEF Fail, Leading
<1>3. /\ holder' = holder /\ renewed' = renewed /\ faults' = faults
      /\ heard' = heard /\ age' = age
  BY Zenon DEF Fail
<1>4. n \in Nat
  BY LeaderFacts, TimingFacts DEF Lesser, Timings
<1>5. timer \in Int
  BY <1>1 DEF Jittered
<1>6. ASSUME faults <= 1
      PROVE  faults = 1 /\ 0 <= timer /\ timer <= Interval + Drift
  <2>1. faults = 1 /\ agent[a].failures = 0
    BY <1>2, <1>6, LeaderFacts DEF OnSchedule
  <2>2. n = 1
    BY <2>1, TimingFacts DEF Lesser, Timings
  <2>3. timer \in Jittered(Interval)
    BY <1>1, <2>2, Zenon DEF Backoff
  <2> QED
    BY <2>1, <2>3, JitteredInterval, Zenon
<1> DEFINE t == Waiting(timer, n)
<1> HIDE DEF n
<1>7. t = [pc |-> "wait", timer |-> timer, failures |-> n]
  BY Zenon DEF Waiting, At
<1>8. Changes(a, t) /\ t.pc \in Leading
  BY <1>1, <1>4, <1>5, <1>7 DEF Changes, Steps, Leading
<1>9. OnSchedule(t, faults) /\ Answered(t, age)
  BY <1>6, <1>7, LeaderFacts DEF OnSchedule, Answered, Leading
<1>10. ~(heard /\ faults = 0)
  BY <1>6, LeaderFacts
<1>11. ASSUME heard, faults = 1
       PROVE  InTime(t, age)
  <2>1. /\ age + agent[a].timer + Interval + Drift + MaxLatency <= Staleness
        /\ agent[a].timer >= 0
    BY <1>2, <1>11, LeaderFacts DEF InTime, OnSchedule
  <2>2. age + timer + MaxLatency <= Staleness
    BY <2>1, <1>5, <1>6, <1>11, LeaderFacts, TimingFacts DEF Timings
  <2> QED
    BY <2>2, <1>7 DEF InTime
<1> HIDE DEF t
<1> QED
  BY <1>2, <1>3, <1>8, <1>9, <1>10, <1>11, LeaderFacts, LeaderGoesOn, Zenon

LEMMA TickIInv ==
  ASSUME IInv, Tick
  PROVE  IInv'
<1>1. Shape /\ Elected
  BY Zenon DEF IInv
<1>2. holder' = holder /\ heard' = heard /\ faults' = faults
  BY Zenon DEF Tick
<1>3. /\ renewed' \in Nat /\ renewed' <= renewed + 1
      /\ renewed' <= LeaseDuration + Retry
      /\ renewed < LeaseDuration + Retry => renewed' = renewed + 1
  <2>1. renewed \in Nat /\ LeaseDuration + Retry \in Nat
    BY <1>1, TimingFacts DEF Shape, Timings
  <2>2. renewed' = IF renewed + 1 < LeaseDuration + Retry
                   THEN renewed + 1 ELSE LeaseDuration + Retry
    BY Zenon DEF Tick, Lesser
  <2>3. CASE renewed + 1 < LeaseDuration + Retry
    BY <2>1, <2>2, <2>3
  <2>4. CASE ~(renewed + 1 < LeaseDuration + Retry)
    BY <2>1, <2>2, <2>4
  <2> QED
    BY <2>3, <2>4, Zenon
<1>4. age' \in Nat /\ age' <= age + 1
  BY <1>1, TimingFacts DEF Tick, Lesser, MaxAge, Shape, Timings
<1>5. ASSUME NEW a \in Agents
      PROVE  /\ agent'[a].pc = agent[a].pc
             /\ agent'[a].failures = agent[a].failures
             /\ agent'[a].timer = IF agent[a].timer > 0
                                  THEN agent[a].timer - 1 ELSE 0
  BY <1>1, Zenon DEF Tick, Shape
<1>6. Shape'
  <2>1. agent' \in [Agents -> [pc : Steps, timer : Int, failures : Nat]]
    BY <1>1, <1>5 DEF Tick, Shape
  <2> QED
    BY <1>1, <1>2, <1>3, <1>4, <2>1, Zenon DEF Shape
<1>7. ASSUME NEW a \in Agents, Leads(a)
      PROVE  agent[a].timer # 0 /\ renewed < RenewDeadline + Retry
  BY <1>1, <1>7, TimingFacts DEF Tick, Due, Shape, Timings
<1>8. Elected'
  BY <1>1, <1>2, <1>3, <1>5, <1>7, TimingFacts DEF Elected, Shape, Timings
<1>9. Leaderless' <=> Leaderless
  BY <1>5, Zenon DEF Leaderless
<1>10. ASSUME Leaderless, Handover
       PROVE  Handover'
  <2>1. PICK a \in Agents : agent[a].pc = "standby"
    BY <1>10, Zenon DEF Handover
  <2>2. agent'[a].pc = "standby"
    BY <1>5, <2>1, Zenon
  <2>3. renewed < LeaseDuration + Retry
    BY <1>1, <2>1, TimingFacts DEF Tick, Due, Shape, Timings
  <2>4. age' <= Quiet + renewed'
    BY <1>1, <1>3, <1>4, <1>10, <2>3, TimingFacts DEF Handover, Shape, Timings
  <2> QED
    BY <1>3, <2>2, <2>4, Zenon DEF Handover
<1>11. ASSUME NEW a \in Agents
       PROVE  /\ OnSchedule(agent'[a], faults)
              /\ heard => Answered(agent'[a], age')
              /\ heard /\ faults = 0 => Prompt(agent'[a], age')
              /\ heard /\ faults = 1 => InTime(agent'[a], age')
  <2> DEFINE s == agent[a]
             t == agent'[a]
  <2>1. /\ t.pc = s.pc /\ t.failures = s.failures
        /\ t.timer = IF s.timer > 0 THEN s.timer - 1 ELSE 0
    BY <1>5, Zenon
  <2>2. s.timer \in Int /\ (s.pc \in Leading => s.timer # 0)
    BY <1>7, LeaderFacts, Zenon
  <2>3. /\ OnSchedule(s, faults) /\ age \in Nat /\ faults \in Nat
        /\ heard => Answered(s, age)
        /\ heard /\ faults = 0 => Prompt(s, age)
        /\ heard /\ faults = 1 => InTime(s, age)
    BY LeaderFacts, Zenon
  <2> HIDE DEF s, t
  <2>4. OnSchedule(t, faults)
    BY <2>1, <2>2, <2>3, TimingFacts DEF OnSchedule, Leading, Timings
  <2>5. s.pc \in Leading /\ faults <= 1 => t.timer = s.timer - 1
    BY <2>1, <2>2, <2>3 DEF OnSchedule
  <2>6. s.pc = "sent" => t.timer = s.timer - 1
    BY <2>1, <2>2, <2>3 DEF OnSchedule, Leading
  <2>7. /\ t.timer = s.timer - 1 => age' + t.timer <= age + s.timer
        /\ age' + t.timer \in Int /\ age + s.timer \in Int
    BY <1>4, <2>1, <2>2, <2>3
  <2>8. heard => Answered(t, age')
    BY <2>1, <2>3, <2>6, <2>7, TimingFacts DEF Answered, Timings
  <2>9. heard /\ faults = 0 => Prompt(t, age')
    BY <2>1, <2>3, <2>5, <2>7, TimingFacts DEF Prompt, Leading, Timings
  <2>10. heard /\ faults = 1 => InTime(t, age')
    BY <2>1, <2>3, <2>5, <2>7, TimingFacts DEF InTime, Leading, Timings
  <2> QED
    BY <2>4, <2>8, <2>9, <2>10, Zenon DEF t
<1> QED
  BY <1>2, <1>6, <1>8, <1>9, <1>10, <1>11, Zenon DEF IInv

-----------------------------------------------------------------------------
LEMMA NextIInv == IInv /\ [Next]_vars => IInv'
<1> SUFFICES ASSUME IInv, [Next]_vars PROVE IInv'
  BY Zenon
<1>1. CASE UNCHANGED vars
  BY <1>1, Zenon DEF vars, IInv, Shape, Elected, Leaderless, Handover
<1>2. CASE Tick
  BY <1>2, TickIInv, Zenon
<1>3. ASSUME NEW a \in Agents,
             \/ Start(a) \/ Acquire(a) \/ Renew(a) \/ StepDown(a) \/ Stop(a)
             \/ Crash(a) \/ Attempt(a) \/ Deliver(a) \/ Succeed(a) \/ Fail(a)
      PROVE  IInv'
  BY <1>3, StartIInv, AcquireIInv, RenewIInv, StepDownIInv, StopIInv,
     CrashIInv, AttemptIInv, DeliverIInv, SucceedIInv, FailIInv, Zenon
<1> QED
  BY <1>1, <1>2, <1>3, Zenon DEF Next

\* However many replicas the Deployment runs and whatever happens to them and
\* to the API server, at most one runs Reporter.Run, and it holds the lease.
THEOREM ReporterIsAlone == Spec => []OneReporter
<1>1. IInv => OneReporter
  BY Alone, Zenon DEF IInv, Elected, OneReporter
<1> QED
  BY InitIInv, NextIInv, <1>1, PTL DEF Spec

\* For all timings that satisfy TimingAssumption, neither one failed attempt
\* of Reporter.Run nor one change of the replica that runs it makes the hub's
\* entry older than its staleness window.
THEOREM FaultIsAbsorbed == Spec => []OneFaultIsAbsorbed
<1>1. IInv => OneFaultIsAbsorbed
  <2> SUFFICES ASSUME IInv, heard, faults <= 1 PROVE age <= Staleness
    BY Zenon DEF OneFaultIsAbsorbed
  <2>1. CASE Leaderless
    <3>1. Handover
      BY <2>1 DEF IInv, Shape
    <3> QED
      BY <3>1, TimingFacts DEF Handover, IInv, Shape, Timings
  <2>2. CASE ~Leaderless
    <3>1. PICK a \in Agents : Leads(a)
      BY <2>2, Zenon DEF Leaderless
    <3>2. CASE faults = 0
      BY <3>1, <3>2, LeaderIsPrompt, TimingFacts DEF IInv, Shape, Timings
    <3>3. CASE faults = 1
      BY <3>1, <3>3, LeaderFacts, TimingFacts
         DEF InTime, Answered, OnSchedule, Leading, Timings
    <3> QED
      BY <3>2, <3>3 DEF IInv, Shape
  <2> QED
    BY <2>1, <2>2, Zenon
<1> QED
  BY InitIInv, NextIInv, <1>1, PTL DEF Spec
-----------------------------------------------------------------------------
(***************************************************************************)
(* What podRequests computes, for every number of init containers.         *)
(***************************************************************************)
\* What holds of 0, and of a number's successor whenever of the number, holds
\* of all of them: otherwise one is the least of which it does not.
LEMMA UpTo ==
  ASSUME NEW L \in Nat, NEW S, 0 \in S,
         \A n \in 0..L : n # L /\ n \in S => n + 1 \in S
  PROVE  \A n \in 0..L : n \in S
<1> DEFINE T == {n \in 0..L : n \notin S}
<1> SUFFICES ASSUME T # {} PROVE FALSE
  BY Zenon
<1>1. T \subseteq Nat
  OBVIOUS
<1>2. PICK x \in T : \A y \in T : ~(y < x)
  <2> HIDE DEF T
  <2>1. PICK x \in T : \A y \in T : <<y, x>> \notin OpToRel(<, Nat)
    BY <1>1, NatLessThanWellFounded, WFMin, Zenon
  <2>2. \A y \in T : ~(y < x)
    BY <1>1, <2>1, Zenon DEF OpToRel
  <2> QED
    BY <2>2, Zenon
<1>3. x \in 0..L /\ x \notin S
  BY Zenon
<1>4. x - 1 \in 0..L /\ x - 1 # L /\ (x - 1) + 1 = x /\ x - 1 < x
  BY <1>3
<1>5. x - 1 \notin T
  <2> HIDE DEF T
  <2> QED
    BY <1>2, <1>4, Zenon
<1> QED
  BY <1>3, <1>4, <1>5, Zenon

\* The totals.
Totals == [peak : Nat, sidecars : Nat]

\* The loop has a result after each of its rounds, and it is what the round
\* makes of the one before.
LEMMA ChargedRounds ==
  ASSUME NEW p \in PodSpec
  PROVE  /\ Charged(p)[0] = [peak |-> 0, sidecars |-> 0]
         /\ \A n \in 1..Len(p.init) :
              Charged(p)[n] = ChargeInit(Charged(p)[n - 1], p.init[n])
<1> DEFINE L == Len(p.init)
           Round(f, n) == IF n = 0 THEN [peak |-> 0, sidecars |-> 0]
                          ELSE ChargeInit(f[n - 1], p.init[n])
           S == {m \in 0..L : \E f : f = [n \in 0..m |-> Round(f, n)]}
<1>1. L \in Nat
  BY DEF PodSpec
<1>2. 0 \in S
  <2> DEFINE f == [n \in 0..0 |-> [peak |-> 0, sidecars |-> 0]]
  <2>1. f = [n \in 0..0 |-> Round(f, n)]
    OBVIOUS
  <2>2. 0 \in 0..L
    BY <1>1
  <2> HIDE DEF f, Round, L
  <2> QED
    BY <2>1, <2>2, Zenon
<1>3. ASSUME NEW m \in 0..L, m # L, m \in S PROVE m + 1 \in S
  <2>1. PICK f : f = [n \in 0..m |-> Round(f, n)]
    BY <1>3, Zenon
  <2> DEFINE g == [n \in 0..m + 1 |-> IF n = m + 1 THEN Round(f, n) ELSE f[n]]
  <2>2. ASSUME NEW n \in 0..m + 1 PROVE g[n] = Round(g, n)
    <3>1. CASE n = 0
      <4>1. g[0] = f[0] /\ f[0] = Round(f, 0)
        BY <1>1, <2>1
      <4> QED
        BY <3>1, <4>1, Zenon
    <3>2. CASE n # 0
      <4>1. n - 1 \in 0..m /\ n - 1 # m + 1 /\ n - 1 \in 0..m + 1
        BY <1>1, <3>2
      <4>2. g[n - 1] = f[n - 1]
        BY <4>1, Zenon
      <4>3. g[n] = Round(f, n)
        BY <2>1, <3>2
      <4> HIDE DEF g
      <4> QED
        BY <3>2, <4>2, <4>3, Zenon
    <3> QED
      BY <3>1, <3>2, Zenon
  <2>3. g = [n \in 0..m + 1 |-> Round(g, n)]
    <3> DEFINE h == [n \in 0..m + 1 |-> Round(g, n)]
    <3>1. DOMAIN g = DOMAIN h /\ \A n \in 0..m + 1 : g[n] = h[n]
      BY <2>2, Zenon
    <3> QED
      BY <3>1, Zenon
  <2>4. m + 1 \in 0..L
    BY <1>1, <1>3
  <2> HIDE DEF g, Round
  <2> QED
    BY <2>3, <2>4, Zenon
<1>4. L \in S
  <2> HIDE DEF S, L
  <2> QED
    BY <1>1, <1>2, <1>3, UpTo
<1>5. \E f : f = [n \in 0..L |-> Round(f, n)]
  BY <1>4, Zenon
<1>6. Charged(p) = [n \in 0..L |-> Round(Charged(p), n)]
  <2> DEFINE c == CHOOSE f : f = [n \in 0..L |-> Round(f, n)]
  <2>1. c = [n \in 0..L |-> Round(c, n)]
    <3> HIDE DEF Round, L
    <3> QED
      BY <1>5, Zenon
  <2>2. Charged(p) = c
    BY Zenon DEF Charged
  <2> HIDE DEF c
  <2> QED
    BY <2>1, <2>2, Zenon
<1> DEFINE c == Charged(p)
<1> HIDE DEF c
<1>7. c = [n \in 0..L |-> Round(c, n)]
  BY <1>6, Zenon DEF c
<1>8. c[0] = [peak |-> 0, sidecars |-> 0]
  BY <1>1, <1>7
<1>9. ASSUME NEW n \in 1..L PROVE c[n] = ChargeInit(c[n - 1], p.init[n])
  BY <1>1, <1>7, SMTT(20)
<1> QED
  BY <1>8, <1>9, Zenon DEF c

\* One round, of totals that are numbers.
LEMMA RoundFacts ==
  ASSUME NEW t \in Totals, NEW c \in InitContainer
  PROVE  /\ ChargeInit(t, c) \in Totals
         /\ ChargeInit(t, c).peak = Larger(t.peak, c.req + t.sidecars)
         /\ ChargeInit(t, c).sidecars = t.sidecars + IF c.always THEN c.req ELSE 0
         /\ t.peak <= ChargeInit(t, c).peak
BY DEF Totals, InitContainer, ChargeInit, Larger

\* The totals are numbers after every round.
LEMMA ChargedTyped ==
  ASSUME NEW p \in PodSpec
  PROVE  \A n \in 0..Len(p.init) : Charged(p)[n] \in Totals
<1> DEFINE L == Len(p.init)
           S == {n \in 0..L : Charged(p)[n] \in Totals}
<1>1. L \in Nat /\ \A n \in 1..L : p.init[n] \in InitContainer
  BY DEF PodSpec
<1>2. 0 \in S
  BY <1>1, ChargedRounds DEF Totals
<1>3. ASSUME NEW n \in 0..L, n # L, n \in S PROVE n + 1 \in S
  <2>1. n + 1 \in 1..L /\ (n + 1) - 1 = n /\ n + 1 \in 0..L
    BY <1>1, <1>3
  <2>2. Charged(p)[n + 1] = ChargeInit(Charged(p)[n], p.init[n + 1])
    BY <2>1, ChargedRounds, Zenon
  <2>3. Charged(p)[n] \in Totals /\ p.init[n + 1] \in InitContainer
    BY <1>1, <1>3, <2>1, Zenon
  <2> QED
    BY <2>1, <2>2, <2>3, RoundFacts, Zenon
<1> HIDE DEF S, L
<1>4. \A n \in 0..L : n \in S
  BY <1>1, <1>2, <1>3, UpTo, Zenon
<1> QED
  BY <1>4, Zenon DEF S, L

\* No round lowers the peak.
LEMMA ChargedGrows ==
  ASSUME NEW p \in PodSpec, NEW m \in 0..Len(p.init)
  PROVE  Charged(p)[m].peak <= Charged(p)[Len(p.init)].peak
<1> DEFINE L == Len(p.init)
           c == Charged(p)
           S == {n \in 0..L : m <= n => c[m].peak <= c[n].peak}
<1>1. L \in Nat /\ m \in 0..L /\ \A n \in 1..L : p.init[n] \in InitContainer
  BY DEF PodSpec
<1>2. \A n \in 0..L : c[n] \in Totals /\ c[n].peak \in Nat
  BY ChargedTyped, Zenon DEF Totals
<1>3. 0 \in S
  BY <1>1, <1>2
<1>4. ASSUME NEW n \in 0..L, n # L, n \in S PROVE n + 1 \in S
  <2>1. n + 1 \in 1..L /\ (n + 1) - 1 = n /\ n + 1 \in 0..L
    BY <1>1, <1>4
  <2>2. c[n + 1] = ChargeInit(c[n], p.init[n + 1])
    BY <2>1, ChargedRounds, Zenon
  <2>3. c[n].peak <= c[n + 1].peak
    BY <1>1, <1>2, <2>1, <2>2, RoundFacts, Zenon
  <2>4. m <= n + 1 => m <= n \/ m = n + 1
    BY <1>1
  <2>5. /\ m <= n => c[m].peak <= c[n].peak
        /\ c[m].peak \in Nat /\ c[n].peak \in Nat /\ c[n + 1].peak \in Nat
    BY <1>1, <1>2, <1>4, <2>1, Zenon
  <2>6. m <= n + 1 => c[m].peak <= c[n + 1].peak
    <3> HIDE DEF c
    <3> QED
      BY <2>3, <2>4, <2>5
  <2> QED
    BY <2>1, <2>6, Zenon
<1> HIDE DEF S, L, c
<1>5. \A n \in 0..L : n \in S
  BY <1>1, <1>3, <1>4, UpTo, Zenon
<1>6. L \in S /\ m <= L
  BY <1>1, <1>5
<1> QED
  BY <1>6, Zenon DEF S, L, c

-----------------------------------------------------------------------------
(***************************************************************************)
(* The pod.                                                                *)
(***************************************************************************)
\* What the init container started last holds, if it is to end.
Passing ==
  IF started \in up /\ ~spec.init[started].always THEN spec.init[started].req ELSE 0

\* While a pod starts up, it holds what the loop has come to after as many
\* rounds, with the init container that is to end; and has held the loop's
\* peak.
Starting ==
  LET t == Charged(spec)[started] IN
  /\ \A i \in up : i # started => spec.init[i].always
  /\ held = t.sidecars + Passing
  /\ peak = IF started = 0 THEN 0 ELSE t.peak + spec.overhead

PodInv ==
  /\ PodTypeOK
  /\ phase = "Pending" => Starting
  /\ phase = "Running" => peak = PodRequests(spec)
  /\ Terminal => up = {} /\ held = 0

\* The pod's specification and the totals so far.
LEMMA PodFacts ==
  ASSUME PodTypeOK
  PROVE  /\ spec \in PodSpec /\ Len(spec.init) \in Nat
         /\ spec.main \in Nat /\ spec.overhead \in Nat
         /\ started \in 0..Len(spec.init)
         /\ \A n \in 1..Len(spec.init) : spec.init[n] \in InitContainer
         /\ \A n \in 0..Len(spec.init) : Charged(spec)[n] \in Totals
<1>1. spec \in PodSpec /\ started \in 0..Len(spec.init)
  BY PodAssumption, Zenon DEF PodTypeOK
<1> QED
  BY <1>1, ChargedTyped DEF PodSpec

LEMMA StartInitInv == PodInv /\ StartInit => PodInv'
<1> SUFFICES ASSUME PodInv, StartInit PROVE PodInv'
  BY Zenon
<1> DEFINE L == Len(spec.init)
           n == started + 1
           c == spec.init[n]
           t == Charged(spec)[started]
           u == Charged(spec)[n]
<1>1. /\ spec \in PodSpec /\ L \in Nat /\ started \in 0..L /\ started # L
      /\ spec.overhead \in Nat /\ t \in Totals /\ u \in Totals
      /\ n \in 1..L /\ n \in 0..L /\ n - 1 = started /\ n # started /\ n # 0
      /\ c \in InitContainer
  BY PodFacts, SMTT(20) DEF PodInv, StartInit
<1>2. /\ t.peak \in Nat /\ t.sidecars \in Nat /\ c.req \in Nat /\ c.always \in BOOLEAN
      /\ u = ChargeInit(t, c)
  BY <1>1, ChargedRounds, Zenon DEF Totals, InitContainer
<1>3. /\ u.peak = Larger(t.peak, c.req + t.sidecars)
      /\ u.sidecars = t.sidecars + IF c.always THEN c.req ELSE 0
  BY <1>1, <1>2, RoundFacts, ZenonT(30)
<1>4. /\ spec' = spec /\ phase' = "Pending" /\ phase = "Pending" /\ started' = n
      /\ up' = up \cup {n} /\ held' = held + c.req
      /\ peak' = Larger(peak, held' + spec.overhead)
  BY Zenon DEF StartInit, Reserve
<1>5. /\ \A i \in up : spec.init[i].always
      /\ up \subseteq 1..started /\ spec \in PodSpecs /\ peak \in Nat
  BY Zenon DEF StartInit, InitDone, PodInv, PodTypeOK
<1>6. /\ held = t.sidecars
      /\ peak = IF started = 0 THEN 0 ELSE t.peak + spec.overhead
  <2>1. Starting
    BY <1>4, Zenon DEF PodInv
  <2>2. Passing = 0
    BY <1>5, Zenon DEF Passing
  <2> QED
    BY <1>2, <2>1, <2>2 DEF Starting
<1>7. started = 0 => t.peak = 0 /\ t.sidecars = 0
  BY <1>1, ChargedRounds
<1>8. held' = c.req + t.sidecars /\ held' \in Nat
  BY <1>2, <1>4, <1>6
<1>9. peak' = u.peak + spec.overhead /\ peak' \in Nat
  <2> HIDE DEF t, u, c, n, L
  <2> QED
    BY <1>1, <1>2, <1>3, <1>4, <1>6, <1>7, <1>8 DEF Larger
<1>10. held' = u.sidecars + (IF ~c.always THEN c.req ELSE 0)
  <2> HIDE DEF t, u, c, n, L
  <2> QED
    BY <1>1, <1>2, <1>3, <1>8
<1>11. Starting'
  <2>1. Passing' = IF ~c.always THEN c.req ELSE 0
    BY <1>4, Zenon DEF Passing
  <2>2. \A i \in up' : i # started' => spec'.init[i].always
    BY <1>4, <1>5, Zenon
  <2> QED
    BY <1>1, <1>4, <1>9, <1>10, <2>1, <2>2, Zenon DEF Starting
<1>12. PodTypeOK'
  <2>1. up' \subseteq 1..started' /\ started' \in 0..Len(spec'.init)
    BY <1>1, <1>4, <1>5, SMTT(20)
  <2> QED
    BY <1>4, <1>5, <1>8, <1>9, <2>1, Zenon DEF PodTypeOK, Phases
<1> QED
  BY <1>4, <1>11, <1>12, Zenon DEF PodInv, Terminal

LEMMA EndInitInv ==
  ASSUME PodInv, NEW i \in up, EndInit(i) PROVE PodInv'
<1> DEFINE t == Charged(spec)[started]
           c == spec.init[i]
<1>1. /\ spec' = spec /\ phase' = "Pending" /\ phase = "Pending"
      /\ started' = started /\ peak' = peak
      /\ up' = up \ {i} /\ held' = held - c.req /\ ~c.always
  BY Zenon DEF EndInit
<1>2. PodTypeOK /\ Starting
  BY <1>1, Zenon DEF PodInv
<1>3. i = started
  BY <1>1, <1>2, Zenon DEF Starting
<1>4. /\ t \in Totals /\ c \in InitContainer
  BY <1>2, PodFacts DEF PodTypeOK
<1>5. held = t.sidecars + c.req /\ t.sidecars \in Nat /\ c.req \in Nat
  BY <1>1, <1>2, <1>3, <1>4, Zenon DEF Starting, Passing, Totals, InitContainer
<1>6. held' = t.sidecars /\ held' \in Nat /\ t.sidecars = t.sidecars + 0
  <2> HIDE DEF t, c
  <2> QED
    BY <1>1, <1>5
<1>7. Starting'
  <2>1. Passing' = 0
    BY <1>1, <1>3, Zenon DEF Passing
  <2> QED
    BY <1>1, <1>2, <1>6, <2>1, Zenon DEF Starting
<1>8. PodTypeOK'
  BY <1>1, <1>2, <1>6, Zenon DEF PodTypeOK
<1> QED
  BY <1>1, <1>7, <1>8, Zenon DEF PodInv, Terminal

LEMMA StartMainInv == PodInv /\ StartMain => PodInv'
<1> SUFFICES ASSUME PodInv, StartMain PROVE PodInv'
  BY Zenon
<1> DEFINE t == Charged(spec)[started]
<1>1. /\ spec' = spec /\ phase' = "Running" /\ phase = "Pending"
      /\ started' = started /\ started = Len(spec.init) /\ up' = up
      /\ held' = held + spec.main /\ peak' = Larger(peak, held' + spec.overhead)
  BY Zenon DEF StartMain, Reserve
<1>2. PodTypeOK /\ Starting
  BY <1>1, Zenon DEF PodInv
<1>3. /\ spec.main \in Nat /\ spec.overhead \in Nat /\ spec \in PodSpec
      /\ t \in Totals /\ t.peak \in Nat /\ t.sidecars \in Nat
  BY <1>2, PodFacts, Zenon DEF Totals
<1>4. /\ held = t.sidecars
      /\ peak = IF started = 0 THEN 0 ELSE t.peak + spec.overhead
  <2>1. Passing = 0
    BY Zenon DEF StartMain, InitDone, Passing
  <2> QED
    BY <1>2, <1>3, <2>1 DEF Starting
<1>5. started = 0 => t.peak = 0
  BY <1>3, ChargedRounds
<1>6. /\ peak' = Larger(spec.main + t.sidecars, t.peak) + spec.overhead
      /\ peak' \in Nat /\ held' \in Nat
  <2> DEFINE m == spec.main
             o == spec.overhead
             h == t.sidecars
             k == t.peak
  <2>1. held' = m + h /\ peak' = Larger(peak, (m + h) + o)
    BY <1>1, <1>3, <1>4, SMTT(20)
  <2>2. m \in Nat /\ o \in Nat /\ h \in Nat /\ k \in Nat
    BY <1>3, Zenon
  <2>3. peak = IF started = 0 THEN 0 ELSE k + o
    BY <1>4, Zenon
  <2>4. started = 0 => k = 0
    BY <1>5, Zenon
  <2> HIDE DEF m, o, h, k
  <2>5. peak' = Larger(m + h, k) + o /\ peak' \in Nat /\ held' \in Nat
    BY <2>1, <2>2, <2>3, <2>4 DEF Larger
  <2> QED
    BY <2>5, Zenon DEF m, o, h, k
<1>7. peak' = PodRequests(spec')
  BY <1>1, <1>6, Zenon DEF PodRequests
<1>8. PodTypeOK'
  BY <1>1, <1>2, <1>6, Zenon DEF PodTypeOK, Phases
<1> QED
  BY <1>1, <1>7, <1>8, Zenon DEF PodInv, Terminal

\* The others.
LEMMA PodEndInv == PodInv /\ (End \/ Replace \/ UNCHANGED podVars) => PodInv'
<1> SUFFICES ASSUME PodInv, End \/ Replace \/ UNCHANGED podVars PROVE PodInv'
  BY Zenon
<1>1. CASE End
  BY <1>1, Zenon DEF End, PodInv, PodTypeOK, Terminal, Phases
<1>2. CASE Replace
  <2>1. /\ spec' = spec /\ phase' = "Pending" /\ started' = 0 /\ peak' = 0
        /\ up' = {} /\ held' = 0
    BY <1>2, Zenon DEF Replace, PodInv
  <2>2. PodTypeOK'
    BY <2>1, PodFacts DEF PodInv, PodTypeOK, Phases
  <2>3. Charged(spec)[0].sidecars = 0
    BY PodFacts, ChargedRounds DEF PodInv
  <2>4. Starting'
    BY <2>1, <2>3 DEF Starting, Passing
  <2> QED
    BY <2>1, <2>2, <2>4, Zenon DEF PodInv, Terminal
<1>3. CASE UNCHANGED podVars
  BY <1>3, Zenon DEF podVars, PodInv, PodTypeOK, Starting, Passing, Terminal
<1> QED
  BY <1>1, <1>2, <1>3, Zenon

LEMMA PodInvAlways == PodSpecification => []PodInv
<1>1. PodInit => PodInv
  <2> SUFFICES ASSUME PodInit PROVE PodInv
    BY Zenon
  <2>1. PodTypeOK
    BY PodAssumption DEF PodInit, PodTypeOK, Phases, PodSpec
  <2>2. Charged(spec)[0].sidecars = 0
    BY <2>1, PodFacts, ChargedRounds
  <2> QED
    BY <2>1, <2>2 DEF PodInit, PodInv, Starting, Passing, Terminal
<1>2. PodInv /\ [PodNext]_podVars => PodInv'
  BY StartInitInv, EndInitInv, StartMainInv, PodEndInv, Zenon DEF PodNext
<1> QED
  BY <1>1, <1>2, PTL DEF PodSpecification

\* For pods with any init containers, sidecars and requests: while one starts
\* up and runs it is charged at least what it has held at any time, and once
\* it runs, exactly that (podRequests against the order in which the kubelet
\* starts containers; Collect skips pods that have ended).
THEOREM ChargesArePeaks == PodSpecification => []ChargeIsThePeak
<1>1. PodInv => ChargeIsThePeak
  <2> SUFFICES ASSUME PodInv PROVE ChargeIsThePeak
    BY Zenon
  <2> DEFINE t == Charged(spec)[started]
             e == Charged(spec)[Len(spec.init)]
             m == spec.main
             o == spec.overhead
  <2>1. phase \in Phases
    BY Zenon DEF PodInv, PodTypeOK
  <2>2. CASE phase = "Pending"
    <3>1. PodTypeOK /\ Starting
      BY <2>2, Zenon DEF PodInv
    <3>2. /\ m \in Nat /\ o \in Nat /\ t.peak <= e.peak
          /\ t.peak \in Nat /\ e.peak \in Nat /\ e.sidecars \in Nat
      BY <3>1, PodFacts, ChargedGrows DEF Totals
    <3>3. /\ peak = IF started = 0 THEN 0 ELSE t.peak + o
          /\ Committed = Larger(m + e.sidecars, e.peak) + o
      BY <2>2, <3>1, Zenon DEF Starting, Committed, Terminal, PodRequests
    <3>4. peak <= Committed
      <4> HIDE DEF t, e, m, o
      <4> QED
        BY <3>2, <3>3 DEF Larger
    <3> QED
      BY <2>2, <3>4, Zenon DEF ChargeIsThePeak, Terminal
  <2>3. CASE phase = "Running"
    <3>1. peak \in Nat /\ peak = Committed
      BY <2>3, Zenon DEF PodInv, PodTypeOK, Committed, Terminal
    <3> QED
      BY <2>3, <3>1 DEF ChargeIsThePeak, Terminal
  <2>4. CASE Terminal
    BY <2>4, Zenon DEF ChargeIsThePeak, Committed, Terminal
  <2> QED
    BY <2>1, <2>2, <2>3, <2>4, Zenon DEF Phases, Terminal
<1> QED
  BY PodInvAlways, <1>1, PTL

-----------------------------------------------------------------------------
(***************************************************************************)
(* How a deleted cell leaves the fleet.                                    *)
(***************************************************************************)
\* A replica sees a cell deleted only once it is, and none comes back.
FleetInv ==
  /\ FleetTypeOK
  /\ \A r \in Replicas, c \in Cells : cache[r][c] = "absent" => cluster[c] = "absent"

\* Entries only get older, up to the last age that is told apart.
LEMMA OlderTyped ==
  ASSUME NEW a \in Ages \cup {Nil} PROVE Older(a) \in Ages \cup {Nil}
BY FleetAssumption DEF Older, Ages

LEMMA MessageTyped ==
  ASSUME NEW m \in Message
  PROVE  /\ [m EXCEPT !.authorized = TRUE] \in Message
         /\ [m EXCEPT !.authorized = TRUE].cell = m.cell
         /\ [m EXCEPT !.authorized = TRUE].to = m.to
         /\ RelaysOf(m) \subseteq Message
         /\ \A n \in RelaysOf(m) : n.cell = m.cell /\ ~n.authorized
<1>1. /\ [m EXCEPT !.authorized = TRUE] \in Message
      /\ [m EXCEPT !.authorized = TRUE].cell = m.cell
      /\ [m EXCEPT !.authorized = TRUE].to = m.to
  BY Zenon DEF Message
<1>2. ASSUME NEW n \in RelaysOf(m)
      PROVE  n \in Message /\ n.cell = m.cell /\ ~n.authorized
  <2>1. PICK r \in Replicas : n = [to |-> r, cell |-> m.cell, relayed |-> TRUE,
                                   authorized |-> FALSE]
    BY Zenon DEF RelaysOf
  <2>2. m.cell \in Cells
    BY Zenon DEF Message
  <2> QED
    BY <2>1, <2>2, Zenon DEF Message
<1> QED
  BY <1>1, <1>2, Zenon

LEMMA MishapTyped == FleetTypeOK /\ Mishap => mishaps' \in 0..MaxMishaps
BY FleetAssumption DEF FleetTypeOK, Mishap

LEMMA FleetInitInv == FleetInit => FleetInv
<1> SUFFICES ASSUME FleetInit PROVE FleetInv
  BY Zenon
<1>1. leader \in Replicas
  BY FleetAssumption, Zenon DEF FleetInit
<1>2. 0 \in 0..MaxMishaps /\ 0 \in 0..WarmupTimeout
  BY FleetAssumption
<1> QED
  BY <1>1, <1>2, Zenon DEF FleetInit, FleetInv, FleetTypeOK, States

LEMMA AgentTypes ==
  ASSUME FleetTypeOK,
         \E c \in Cells : Heartbeat(c) \/ AgentStops(c)
  PROVE  FleetTypeOK'
<1>1. ASSUME NEW c \in Cells, Heartbeat(c) PROVE FleetTypeOK'
  <2>1. PICK r \in Reachable(c) :
          /\ conn' = [conn EXCEPT ![c] = r]
          /\ net' = net \cup {[to |-> r, cell |-> c, relayed |-> FALSE,
                               authorized |-> FALSE]}
    BY <1>1, Zenon DEF Heartbeat
  <2>2. r \in Replicas
    BY <2>1, ZenonT(30) DEF Reachable, FleetTypeOK
  <2>3. [to |-> r, cell |-> c, relayed |-> FALSE, authorized |-> FALSE] \in Message
    BY <2>2, Zenon DEF Message
  <2> QED
    BY <1>1, <2>1, <2>2, <2>3, Zenon DEF Heartbeat, operator, FleetTypeOK
<1>2. ASSUME NEW c \in Cells, AgentStops(c) PROVE FleetTypeOK'
  BY <1>2, MishapTyped, Zenon DEF AgentStops, FleetTypeOK
<1> QED
  BY <1>1, <1>2, Zenon

LEMMA ReportTypes ==
  ASSUME FleetTypeOK,
         \E m \in net : Authorize(m) \/ Store(m) \/ LoseRelay(m)
  PROVE  FleetTypeOK'
<1>1. net \subseteq Message
  BY Zenon DEF FleetTypeOK
<1>2. ASSUME NEW m \in net, Authorize(m) PROVE FleetTypeOK'
  <2>1. net' \subseteq Message
    BY <1>1, <1>2, MessageTyped, Zenon DEF Authorize
  <2> QED
    BY <1>2, <2>1, Zenon DEF Authorize, operator, FleetTypeOK
<1>3. ASSUME NEW m \in net, Store(m) PROVE FleetTypeOK'
  <2>1. net' \subseteq Message
    BY <1>1, <1>3, MessageTyped, Zenon DEF Store
  <2>2. m.to \in Replicas /\ m.cell \in Cells /\ 0 \in Ages
    BY <1>1, FleetAssumption DEF Message, Ages
  <2>3. index' \in [Replicas -> [Cells -> Ages \cup {Nil}]]
    BY <1>3, <2>2, Zenon DEF Store, FleetTypeOK
  <2> QED
    BY <1>3, <2>1, <2>3, Zenon DEF Store, operator, FleetTypeOK
<1>4. ASSUME NEW m \in net, LoseRelay(m) PROVE FleetTypeOK'
  BY <1>4, MishapTyped, Zenon DEF LoseRelay, operator, FleetTypeOK
<1> QED
  BY <1>2, <1>3, <1>4, Zenon

LEMMA ReplicaTypes ==
  ASSUME FleetTypeOK, NEW r \in Replicas,
         Warm(r) \/ Deadline(r) \/ Restart(r) \/ Sync(r) \/ Prune(r)
  PROVE  FleetTypeOK'
<1>1. CASE Warm(r)
  BY <1>1, Zenon DEF Warm, operator, FleetTypeOK
<1>2. CASE Deadline(r)
  BY <1>2, Zenon DEF Deadline, operator, FleetTypeOK
<1>3. CASE Restart(r)
  <2>1. 0 \in 0..WarmupTimeout
    BY FleetAssumption
  <2>2. /\ index' \in [Replicas -> [Cells -> Ages \cup {Nil}]]
        /\ uptime' \in [Replicas -> 0..WarmupTimeout]
        /\ ready' \in [Replicas -> BOOLEAN] /\ warm' \in [Replicas -> BOOLEAN]
        /\ cache' \in [Replicas -> [Cells -> States]]
    BY <1>3, <2>1, Zenon DEF Restart, FleetTypeOK
  <2>3. conn' \in [Cells -> Replicas \cup {Nil}] /\ net' \subseteq Message
    BY <1>3, Zenon DEF Restart, FleetTypeOK
  <2>4. leader' \in Replicas /\ todo' \subseteq Cells
    BY <1>3, Zenon DEF Restart, FleetTypeOK
  <2> QED
    BY <1>3, <2>2, <2>3, <2>4, MishapTyped, Zenon DEF Restart, operator,
       FleetTypeOK
<1>4. CASE Sync(r)
  <2>1. /\ cache' \in [Replicas -> [Cells -> States]]
        /\ todo' \subseteq Cells
    BY <1>4, Zenon DEF Sync, FleetTypeOK
  <2> QED
    BY <1>4, <2>1, Zenon DEF Sync, operator, FleetTypeOK
<1>5. CASE Prune(r)
  <2>1. index' \in [Replicas -> [Cells -> Ages \cup {Nil}]]
    BY <1>5, ZenonT(30) DEF Prune, FleetTypeOK
  <2> QED
    BY <1>5, <2>1, Zenon DEF Prune, operator, FleetTypeOK
<1> QED
  BY <1>1, <1>2, <1>3, <1>4, <1>5, Zenon

LEMMA ClusterTypes ==
  ASSUME FleetTypeOK, NEW c \in Cells,
         (\E s \in {"draining", "absent"} : EditCluster(c, s)) \/ Reconcile(c)
  PROVE  FleetTypeOK'
<1>1. ASSUME NEW s \in {"draining", "absent"}, EditCluster(c, s) PROVE FleetTypeOK'
  <2>1. cluster' \in [Cells -> States]
    BY <1>1, Zenon DEF EditCluster, States, FleetTypeOK
  <2> QED
    BY <1>1, <2>1, MishapTyped, Zenon DEF EditCluster, FleetTypeOK
<1>2. CASE Reconcile(c)
  <2>1. index' \in [Replicas -> [Cells -> Ages \cup {Nil}]]
    BY <1>2, Zenon DEF Reconcile, FleetTypeOK
  <2> QED
    BY <1>2, <2>1, Zenon DEF Reconcile, operator, FleetTypeOK
<1> QED
  BY <1>1, <1>2, Zenon

LEMMA BeatTypes == ASSUME FleetTypeOK, Beat PROVE FleetTypeOK'
<1>1. index' \in [Replicas -> [Cells -> Ages \cup {Nil}]]
  <2>1. \A r \in Replicas, c \in Cells : Older(index[r][c]) \in Ages \cup {Nil}
    BY OlderTyped, Zenon DEF FleetTypeOK
  <2> QED
    BY <2>1, Zenon DEF Beat
<1>2. uptime' \in [Replicas -> 0..WarmupTimeout]
  BY FleetAssumption, SMTT(20) DEF Beat, FleetTypeOK
<1> QED
  BY <1>1, <1>2, Zenon DEF Beat, operator, FleetTypeOK

LEMMA FleetNextInv == FleetInv /\ [FleetNext]_fleetVars => FleetInv'
<1> SUFFICES ASSUME FleetInv, [FleetNext]_fleetVars PROVE FleetInv'
  BY Zenon
<1>1. FleetTypeOK'
  <2>1. CASE UNCHANGED fleetVars
    BY <2>1, Zenon DEF fleetVars, operator, FleetInv, FleetTypeOK
  <2> QED
    BY <2>1, AgentTypes, ReportTypes, ReplicaTypes, ClusterTypes, BeatTypes, Zenon
    DEF FleetNext, FleetInv
<1>2. FleetTypeOK
  BY Zenon DEF FleetInv
<1>3. ASSUME NEW r \in Replicas, NEW c \in Cells, cache'[r][c] = "absent"
      PROVE  cluster'[c] = "absent"
  <2>1. cache'[r][c] = cache[r][c] \/ cache'[r] = cluster
    BY <1>2, Zenon
    DEF FleetNext, fleetVars, FleetTypeOK, Heartbeat, Authorize, Store, LoseRelay, Warm, Deadline,
        Restart, EditCluster, Sync, Reconcile, Prune, AgentStops, Beat
  <2>2. cluster[c] = "absent" => cluster'[c] = "absent"
    BY <1>2, Zenon
    DEF FleetNext, fleetVars, operator, FleetTypeOK, Heartbeat, Authorize, Store, LoseRelay,
        Warm, Deadline, Restart, EditCluster, Sync, Reconcile, Prune, AgentStops, Beat
  <2> QED
    BY <1>3, <2>1, <2>2, Zenon DEF FleetInv
<1> QED
  BY <1>1, <1>3, Zenon DEF FleetInv

LEMMA FleetInvAlways == FleetSpec => []FleetInv
BY FleetInitInv, FleetNextInv, PTL DEF FleetSpec

\* Once every replica has seen a cell deleted, and the handlers that had
\* looked before are done, no entry of it is renewed, for any fleet and any
\* number of restarts, lost relays and edits: every way into the index is
\* past the check of the cache, relayed reports included, and no cache ever
\* shows the cell again.
THEOREM DeletedCellsStayOut == FleetSpec => DeletedStaysOut
<1> DEFINE Out == \A c \in Cells : Refused(c) =>
             /\ Refused(c)'
             /\ \A r \in Replicas :
                  index'[r][c] \in {Nil, index[r][c], Older(index[r][c])}
<1>1. FleetInv /\ [FleetNext]_fleetVars => [Out]_fleetVars
  <2> SUFFICES ASSUME FleetInv, FleetNext, NEW c \in Cells, Refused(c)
               PROVE  /\ Refused(c)'
                      /\ \A r \in Replicas :
                           index'[r][c] \in {Nil, index[r][c], Older(index[r][c])}
    BY Zenon
  <2>1. /\ FleetTypeOK /\ net \subseteq Message
        /\ index \in [Replicas -> [Cells -> Ages \cup {Nil}]]
        /\ cache \in [Replicas -> [Cells -> States]]
        /\ \A r \in Replicas : cache[r][c] = "absent"
        /\ \A m \in net : m.cell = c => ~m.authorized
    BY Zenon DEF FleetInv, FleetTypeOK, Refused
  <2>2. ASSUME NEW r \in Replicas PROVE cache'[r][c] = "absent"
    <3>1. cache'[r][c] = cache[r][c] \/ cache'[r] = cluster
      BY <2>1, Zenon
      DEF FleetNext, Heartbeat, Authorize, Store, LoseRelay, Warm, Deadline, Restart,
          EditCluster, Sync, Reconcile, Prune, AgentStops, Beat
    <3>2. cluster[c] = "absent"
      BY <2>1, Zenon DEF FleetInv
    <3> QED
      BY <2>1, <3>1, <3>2, Zenon
  <2>3. ASSUME NEW m \in net', m.cell = c PROVE ~m.authorized
    <3>1. CASE m \in net
      BY <2>1, <2>3, <3>1, Zenon
    <3>2. CASE m \notin net
      <4>1. \/ \E d \in Cells : Heartbeat(d)
            \/ \E n \in net : Authorize(n)
            \/ \E n \in net : Store(n)
        BY <2>3, <3>2, Zenon
        DEF FleetNext, LoseRelay, Warm, Deadline, Restart, EditCluster, Sync, Reconcile,
            Prune, AgentStops, Beat
      <4>2. ASSUME NEW d \in Cells, Heartbeat(d) PROVE ~m.authorized
        BY <2>3, <3>2, <4>2 DEF Heartbeat
      <4>3. ASSUME NEW n \in net, Authorize(n) PROVE FALSE
        <5>1. n \in Message /\ n.to \in Replicas
          BY <2>1, Zenon DEF Message
        <5>2. cache[n.to][n.cell] # "absent" /\ m = [n EXCEPT !.authorized = TRUE]
          BY <2>3, <3>2, <4>3, Zenon DEF Authorize
        <5>3. n.cell = c
          BY <2>3, <5>1, <5>2, MessageTyped, Zenon
        <5> QED
          BY <2>1, <5>1, <5>2, <5>3, Zenon
      <4>4. ASSUME NEW n \in net, Store(n) PROVE ~m.authorized
        <5>1. m \in RelaysOf(n)
          BY <2>3, <3>2, <4>4, Zenon DEF Store
        <5> QED
          BY <2>1, <5>1, MessageTyped, Zenon
      <4> QED
        BY <4>1, <4>2, <4>3, <4>4, Zenon
    <3> QED
      BY <3>1, <3>2, Zenon
  <2>4. ASSUME NEW r \in Replicas
        PROVE  index'[r][c] \in {Nil, index[r][c], Older(index[r][c])}
    <3>1. CASE UNCHANGED index
      BY <3>1, Zenon
    <3>2. ASSUME NEW m \in net, Store(m) PROVE index'[r][c] = index[r][c]
      <4>1. m.cell # c /\ m.to \in Replicas /\ m.cell \in Cells
        BY <2>1, <3>2, Zenon DEF Store, Message
      <4> QED
        BY <2>1, <3>2, <4>1, Zenon DEF Store
    <3>3. ASSUME NEW q \in Replicas, Restart(q) PROVE index'[r][c] \in {Nil, index[r][c]}
      BY <2>1, <3>3, Zenon DEF Restart
    <3>4. ASSUME NEW d \in Cells, Reconcile(d) PROVE index'[r][c] \in {Nil, index[r][c]}
      BY <2>1, <3>4, Zenon DEF Reconcile
    <3>5. ASSUME NEW q \in Replicas, Prune(q) PROVE index'[r][c] \in {Nil, index[r][c]}
      BY <2>1, <3>5, Zenon DEF Prune
    <3>6. CASE Beat
      BY <2>1, <3>6, Zenon DEF Beat
    <3> QED
      BY <3>1, <3>2, <3>3, <3>4, <3>5, <3>6, Zenon
      DEF FleetNext, Heartbeat, Authorize, LoseRelay, Warm, Deadline, EditCluster, Sync,
          AgentStops
  <2> QED
    BY <2>2, <2>3, <2>4, Zenon DEF Refused
<1> QED
  BY <1>1, FleetInvAlways, PTL DEF FleetSpec, DeletedStaysOut
=============================================================================
