---------------------------- MODULE CallerProofs ----------------------------
(***************************************************************************)
(* Both ends of a call.  ClientPlacement, for any number of jobs sharing a *)
(* cache, any cells and options, and any cache lifetime; and IssuerKeys,   *)
(* for any issuers, requests and tokens, any skew and any number of moves. *)
(***************************************************************************)
EXTENDS ClientPlacement, IssuerKeys, TLAPS

-----------------------------------------------------------------------------
(***************************************************************************)
(* What a run of the client answers and leaves behind.                     *)
(***************************************************************************)
\* A decision for the key it is filed under, as old as the hub's answer.
Honest(d, k) == d # None => d.for = k /\ d.since = d.age

\* A run is under way only while its answer is still open, and holds a
\* decision of its own once the hub has given one.
Consistent ==
  \A j \in Jobs : run[j] # None =>
    /\ result[j] = None
    /\ run[j].pc # "asked" => run[j].decision # None
    /\ Honest(run[j].decision, Key(run[j].opts))

Filed == \A k \in Keys : Honest(cache[k], k)

\* The inductive invariant.  The three properties speak of the results of
\* finished runs; what makes them hold is that no later step touches a
\* finished job's files, and that no file dates a decision anew.
IInv ==
  /\ TypeOK /\ Consistent /\ Filed
  /\ KubeconfigIsThisRuns /\ StanceAnswersOnlyOutages /\ CachedAnswerIsRecent

-----------------------------------------------------------------------------
\* An entry that load accepts is younger than the cache lifetime and half a
\* second: age rounds to the nearest second before it compares.
LEMMA RoundingBound ==
  ASSUME NEW age \in Ages, Rounded(age) <= CacheTTL
  PROVE  2 * age < 2 * CacheTTL + Second
<1>1. age \in Nat /\ CacheTTL \in Nat /\ Second \in Nat /\ Second > 0
  BY ClockAssumption DEF Ages, MaxAge
<1> DEFINE half == Second \div 2
           n == age + half
           q == n \div Second
<1>2. half \in Nat /\ 2 * half >= Second - 1
  BY <1>1
<1>3. n \in Nat
  BY <1>1, <1>2
<1> HIDE DEF half
<1>4. q \in Int /\ n < Second * q + Second
  <2> HIDE DEF n
  <2> QED
    BY <1>1, <1>3
<1>5. Second * q <= CacheTTL
  BY Zenon DEF Rounded, half
<1>6. Second * q \in Int
  BY <1>1, <1>4
<1> QED
  BY <1>1, <1>2, <1>4, <1>5, <1>6

\* The clock ages both dates of a decision alike.
LEMMA AgesTogether ==
  ASSUME NEW d \in Decision \cup {None}, NEW k, Honest(d, k)
  PROVE  /\ OlderDecision(d) \in Decision \cup {None}
         /\ Honest(OlderDecision(d), k)
         /\ d # None => OlderDecision(d) # None
<1>1. CASE d = None
  BY <1>1, Zenon DEF OlderDecision, Honest
<1>2. CASE d # None
  <2> DEFINE e == [d EXCEPT !.age = Older(@), !.since = Older(@)]
  <2>1. d \in Decision /\ OlderDecision(d) = e
    BY <1>2, Zenon DEF OlderDecision
  <2>2. Older(d.age) \in Ages /\ Older(d.since) \in Ages
    BY <2>1, ClockAssumption DEF Older, Ages, MaxAge, Decision
  <2>3. /\ e \in Decision /\ e.for = d.for
        /\ e.since = Older(d.since) /\ e.age = Older(d.age)
    BY <2>1, <2>2, Zenon DEF Decision
  <2> HIDE DEF e
  <2> QED
    BY <1>2, <2>1, <2>3, NoneAssumption, Zenon DEF Honest
<1> QED
  BY <1>1, <1>2, Zenon

LEMMA InitIInv == Init => IInv
BY Zenon DEF Init, IInv, TypeOK, Consistent, Filed, Honest,
   KubeconfigIsThisRuns, StanceAnswersOnlyOutages, CachedAnswerIsRecent

-----------------------------------------------------------------------------
(***************************************************************************)
(* Steps of a run.  A step of job j leaves the other jobs alone, so its    *)
(* effect on the invariant is its effect on j and on the cache.            *)
(***************************************************************************)
\* What a step may do to the job that takes it.
Own(j) ==
  /\ run[j] # None =>
       /\ result[j] = None
       /\ run[j].pc # "asked" => run[j].decision # None
       /\ Honest(run[j].decision, Key(run[j].opts))
  /\ result[j] # None =>
       /\ ~result[j].dry =>
            kubeconfig[j] = IF result[j].source = "hub"
                            THEN result[j].cell ELSE None
       /\ ~result[j].overruled /\ ~result[j].outlived

LEMMA PerJob ==
  IInv <=> TypeOK /\ Filed /\ \A j \in Jobs : Own(j)
BY Zenon DEF IInv, Own, Consistent, KubeconfigIsThisRuns,
   StanceAnswersOnlyOutages, CachedAnswerIsRecent

LEMMA OthersKept ==
  ASSUME IInv, TypeOK', Filed', NEW j \in Jobs, Own(j)',
         \A i \in Jobs \ {j} : /\ run'[i] = run[i] /\ result'[i] = result[i]
                               /\ kubeconfig'[i] = kubeconfig[i]
  PROVE  IInv'
<1>1. \A i \in Jobs : Own(i)'
  <2> SUFFICES ASSUME NEW i \in Jobs, i # j PROVE Own(i)'
    BY Zenon
  <2>1. Own(i)
    BY PerJob, Zenon
  <2>2. /\ run'[i] = run[i] /\ result'[i] = result[i]
        /\ kubeconfig'[i] = kubeconfig[i]
    BY Zenon
  <2> QED
    BY <2>1, <2>2, Zenon DEF Own
<1> QED
  BY <1>1, Zenon DEF IInv, Own, Consistent, KubeconfigIsThisRuns,
     StanceAnswersOnlyOutages, CachedAnswerIsRecent

\* Fail and Kill leave a job with no run and no answer.
LEMMA FailStep ==
  ASSUME IInv, NEW j \in Jobs, run[j] # None, Fail(j), UNCHANGED cache,
         kubeconfig' \in [Jobs -> Cells \cup {None, Partial}],
         \A i \in Jobs \ {j} : kubeconfig'[i] = kubeconfig[i]
  PROVE  IInv'
<1>1. TypeOK' /\ Filed'
  BY Zenon DEF Fail, IInv, TypeOK, Filed
<1>2. run'[j] = None /\ result'[j] = None
  BY Zenon DEF Fail, IInv, TypeOK, Consistent
<1>3. Own(j)'
  BY <1>2, Zenon DEF Own
<1>4. \A i \in Jobs \ {j} : run'[i] = run[i] /\ result'[i] = result[i]
  BY Zenon DEF Fail, IInv, TypeOK
<1> QED
  BY <1>1, <1>3, <1>4, OthersKept, Zenon

\* Succeed leaves the answer; the caller says what it did to the files.
LEMMA SucceedStep ==
  ASSUME IInv, NEW j \in Jobs, run[j] # None, TypeOK', Filed',
         NEW source \in {"hub", "cache", "pinned"}, NEW cell \in Cells,
         NEW cause, NEW d, Succeed(j, source, cell, cause, d),
         cause \notin (Causes \ Optimisation) \ Outages,
         d # None => /\ d.for = Key(run[j].opts)
                     /\ ~(2 * d.since >= 2 * CacheTTL + Second),
         \A i \in Jobs \ {j} : kubeconfig'[i] = kubeconfig[i],
         ~run[j].opts.dry =>
           kubeconfig'[j] = IF source = "hub" THEN cell ELSE None
  PROVE  IInv'
<1>1. run'[j] = None
  BY Zenon DEF Succeed, IInv, TypeOK
<1>2. /\ result'[j].dry = run[j].opts.dry /\ result'[j].source = source
      /\ result'[j].cell = cell
      /\ result'[j].overruled = (cause \in (Causes \ Optimisation) \ Outages)
      /\ result'[j].outlived = (d # None
          /\ (\/ d.for # Key(run[j].opts)
              \/ 2 * d.since >= 2 * CacheTTL + Second))
  BY Zenon DEF Succeed, IInv, TypeOK
<1>3. Own(j)'
  BY <1>1, <1>2, Zenon DEF Own
<1>4. \A i \in Jobs \ {j} : run'[i] = run[i] /\ result'[i] = result[i]
  BY Zenon DEF Succeed, IInv, TypeOK
<1> QED
  BY <1>3, <1>4, OthersKept, Zenon

\* The type of what Succeed leaves.
LEMMA SucceedTypes ==
  ASSUME IInv, NEW j \in Jobs, run[j] # None,
         NEW source \in {"hub", "cache", "pinned"}, NEW cell \in Cells,
         NEW cause, NEW d, Succeed(j, source, cell, cause, d),
         cache' \in [Keys -> Decision \cup {None}],
         kubeconfig' \in [Jobs -> Cells \cup {None, Partial}]
  PROVE  TypeOK'
<1>1. run[j].opts \in Options
  BY Zenon DEF IInv, TypeOK, Running
<1>2. run[j].opts.dry \in BOOLEAN
  BY <1>1, OptionsAssumption, Zenon
<1>3. run' \in [Jobs -> Running \cup {None}]
  BY Zenon DEF Succeed, IInv, TypeOK
<1>4. result' \in [Jobs -> Result \cup {None}]
  BY <1>2 DEF Succeed, IInv, TypeOK, Result
<1> QED
  BY <1>3, <1>4, Zenon DEF TypeOK

LEMMA StartStep ==
  ASSUME IInv, NEW j \in Jobs, NEW o \in Options, Start(j, o)
  PROVE  IInv'
<1> DEFINE q == [pc |-> "asked", opts |-> o, decision |-> None]
<1>1. q \in Running /\ q.pc = "asked" /\ q.decision = None
  BY Zenon DEF Running
<1>2. run' = [run EXCEPT ![j] = q]
  BY Zenon DEF Start
<1> HIDE DEF q
<1>3. TypeOK' /\ Filed'
  BY <1>1, <1>2, Zenon DEF Start, IInv, TypeOK, Filed
<1>4. run'[j] = q /\ result'[j] = None
  BY <1>2, Zenon DEF Start, IInv, TypeOK
<1>5. Own(j)'
  BY <1>1, <1>4, Zenon DEF Own, Honest
<1>6. \A i \in Jobs \ {j} : /\ run'[i] = run[i] /\ result'[i] = result[i]
                            /\ kubeconfig'[i] = kubeconfig[i]
  BY <1>2, Zenon DEF Start, IInv, TypeOK
<1> QED
  BY <1>3, <1>5, <1>6, OthersKept, Zenon

LEMMA ReceiveStep ==
  ASSUME IInv, NEW j \in Jobs, NEW cell \in Cells, Receive(j, cell)
  PROVE  IInv'
<1> DEFINE d == [cell |-> cell, age |-> 0, for |-> Key(run[j].opts), since |-> 0]
           r == [run[j] EXCEPT !.pc = "save", !.decision = d]
<1>1. run[j] # None /\ run[j] \in Running
  BY Zenon DEF Receive, Dated, At, IInv, TypeOK
<1>2. run[j].opts \in Options /\ Key(run[j].opts) \in Keys /\ 0 \in Ages
  BY <1>1, ClockAssumption DEF Running, Keys, Ages, MaxAge
<1>3. d \in Decision /\ d.for = Key(run[j].opts) /\ d.since = d.age
  BY <1>2, Zenon DEF Decision
<1> HIDE DEF d
<1>4. r \in Running /\ r.opts = run[j].opts /\ r.decision = d
  BY <1>1, <1>3, Zenon DEF Running
<1>5. run' = [run EXCEPT ![j] = r]
  BY Zenon DEF Receive, Dated, d
<1> HIDE DEF r
<1>6. TypeOK' /\ Filed'
  BY <1>4, <1>5, ZenonT(30) DEF Receive, Dated, IInv, TypeOK, Filed
<1>7. run'[j] = r /\ result'[j] = None
  BY <1>1, <1>5, Zenon DEF Receive, Dated, IInv, TypeOK, Consistent
<1>8. d # None
  BY <1>3, NoneAssumption, Zenon
<1>9. Own(j)'
  BY <1>3, <1>4, <1>7, <1>8, Zenon DEF Own, Honest
<1>10. \A i \in Jobs \ {j} : /\ run'[i] = run[i] /\ result'[i] = result[i]
                             /\ kubeconfig'[i] = kubeconfig[i]
  BY <1>5, Zenon DEF Receive, Dated, IInv, TypeOK
<1> QED
  BY <1>6, <1>9, <1>10, OthersKept, Zenon

\* Going on keeps the decision.
LEMMA GotoStep ==
  ASSUME IInv, NEW j \in Jobs, run[j] # None, run[j].pc # "asked",
         NEW pc \in {"write", "create"}, Goto(j, pc), Filed',
         cache' \in [Keys -> Decision \cup {None}],
         kubeconfig' \in [Jobs -> Cells \cup {None, Partial}],
         \A i \in Jobs \ {j} : kubeconfig'[i] = kubeconfig[i]
  PROVE  IInv'
<1> DEFINE r == [run[j] EXCEPT !.pc = pc]
<1>1. run[j] \in Running
  BY Zenon DEF IInv, TypeOK
<1>2. /\ r \in Running /\ r.opts = run[j].opts
      /\ r.decision = run[j].decision
  BY <1>1, Zenon DEF Running
<1>3. run' = [run EXCEPT ![j] = r]
  BY Zenon DEF Goto
<1> HIDE DEF r
<1>4. TypeOK'
  BY <1>2, <1>3, ZenonT(30) DEF Goto, IInv, TypeOK
<1>5. run'[j] = r /\ result'[j] = None
  BY <1>3, Zenon DEF Goto, IInv, TypeOK, Consistent
<1>6. Own(j)'
  BY <1>2, <1>5, Zenon DEF Own, IInv, Consistent
<1>7. \A i \in Jobs \ {j} : run'[i] = run[i] /\ result'[i] = result[i]
  BY <1>3, Zenon DEF Goto, IInv, TypeOK
<1> QED
  BY <1>4, <1>6, <1>7, OthersKept, Zenon

\* The decision a run holds after the hub has answered.
LEMMA HeldDecision ==
  ASSUME IInv, NEW j \in Jobs, run[j] # None, run[j].pc # "asked"
  PROVE  /\ run[j].opts \in Options /\ Key(run[j].opts) \in Keys
         /\ run[j].decision \in Decision /\ run[j].decision.cell \in Cells
         /\ Honest(run[j].decision, Key(run[j].opts))
<1>1. run[j] \in Running
  BY Zenon DEF IInv, TypeOK
<1>2. run[j].decision # None /\ Honest(run[j].decision, Key(run[j].opts))
  BY Zenon DEF IInv, Consistent
<1> QED
  BY <1>1, <1>2, Zenon DEF Running, Keys, Decision

LEMMA RememberStep ==
  ASSUME IInv, NEW j \in Jobs, Remember(j) PROVE IInv'
<1>1. run[j] # None /\ run[j].pc = "save"
  BY Zenon DEF Remember, At
<1>2. /\ Key(run[j].opts) \in Keys /\ run[j].decision \in Decision
      /\ run[j].decision.cell \in Cells
      /\ Honest(run[j].decision, Key(run[j].opts))
  BY <1>1, HeldDecision, Zenon
<1>3. /\ cache' \in [Keys -> Decision \cup {None}] /\ Filed'
      /\ UNCHANGED kubeconfig
  BY <1>2, Zenon DEF Remember, IInv, TypeOK, Filed
<1>4. kubeconfig' \in [Jobs -> Cells \cup {None, Partial}]
  BY <1>3, Zenon DEF IInv, TypeOK
<1>5. CASE run[j].opts.dry
  <2>1. Succeed(j, "hub", run[j].decision.cell, None, None)
    BY <1>5, Zenon DEF Remember
  <2>2. TypeOK'
    BY <1>1, <1>2, <1>3, <1>4, <2>1, SucceedTypes, Zenon
  <2> QED
    BY <1>1, <1>2, <1>3, <1>5, <2>1, <2>2, SucceedStep, NoneAssumption, Zenon
<1>6. CASE ~run[j].opts.dry
  <2>1. Goto(j, "write")
    BY <1>6, Zenon DEF Remember
  <2> QED
    BY <1>1, <1>3, <1>4, <2>1, GotoStep, Zenon
<1> QED
  BY <1>5, <1>6, Zenon

LEMMA ReplaceStep ==
  ASSUME IInv, NEW j \in Jobs, ReplaceKubeconfig(j) PROVE IInv'
<1>1. /\ run[j] # None /\ run[j].pc = "write" /\ UNCHANGED cache
      /\ cache' \in [Keys -> Decision \cup {None}] /\ Filed'
  BY Zenon DEF ReplaceKubeconfig, At, IInv, TypeOK, Filed
<1>2. CASE Fail(j) /\ UNCHANGED kubeconfig
  BY <1>1, <1>2, FailStep, Zenon DEF IInv, TypeOK
<1>3. CASE RemoveKubeconfig(j) /\ Goto(j, "create")
  <2>1. /\ kubeconfig' \in [Jobs -> Cells \cup {None, Partial}]
        /\ \A i \in Jobs \ {j} : kubeconfig'[i] = kubeconfig[i]
    BY <1>3, Zenon DEF RemoveKubeconfig, IInv, TypeOK
  <2> QED
    BY <1>1, <1>3, <2>1, GotoStep, Zenon
<1> QED
  BY <1>2, <1>3, Zenon DEF ReplaceKubeconfig

LEMMA CreateStep ==
  ASSUME IInv, NEW j \in Jobs, CreateKubeconfig(j) PROVE IInv'
<1> DEFINE cell == run[j].decision.cell
<1>1. /\ run[j] # None /\ run[j].pc = "create" /\ UNCHANGED cache
      /\ cache' \in [Keys -> Decision \cup {None}] /\ Filed'
  BY Zenon DEF CreateKubeconfig, At, IInv, TypeOK, Filed
<1>2. cell \in Cells
  BY <1>1, HeldDecision, Zenon
<1>3. CASE kubeconfig' = [kubeconfig EXCEPT ![j] = cell]
           /\ Succeed(j, "hub", cell, None, None)
  <2>1. /\ kubeconfig' \in [Jobs -> Cells \cup {None, Partial}]
        /\ kubeconfig'[j] = cell
        /\ \A i \in Jobs \ {j} : kubeconfig'[i] = kubeconfig[i]
    BY <1>2, <1>3, Zenon DEF IInv, TypeOK
  <2> HIDE DEF cell
  <2>2. TypeOK'
    BY <1>1, <1>2, <1>3, <2>1, SucceedTypes, Zenon
  <2> QED
    BY <1>1, <1>2, <1>3, <2>1, <2>2, SucceedStep, NoneAssumption, Zenon
<1>4. CASE Fail(j) /\ \/ kubeconfig' = [kubeconfig EXCEPT ![j] = Partial]
                      \/ UNCHANGED kubeconfig
  <2>1. /\ kubeconfig' \in [Jobs -> Cells \cup {None, Partial}]
        /\ \A i \in Jobs \ {j} : kubeconfig'[i] = kubeconfig[i]
    BY <1>4, Zenon DEF IInv, TypeOK
  <2> QED
    BY <1>1, <1>4, <2>1, FailStep, Zenon
<1> QED
  BY <1>3, <1>4, Zenon DEF CreateKubeconfig

\* A stance answers only a failure it may, with a decision of the hub's for
\* the same request that load still accepts, or with the pinned cell.
LEMMA FallbackStep ==
  ASSUME IInv, NEW j \in Jobs, NEW cause \in Causes, Fallback(j, cause)
  PROVE  IInv'
<1> DEFINE o == run[j].opts
<1>1. /\ run[j] # None /\ UNCHANGED cache
      /\ cache' \in [Keys -> Decision \cup {None}] /\ Filed'
  BY Zenon DEF Fallback, At, IInv, TypeOK, Filed
<1>2. o \in Options /\ Key(o) \in Keys
  BY <1>1, Zenon DEF IInv, TypeOK, Running, Keys
<1>3. CASE Fail(j) /\ UNCHANGED kubeconfig
  BY <1>1, <1>3, FailStep, Zenon DEF IInv, TypeOK
<1>4. CASE /\ FallbackAllowed(cause) /\ Answers(j, cause)
           /\ IF o.dry THEN UNCHANGED kubeconfig ELSE RemoveKubeconfig(j)
  <2>1. /\ kubeconfig' \in [Jobs -> Cells \cup {None, Partial}]
        /\ ~o.dry => kubeconfig'[j] = None
        /\ \A i \in Jobs \ {j} : kubeconfig'[i] = kubeconfig[i]
    BY <1>4, Zenon DEF RemoveKubeconfig, IInv, TypeOK
  <2>2. cause \notin (Causes \ Optimisation) \ Outages
    BY <1>4, Zenon DEF FallbackAllowed
  <2>3. ASSUME NEW d \in Load(Key(o)), Succeed(j, "cache", d.cell, cause, d)
        PROVE  IInv'
    <3>1. d = cache[Key(o)] /\ d # None /\ Rounded(d.age) <= CacheTTL
      BY <2>3, Zenon DEF Load
    <3>2. d \in Decision /\ d.cell \in Cells /\ d.age \in Ages
      BY <1>2, <3>1, Zenon DEF IInv, TypeOK, Decision
    <3>3. d.for = Key(o) /\ d.since = d.age
      BY <1>2, <3>1, Zenon DEF IInv, Filed, Honest
    <3>4. 2 * d.age < 2 * CacheTTL + Second
      BY <3>1, <3>2, RoundingBound, Zenon
    <3>5. ~(2 * d.since >= 2 * CacheTTL + Second)
      <4>1. d.age \in Int /\ CacheTTL \in Int /\ Second \in Int
        BY <3>2, ClockAssumption DEF Ages, MaxAge
      <4> QED
        BY <3>3, <3>4, <4>1
    <3>6. TypeOK'
      BY <1>1, <2>1, <2>3, <3>2, SucceedTypes, Zenon
    <3> QED
      BY <1>1, <2>1, <2>2, <2>3, <3>2, <3>3, <3>5, <3>6, SucceedStep, Zenon
  <2>4. ASSUME o.stance \in Cells, Succeed(j, "pinned", o.stance, cause, None)
        PROVE  IInv'
    <3>1. TypeOK'
      BY <1>1, <2>1, <2>4, SucceedTypes, Zenon
    <3> QED
      BY <1>1, <2>1, <2>2, <2>4, <3>1, SucceedStep, Zenon
  <2> QED
    BY <1>4, <2>3, <2>4, Zenon DEF Answers
<1> QED
  BY <1>3, <1>4, Zenon DEF Fallback

LEMMA TickStep ==
  ASSUME IInv, Tick PROVE IInv'
<1>1. ASSUME NEW k \in Keys
      PROVE  /\ OlderDecision(cache[k]) \in Decision \cup {None}
             /\ Honest(OlderDecision(cache[k]), k)
  BY AgesTogether, Zenon DEF IInv, TypeOK, Filed
<1>2. cache' \in [Keys -> Decision \cup {None}] /\ Filed'
  BY <1>1, Zenon DEF Tick, Filed
<1>3. ASSUME NEW j \in Jobs
      PROVE  /\ run'[j] \in Running \cup {None}
             /\ run'[j] # None =>
                  /\ run[j] # None
                  /\ run'[j].pc = run[j].pc /\ run'[j].opts = run[j].opts
                  /\ run[j].decision # None => run'[j].decision # None
                  /\ Honest(run'[j].decision, Key(run[j].opts))
  <2>1. CASE run[j] = None
    BY <2>1, Zenon DEF Tick
  <2>2. CASE run[j] # None
    <3> DEFINE d == OlderDecision(run[j].decision)
               r == [run[j] EXCEPT !.decision = d]
    <3>1. run[j] \in Running /\ Honest(run[j].decision, Key(run[j].opts))
      BY <2>2, Zenon DEF IInv, TypeOK, Consistent
    <3>2. run[j].decision \in Decision \cup {None}
      BY <3>1, Zenon DEF Running
    <3>3. /\ d \in Decision \cup {None} /\ Honest(d, Key(run[j].opts))
          /\ run[j].decision # None => d # None
      BY <3>1, <3>2, AgesTogether, Zenon
    <3>4. run'[j] = r
      BY <2>2, Zenon DEF Tick
    <3> HIDE DEF d
    <3>5. /\ r \in Running /\ r.pc = run[j].pc /\ r.opts = run[j].opts
          /\ r.decision = d
      BY <3>1, <3>3, Zenon DEF Running
    <3> QED
      BY <2>2, <3>3, <3>4, <3>5, Zenon
  <2> QED
    BY <2>1, <2>2, Zenon
<1>4. TypeOK'
  BY <1>2, <1>3, Zenon DEF Tick, IInv, TypeOK
<1>5. Consistent'
  BY <1>3, Zenon DEF Tick, IInv, Consistent
<1> QED
  BY <1>2, <1>4, <1>5, Zenon DEF Tick, IInv, KubeconfigIsThisRuns,
     StanceAnswersOnlyOutages, CachedAnswerIsRecent

LEMMA NextIInv == IInv /\ [Next]_vars => IInv'
<1> SUFFICES ASSUME IInv, [Next]_vars PROVE IInv'
  BY Zenon
<1>1. ASSUME NEW j \in Jobs, Kill(j) PROVE IInv'
  BY <1>1, FailStep, Zenon DEF Kill, IInv, TypeOK
<1>2. CASE UNCHANGED vars
  BY <1>2, Zenon DEF vars, IInv, TypeOK, Consistent, Filed,
     KubeconfigIsThisRuns, StanceAnswersOnlyOutages, CachedAnswerIsRecent
<1> QED
  BY <1>1, <1>2, StartStep, ReceiveStep, RememberStep, ReplaceStep, CreateStep,
     FallbackStep, TickStep, Zenon DEF Next

\* Whatever runs succeeded, failed half-way or were killed before, a
\* successful deploy leaves the kubeconfig of its own cell or none
\* (writeKubeconfig, fallback).
THEOREM KubeconfigIsTheRuns == Spec => []KubeconfigIsThisRuns
<1>1. IInv => KubeconfigIsThisRuns
  BY Zenon DEF IInv
<1> QED
  BY InitIInv, NextIInv, <1>1, PTL DEF Spec

\* A stance answers only a hub that was not reached or could not choose
\* (fallbackAllowed).
THEOREM StanceIsForOutages == Spec => []StanceAnswersOnlyOutages
<1>1. IInv => StanceAnswersOnlyOutages
  BY Zenon DEF IInv
<1> QED
  BY InitIInv, NextIInv, <1>1, PTL DEF Spec

\* However many jobs share the cache and fall back on it, and for every cache
\* lifetime and granularity of the clock, a cached answer is the hub's own
\* for that request and no older than the lifetime and half a second (save,
\* load and age).
THEOREM CacheIsNeverProlonged == Spec => []CachedAnswerIsRecent
<1>1. IInv => CachedAnswerIsRecent
  BY Zenon DEF IInv
<1> QED
  BY InitIInv, NextIInv, <1>1, PTL DEF Spec

\* No step, a kill during a save included, loses a cached decision (save's
\* temporary file and rename).
THEOREM SaveIsAtomic == Spec => EntrySurvives
<1> DEFINE Survives == \A k \in Keys : cache[k] # None => cache'[k] # None
<1>1. ASSUME IInv, [Next]_vars PROVE Survives
  <2>1. CASE UNCHANGED cache
    BY <2>1, Zenon
  <2>2. ASSUME NEW j \in Jobs, Remember(j) PROVE Survives
    <3>1. run[j].decision \in Decision
      BY <1>1, <2>2, HeldDecision, Zenon DEF Remember, At
    <3> QED
      BY <1>1, <2>2, <3>1, NoneAssumption, Zenon DEF Remember, IInv, TypeOK
  <2>3. CASE Tick
    <3> SUFFICES ASSUME NEW k \in Keys, cache[k] # None
                 PROVE  cache'[k] # None
      BY Zenon
    <3>1. cache'[k] = OlderDecision(cache[k])
      BY <2>3, Zenon DEF Tick
    <3> QED
      BY <1>1, <3>1, AgesTogether, Zenon DEF IInv, TypeOK, Filed
  <2> QED
    BY <1>1, <2>1, <2>2, <2>3, Zenon DEF Next, vars, Start, Receive,
       ReplaceKubeconfig, CreateKubeconfig, Fallback, Kill
<1>2. IInv /\ [Next]_vars => [Survives]_vars
  BY <1>1, Zenon
<1> QED
  BY InitIInv, NextIInv, <1>2, PTL DEF Spec, EntrySurvives


-----------------------------------------------------------------------------
(***************************************************************************)
(* Which keys a caller is verified with.                                   *)
(***************************************************************************)
FlightSteps == {"none", "recheck", "fetch", "orphaned", "store"}
Flights == [at : FlightSteps, found : Locations \cup {Nil}]
Refreshes == [todo : SUBSET Issuers, at : Issuers \cup {Nil},
              found : Locations \cup {Nil}]
KeyTokens == {t \in Tokens : t.issuer \in Issuers}
Authentications == [at : Answered \cup {"lookup", "join", "wait", "verify"},
                    token : KeyTokens \cup {Nil}, left : Int, early : Nat]

\* What is known of an issuer is where it was at some time.  A flight is past
\* its second look only while nothing is known; what it brings, and what a
\* refresh brings, is not older than what is known, and not from the future.
Dispatched(i) ==
  /\ sources[i] # Nil => sources[i] <= location[i]
  /\ flight[i].at \in {"fetch", "orphaned", "store"} => sources[i] = Nil
  /\ flight[i].at = "store" => flight[i].found # Nil /\ flight[i].found <= location[i]

Refreshing ==
  /\ \A i \in refresh.todo : sources[i] # Nil
  /\ refresh.at # Nil =>
       /\ sources[refresh.at] # Nil /\ refresh.found # Nil
       /\ sources[refresh.at] <= refresh.found
       /\ refresh.found <= location[refresh.at]

\* A request that has come to its verdict has an issuer that is known.
Sourced(c) ==
  /\ caller[c].at \notin Answered => caller[c].token # Nil
  /\ caller[c].at = "verify" => sources[Issuer(c)] # Nil

KeysInv ==
  /\ KeysTypeOK
  /\ \A i \in Issuers : Dispatched(i)
  /\ Refreshing
  /\ \A c \in Requests : Sourced(c)

\* The types, in the names above.
LEMMA KeysTypes ==
  KeysTypeOK <=>
    /\ location \in [Issuers -> Locations] /\ up \in [Issuers -> BOOLEAN]
    /\ sources \in [Issuers -> Locations \cup {Nil}]
    /\ flight \in [Issuers -> Flights]
    /\ refresh \in Refreshes
    /\ caller \in [Requests -> Authentications]
BY Zenon DEF KeysTypeOK, FlightSteps, Flights, Refreshes, KeyTokens,
   Authentications

LEMMA KeysInitInv == KeysInit => KeysInv
<1> SUFFICES ASSUME KeysInit PROVE KeysInv
  BY Zenon
<1>1. KeysTypeOK
  <2>1. 1 \in Locations /\ Expired \in Int
    BY KeysAssumption DEF Locations, Expired
  <2>2. Flightless \in Flights /\ Ended("none") \in Authentications
    BY <2>1, Zenon DEF Flightless, Flights, FlightSteps, Ended,
       Authentications, Answered
  <2>3. refresh \in Refreshes
    BY Zenon DEF KeysInit, Refreshes
  <2> QED
    BY <2>1, <2>2, <2>3, KeysTypes, Zenon DEF KeysInit
<1>2. ASSUME NEW i \in Issuers PROVE Dispatched(i)
  BY Zenon DEF KeysInit, Dispatched, Flightless
<1>3. Refreshing
  BY Zenon DEF KeysInit, Refreshing
<1>4. ASSUME NEW c \in Requests PROVE Sourced(c)
  BY Zenon DEF KeysInit, Sourced, Ended, Answered
<1> QED
  BY <1>1, <1>2, <1>3, <1>4, Zenon DEF KeysInv

\* A step at one request that leaves the sources alone.
LEMMA RequestStep ==
  ASSUME KeysInv, NEW c \in Requests, NEW r \in Authentications,
         caller' = [caller EXCEPT ![c] = r],
         r.at \notin Answered => r.token # Nil,
         r.at = "verify" => sources[r.token.issuer] # Nil,
         UNCHANGED <<location, up, sources, refresh>>,
         flight' \in [Issuers -> Flights],
         \A i \in Issuers : flight'[i] = flight[i] \/ flight'[i].at \in {"none", "recheck"}
  PROVE  KeysInv'
<1>1. KeysTypeOK'
  BY KeysTypes, Zenon DEF KeysInv, KeysTypeOK, FlightSteps, Flights, KeyTokens,
     Authentications
<1>2. ASSUME NEW i \in Issuers PROVE Dispatched(i)'
  BY Zenon DEF KeysInv, Dispatched
<1>3. Refreshing'
  BY Zenon DEF KeysInv, Refreshing
<1>4. ASSUME NEW d \in Requests PROVE Sourced(d)'
  <2>1. caller'[d] = IF d = c THEN r ELSE caller[d]
    BY KeysTypes, Zenon DEF KeysInv
  <2> QED
    BY <2>1, Zenon DEF KeysInv, Sourced, Issuer
<1> QED
  BY <1>1, <1>2, <1>3, <1>4, Zenon DEF KeysInv

\* How a request ends.
LEMMA EndedFacts ==
  ASSUME NEW how \in Answered
  PROVE  Ended(how) \in Authentications /\ Ended(how).at = how
<1>1. Expired \in Int
  BY KeysAssumption DEF Expired
<1> QED
  BY <1>1, Zenon DEF Ended, Authentications, Answered

\* A request that goes on.
LEMMA ReachFacts ==
  ASSUME NEW a \in Authentications, NEW pc \in {"lookup", "join", "wait", "verify"}
  PROVE  /\ [a EXCEPT !.at = pc] \in Authentications
         /\ [a EXCEPT !.at = pc].at = pc
         /\ [a EXCEPT !.at = pc].token = a.token
BY Zenon DEF Authentications

LEMMA PresentInv ==
  ASSUME KeysInv, NEW c \in Requests, NEW t \in Tokens, Present(c, t) PROVE KeysInv'
<1>1. UNCHANGED <<location, up, sources, refresh>> /\ flight' = flight
      /\ flight' \in [Issuers -> Flights]
  BY KeysTypes, Zenon DEF KeysInv, Present, world
<1>2. CASE t.issuer \in Issuers
  <2> DEFINE r == [at |-> "lookup", token |-> t, left |-> t.left, early |-> t.early]
  <2>1. r \in Authentications /\ r.token # Nil /\ r.at # "verify"
    BY <1>2, KeysAssumption, Zenon DEF Authentications, KeyTokens
  <2>2. caller' = [caller EXCEPT ![c] = r]
    BY <1>2, Zenon DEF Present, Admit
  <2> HIDE DEF r
  <2> QED
    BY <1>1, <2>1, <2>2, RequestStep, Zenon
<1>3. CASE t.issuer \notin Issuers
  <2>1. caller' = [caller EXCEPT ![c] = Ended("rejected")]
    BY <1>3, Zenon DEF Present, Reject
  <2>2. Ended("rejected") \in Authentications /\ Ended("rejected").at = "rejected"
    BY EndedFacts, Zenon DEF Answered
  <2> QED
    BY <1>1, <2>1, <2>2, RequestStep, Zenon DEF Answered
<1> QED
  BY <1>2, <1>3, Zenon

LEMMA HandlerInv ==
  ASSUME KeysInv, NEW c \in Requests, Handler(c) PROVE KeysInv'
<1> DEFINE a == caller[c]
<1>1. /\ a \in Authentications /\ a.at \notin Answered => a.token # Nil
      /\ a.token # Nil => a.token.issuer \in Issuers
      /\ flight \in [Issuers -> Flights] /\ caller \in [Requests -> Authentications]
  BY KeysTypes, Zenon DEF KeysInv, Sourced, Authentications, KeyTokens
<1>2. CASE Lookup(c)
  <2> DEFINE pc == IF sources[Issuer(c)] # Nil THEN "verify" ELSE "join"
             r == [a EXCEPT !.at = pc]
  <2>1. a.token # Nil /\ pc \in {"lookup", "join", "wait", "verify"}
    BY <1>1, <1>2, Zenon DEF Lookup, Answered
  <2>2. r \in Authentications /\ r.at = pc /\ r.token = a.token
    <3> HIDE DEF pc
    <3> QED
      BY <1>1, <2>1, ReachFacts, ZenonT(30)
  <2>3. caller' = [caller EXCEPT ![c] = r]
    BY <1>1, <1>2, Zenon DEF Lookup, Reach
  <2>4. UNCHANGED <<location, up, sources, refresh>> /\ flight' = flight
    BY <1>2, Zenon DEF Lookup, world
  <2>5. pc = "verify" => sources[a.token.issuer] # Nil
    BY Zenon DEF Issuer
  <2> HIDE DEF r, pc
  <2> QED
    BY <1>1, <2>1, <2>2, <2>3, <2>4, <2>5, RequestStep, Zenon
<1>3. CASE Join(c)
  <2> DEFINE r == [a EXCEPT !.at = "wait"]
             i == a.token.issuer
  <2>1. a.token # Nil /\ i \in Issuers
    BY <1>1, <1>3, Zenon DEF Join, Answered
  <2>2. r \in Authentications /\ r.at = "wait" /\ r.token = a.token
    BY <1>1, ReachFacts, Zenon
  <2>3. caller' = [caller EXCEPT ![c] = r]
    BY <1>1, <1>3, Zenon DEF Join, Board, Reach
  <2>4. UNCHANGED <<location, up, sources, refresh>>
    BY <1>3, Zenon DEF Join, world
  <2>5. flight' = [flight EXCEPT ![i].at = IF @ = "none" THEN "recheck" ELSE @]
    BY <1>3, Zenon DEF Join, Board, Issuer
  <2>6. /\ flight' \in [Issuers -> Flights]
        /\ \A j \in Issuers : flight'[j] = flight[j] \/ flight'[j].at \in {"none", "recheck"}
    BY <1>1, <2>1, <2>5, ZenonT(30) DEF Flights, FlightSteps
  <2> HIDE DEF r
  <2> QED
    BY <2>1, <2>2, <2>3, <2>4, <2>6, RequestStep, Zenon
<1>4. CASE Verify(c)
  <2>1. PICK how \in {"accepted", "rejected"} : caller' = [caller EXCEPT ![c] = Ended(how)]
    BY <1>4, Zenon DEF Verify, Accept, Reject
  <2>2. Ended(how) \in Authentications /\ Ended(how).at = how /\ how \in Answered
    BY EndedFacts, Zenon DEF Answered
  <2>3. UNCHANGED <<location, up, sources, refresh>> /\ flight' = flight
    BY <1>4, Zenon DEF Verify, world
  <2> QED
    BY <1>1, <2>1, <2>2, <2>3, RequestStep, Zenon DEF Answered
<1> QED
  BY <1>2, <1>3, <1>4, Zenon DEF Handler

\* Callers who wait for a flight are told what it brought; the others, and
\* all of them if it goes on, stay where they are.
LEMMA WaitersStep ==
  ASSUME KeysInv, NEW i \in Issuers, NEW ok \in BOOLEAN,
         UNCHANGED caller \/ (Land(i, ok) /\ (ok => sources'[i] # Nil)),
         \A j \in Issuers : sources[j] # Nil => sources'[j] # Nil
  PROVE  /\ caller' \in [Requests -> Authentications]
         /\ \A c \in Requests : Sourced(c)'
<1>1. /\ caller \in [Requests -> Authentications]
      /\ \A c \in Requests : Sourced(c)
  BY KeysTypes, Zenon DEF KeysInv
<1>2. \A c \in Requests : caller[c].token # Nil => Issuer(c) \in Issuers
  BY <1>1, Zenon DEF Authentications, KeyTokens, Issuer
<1>3. CASE UNCHANGED caller
  BY <1>1, <1>2, <1>3, Zenon DEF Sourced, Issuer, Answered
<1>4. CASE Land(i, ok) /\ (ok => sources'[i] # Nil)
  <2>1. ASSUME NEW c \in Requests
        PROVE  caller'[c] \in Authentications /\ Sourced(c)'
    <3> DEFINE a == caller[c]
               r == [a EXCEPT !.at = "verify"]
    <3>1. a \in Authentications
      BY <1>1, Zenon
    <3>2. CASE ~(a.at = "wait" /\ Issuer(c) = i)
      <4>1. caller'[c] = a
        BY <1>4, <3>2, Zenon DEF Land
      <4> QED
        BY <1>1, <1>2, <4>1, Zenon DEF Sourced, Issuer, Answered
    <3>3. CASE a.at = "wait" /\ Issuer(c) = i /\ ok
      <4>1. caller'[c] = r
        BY <1>4, <3>3, Zenon DEF Land
      <4>2. r \in Authentications /\ r.at = "verify" /\ r.token = a.token
        BY <3>1, ReachFacts, Zenon
      <4>3. a.token # Nil /\ a.token.issuer = i
        BY <1>1, <3>3, Zenon DEF Sourced, Answered, Issuer
      <4> HIDE DEF r
      <4> QED
        BY <1>4, <3>3, <4>1, <4>2, <4>3, Zenon DEF Sourced, Issuer
    <3>4. CASE a.at = "wait" /\ Issuer(c) = i /\ ~ok
      <4>1. caller'[c] = Ended("rejected")
        BY <1>4, <3>4, Zenon DEF Land
      <4>2. Ended("rejected") \in Authentications /\ Ended("rejected").at = "rejected"
        BY EndedFacts, Zenon DEF Answered
      <4> QED
        BY <4>1, <4>2, Zenon DEF Sourced, Answered
    <3> QED
      BY <3>2, <3>3, <3>4, Zenon
  <2>2. caller' = [c \in Requests |-> caller'[c]]
    BY <1>4, Zenon DEF Land
  <2> QED
    BY <2>1, <2>2, Zenon
<1> QED
  BY <1>3, <1>4, Zenon

\* A step of one flight: it is at f afterwards, and has stored s if it was to.
LEMMA FlightStep ==
  ASSUME KeysInv, NEW i \in Issuers, NEW f \in Flights, NEW s \in Locations \cup {Nil},
         flight' = [flight EXCEPT ![i] = f], sources' = [sources EXCEPT ![i] = s],
         s = sources[i] \/ (sources[i] = Nil /\ s # Nil /\ s <= location[i]),
         UNCHANGED caller \/ \E ok \in BOOLEAN : Land(i, ok) /\ (ok => s # Nil),
         f.at \in {"fetch", "orphaned", "store"} => s = Nil,
         f.at = "store" => f.found # Nil /\ f.found <= location[i],
         UNCHANGED <<location, up, refresh>>
  PROVE  KeysInv'
<1>1. /\ location \in [Issuers -> Locations] /\ up \in [Issuers -> BOOLEAN]
      /\ sources \in [Issuers -> Locations \cup {Nil}]
      /\ flight \in [Issuers -> Flights] /\ refresh \in Refreshes
  BY KeysTypes, Zenon DEF KeysInv
<1>2. /\ flight'[i] = f /\ \A j \in Issuers : j # i => flight'[j] = flight[j]
      /\ sources'[i] = s /\ \A j \in Issuers : j # i => sources'[j] = sources[j]
  BY <1>1, Zenon
<1>3. \A j \in Issuers : sources[j] # Nil => sources'[j] = sources[j]
  BY <1>2, Zenon
<1>4. /\ caller' \in [Requests -> Authentications]
      /\ \A c \in Requests : Sourced(c)'
  <2>1. \A j \in Issuers : sources[j] # Nil => sources'[j] # Nil
    BY <1>3, Zenon
  <2>2. CASE UNCHANGED caller
    BY <2>1, <2>2, WaitersStep, Zenon
  <2>3. ASSUME NEW ok \in BOOLEAN, Land(i, ok) /\ (ok => s # Nil)
        PROVE  /\ caller' \in [Requests -> Authentications]
               /\ \A c \in Requests : Sourced(c)'
    BY <1>2, <2>1, <2>3, WaitersStep, Zenon
  <2> QED
    BY <2>2, <2>3, Zenon
<1>5. KeysTypeOK'
  <2>1. /\ location' \in [Issuers -> Locations] /\ up' \in [Issuers -> BOOLEAN]
        /\ sources' \in [Issuers -> Locations \cup {Nil}]
        /\ flight' \in [Issuers -> Flights] /\ refresh' \in Refreshes
    BY <1>1, Zenon
  <2> QED
    BY <1>4, <2>1, Zenon DEF KeysTypeOK, FlightSteps, Flights, Refreshes,
       KeyTokens, Authentications
<1>6. ASSUME NEW j \in Issuers PROVE Dispatched(j)'
  BY <1>2, ZenonT(30) DEF KeysInv, Dispatched
<1>7. Refreshing'
  BY <1>1, <1>3, Zenon DEF KeysInv, Refreshing, Refreshes
<1> QED
  BY <1>4, <1>5, <1>6, <1>7, Zenon DEF KeysInv

\* One that leaves the sources alone.
LEMMA FlightGoes ==
  ASSUME KeysInv, NEW i \in Issuers, NEW f \in Flights,
         flight' = [flight EXCEPT ![i] = f], UNCHANGED sources,
         UNCHANGED caller \/ \E ok \in BOOLEAN : Land(i, ok) /\ (ok => sources[i] # Nil),
         f.at \in {"fetch", "orphaned", "store"} => sources[i] = Nil,
         f.at = "store" => f.found # Nil /\ f.found <= location[i],
         UNCHANGED <<location, up, refresh>>
  PROVE  KeysInv'
<1>1. PICK s \in Locations \cup {Nil} : s = sources[i]
  BY Zenon DEF KeysInv, KeysTypeOK
<1>2. sources' = [sources EXCEPT ![i] = s]
  BY <1>1, Zenon DEF KeysInv, KeysTypeOK
<1>3. /\ UNCHANGED caller \/ \E ok \in BOOLEAN : Land(i, ok) /\ (ok => s # Nil)
      /\ f.at \in {"fetch", "orphaned", "store"} => s = Nil
  BY <1>1, Zenon
<1>4. s = sources[i] \/ (sources[i] = Nil /\ s # Nil /\ s <= location[i])
  BY <1>1, Zenon
<1> QED
  BY <1>2, <1>3, <1>4, FlightStep, Zenon

LEMMA FlightInv ==
  ASSUME KeysInv, NEW i \in Issuers, Flight(i) \/ HangUp(i) PROVE KeysInv'
<1> DEFINE f == flight[i]
<1>1. /\ location \in [Issuers -> Locations] /\ flight \in [Issuers -> Flights]
      /\ sources \in [Issuers -> Locations \cup {Nil}]
      /\ f \in Flights /\ sources[i] \in Locations \cup {Nil}
      /\ location[i] \in Locations /\ location[i] \in Nat /\ Dispatched(i)
      /\ sources = [sources EXCEPT ![i] = sources[i]]
  BY KeysTypes, KeysAssumption DEF KeysInv, Locations
<1>2. /\ Flightless \in Flights /\ Flightless.at \notin {"fetch", "orphaned", "store"}
      /\ Flightless.at # "store"
  BY Zenon DEF Flightless, Flights, FlightSteps
<1>3. ASSUME NEW pc \in {"fetch", "orphaned"}
      PROVE  [f EXCEPT !.at = pc] \in Flights /\ [f EXCEPT !.at = pc].at # "store"
  BY <1>1, Zenon DEF Flights, FlightSteps
<1>4. CASE Recheck(i)
  <2>1. UNCHANGED <<location, up, refresh>> /\ sources' = sources
    BY <1>1, <1>4, Zenon DEF Recheck, world
  <2>2. CASE sources[i] # Nil
    <3>1. Land(i, TRUE) /\ flight' = [flight EXCEPT ![i] = Flightless]
      BY <1>4, <2>2, Zenon DEF Recheck, Land
    <3> QED
      BY <1>1, <1>2, <2>1, <2>2, <3>1, FlightGoes, Zenon
  <2>3. CASE sources[i] = Nil
    <3> DEFINE g == [f EXCEPT !.at = "fetch"]
    <3>1. flight' = [flight EXCEPT ![i] = g] /\ caller' = caller
      BY <1>1, <1>4, <2>3, Zenon DEF Recheck
    <3>2. g \in Flights /\ g.at # "store"
      BY <1>3, Zenon
    <3> HIDE DEF g
    <3> QED
      BY <1>1, <2>1, <2>3, <3>1, <3>2, FlightGoes, Zenon
  <2> QED
    BY <2>2, <2>3, Zenon
<1>5. CASE HangUp(i)
  <2> DEFINE g == [f EXCEPT !.at = "orphaned"]
  <2>1. /\ flight' = [flight EXCEPT ![i] = g] /\ caller' = caller
        /\ UNCHANGED <<location, up, refresh>> /\ sources' = sources
    BY <1>1, <1>5, Zenon DEF HangUp, world
  <2>2. g \in Flights /\ g.at # "store"
    BY <1>3, Zenon
  <2>3. sources[i] = Nil
    BY <1>1, <1>5, Zenon DEF HangUp, Dispatched
  <2> HIDE DEF g
  <2> QED
    BY <1>1, <2>1, <2>2, <2>3, FlightGoes, Zenon
<1>6. CASE Discover(i)
  <2> DEFINE g == [at |-> "store", found |-> location[i]]
  <2>1. /\ flight' = [flight EXCEPT ![i] = g] /\ caller' = caller
        /\ UNCHANGED <<location, up, refresh>> /\ sources' = sources
    BY <1>1, <1>6, Zenon DEF Discover, world
  <2>2. /\ g \in Flights /\ g.at = "store" /\ g.found # Nil
        /\ g.found <= location[i]
    BY <1>1, KeysAssumption DEF Flights, FlightSteps
  <2>3. sources[i] = Nil
    BY <1>1, <1>6, Zenon DEF Discover, Dispatched
  <2> HIDE DEF g
  <2> QED
    BY <1>1, <2>1, <2>2, <2>3, FlightGoes, Zenon
<1>7. CASE DiscoverFails(i)
  <2>1. /\ Land(i, FALSE) /\ flight' = [flight EXCEPT ![i] = Flightless]
        /\ UNCHANGED <<location, up, refresh>> /\ sources' = sources
    BY <1>1, <1>7, Zenon DEF DiscoverFails, Land, world
  <2> QED
    BY <1>1, <1>2, <2>1, FlightGoes, Zenon
<1>8. CASE StoreSource(i)
  <2>1. /\ Land(i, TRUE) /\ flight' = [flight EXCEPT ![i] = Flightless]
        /\ UNCHANGED <<location, up, refresh>>
        /\ sources' = [sources EXCEPT ![i] = f.found]
    BY <1>8, Zenon DEF StoreSource, Land, world
  <2>2. /\ sources[i] = Nil /\ f.found # Nil /\ f.found <= location[i]
        /\ f.found \in Locations \cup {Nil}
    BY <1>1, <1>8, Zenon DEF StoreSource, Dispatched, Flights
  <2> QED
    BY <1>2, <2>1, <2>2, FlightStep, Zenon
<1> QED
  BY <1>4, <1>5, <1>6, <1>7, <1>8, Zenon DEF Flight

\* A step of the refresh or of an issuer: no source is lost or goes back.
LEMMA SourcesStep ==
  ASSUME KeysInv, KeysTypeOK', UNCHANGED <<flight, caller>>,
         \A i \in Issuers :
           /\ location[i] <= location'[i]
           /\ sources[i] = Nil => sources'[i] = Nil
           /\ sources[i] # Nil => sources'[i] # Nil /\ sources'[i] <= location'[i],
         Refreshing'
  PROVE  KeysInv'
<1>1. ASSUME NEW i \in Issuers PROVE Dispatched(i)'
  <2>1. location[i] \in Nat /\ location'[i] \in Nat
    BY KeysAssumption DEF KeysInv, KeysTypeOK, Locations
  <2>2. flight[i].found # Nil => flight[i].found \in Nat
    BY KeysAssumption DEF KeysInv, KeysTypeOK, Locations
  <2> QED
    BY <2>1, <2>2 DEF KeysInv, Dispatched
<1>2. ASSUME NEW c \in Requests PROVE Sourced(c)'
  <2>1. caller[c] \in Authentications /\ Sourced(c)
    BY KeysTypes, Zenon DEF KeysInv
  <2>2. caller[c].token # Nil => Issuer(c) \in Issuers
    BY <2>1, Zenon DEF Authentications, KeyTokens, Issuer
  <2> QED
    BY <2>1, <2>2, Zenon DEF Sourced, Issuer, Answered
<1> QED
  BY <1>1, <1>2, Zenon DEF KeysInv

LEMMA RefresherInv == ASSUME KeysInv, Refresher PROVE KeysInv'
<1>1. /\ location \in [Issuers -> Locations] /\ up \in [Issuers -> BOOLEAN]
      /\ sources \in [Issuers -> Locations \cup {Nil}]
      /\ refresh \in Refreshes
      /\ \A i \in Issuers : location[i] \in Locations /\ location[i] \in Nat
      /\ \A i \in Issuers : sources[i] # Nil =>
           sources[i] \in Nat /\ sources[i] <= location[i]
      /\ Refreshing
  BY KeysTypes, KeysAssumption DEF KeysInv, Locations, Dispatched
<1>2. ASSUME NEW r \in Refreshes, refresh' = r, Refreshing', UNCHANGED sources,
             UNCHANGED <<location, up, flight, caller>>
      PROVE  KeysInv'
  <2>1. KeysTypeOK'
    BY <1>2, Zenon DEF KeysInv, KeysTypeOK, Refreshes
  <2>2. \A i \in Issuers :
          /\ location[i] <= location'[i]
          /\ sources[i] = Nil => sources'[i] = Nil
          /\ sources[i] # Nil => sources'[i] # Nil /\ sources'[i] <= location'[i]
    BY <1>1, <1>2
  <2> QED
    BY <1>2, <2>1, <2>2, SourcesStep, Zenon
<1>3. CASE RefreshStart
  <2> DEFINE r == [refresh EXCEPT !.todo = {i \in Issuers : sources[i] # Nil}]
  <2>1. /\ r \in Refreshes /\ r.at = refresh.at /\ r.found = refresh.found
        /\ r.todo = {i \in Issuers : sources[i] # Nil}
    BY <1>1, Zenon DEF Refreshes
  <2>2. refresh' = r /\ UNCHANGED sources /\ UNCHANGED <<location, up, flight, caller>>
    BY <1>3, Zenon DEF RefreshStart, world
  <2> HIDE DEF r
  <2>3. Refreshing'
    BY <1>1, <2>1, <2>2, Zenon DEF Refreshing
  <2> QED
    BY <1>2, <2>1, <2>2, <2>3, Zenon
<1>4. ASSUME NEW i \in Issuers, RefreshFetch(i) PROVE KeysInv'
  <2>1. UNCHANGED sources /\ UNCHANGED <<location, up, flight, caller>>
    BY <1>4, Zenon DEF RefreshFetch, world
  <2>2. sources[i] # Nil
    BY <1>1, <1>4, Zenon DEF RefreshFetch, Refreshing
  <2>3. CASE up[i]
    <3> DEFINE r == [refresh EXCEPT !.at = i, !.found = location[i]]
    <3>1. r \in Refreshes /\ r.at = i /\ r.found = location[i] /\ r.todo = refresh.todo
      BY <1>1, Zenon DEF Refreshes
    <3>2. refresh' = r
      BY <1>4, <2>3, Zenon DEF RefreshFetch
    <3> HIDE DEF r
    <3>3. Refreshing'
      BY <1>1, <2>1, <2>2, <3>1, <3>2, KeysAssumption DEF Refreshing
    <3> QED
      BY <1>2, <2>1, <3>1, <3>2, <3>3, Zenon
  <2>4. CASE ~up[i]
    <3> DEFINE r == [refresh EXCEPT !.todo = @ \ {i}]
    <3>1. /\ r \in Refreshes /\ r.at = refresh.at /\ r.found = refresh.found
          /\ r.todo = refresh.todo \ {i}
      BY <1>1, Zenon DEF Refreshes
    <3>2. refresh' = r
      BY <1>4, <2>4, Zenon DEF RefreshFetch
    <3> HIDE DEF r
    <3>3. Refreshing'
      BY <1>1, <2>1, <3>1, <3>2, Zenon DEF Refreshing
    <3> QED
      BY <1>2, <2>1, <3>1, <3>2, <3>3, Zenon
  <2> QED
    BY <2>3, <2>4, Zenon
<1>5. CASE RefreshSwap
  <2> DEFINE i == refresh.at
             s == refresh.found
             r == [todo |-> refresh.todo \ {i}, at |-> Nil, found |-> Nil]
  <2>1. /\ i \in Issuers /\ i # Nil /\ s \in Locations /\ s # Nil
        /\ sources[i] # Nil /\ s <= location[i]
    BY <1>1, <1>5, Zenon DEF RefreshSwap, Refreshing, Refreshes
  <2>2. /\ sources' = [sources EXCEPT ![i] = s] /\ refresh' = r
        /\ UNCHANGED <<location, up, flight, caller>>
    BY <1>5, Zenon DEF RefreshSwap, world
  <2>3. r \in Refreshes /\ r.at = Nil /\ r.todo = refresh.todo \ {i}
    BY <1>1, Zenon DEF Refreshes
  <2> HIDE DEF i, s, r
  <2>4. /\ sources'[i] = s /\ \A j \in Issuers : j # i => sources'[j] = sources[j]
        /\ sources' \in [Issuers -> Locations \cup {Nil}]
    BY <1>1, <2>1, <2>2, Zenon
  <2>5. KeysTypeOK'
    BY <2>2, <2>3, <2>4, Zenon DEF KeysInv, KeysTypeOK, Refreshes
  <2>6. \A j \in Issuers :
          /\ location[j] <= location'[j]
          /\ sources[j] = Nil => sources'[j] = Nil
          /\ sources[j] # Nil => sources'[j] # Nil /\ sources'[j] <= location'[j]
    BY <1>1, <2>1, <2>2, <2>4
  <2>7. Refreshing'
    <3>1. \A j \in refresh.todo : j \in Issuers /\ sources[j] # Nil
      BY <1>1, Zenon DEF Refreshing, Refreshes
    <3> QED
      BY <2>1, <2>2, <2>3, <2>4, <3>1, Zenon DEF Refreshing
  <2> QED
    BY <2>2, <2>5, <2>6, <2>7, SourcesStep, Zenon
<1> QED
  BY <1>3, <1>4, <1>5, Zenon DEF Refresher

LEMMA IssuerInv ==
  ASSUME KeysInv, NEW i \in Issuers, Move(i) \/ Flap(i) PROVE KeysInv'
<1>1. /\ location \in [Issuers -> Locations] /\ up \in [Issuers -> BOOLEAN]
      /\ refresh \in Refreshes
      /\ \A j \in Issuers : sources[j] # Nil =>
           sources[j] \in Nat /\ sources[j] <= location[j]
      /\ Refreshing
  BY KeysTypes, KeysAssumption DEF KeysInv, KeysTypeOK, Locations, Dispatched
<1>2. UNCHANGED sources /\ UNCHANGED refresh /\ UNCHANGED <<flight, caller>>
  BY Zenon DEF Move, Flap
<1>3. /\ location' \in [Issuers -> Locations] /\ up' \in [Issuers -> BOOLEAN]
      /\ \A j \in Issuers : /\ location[j] \in Nat /\ location'[j] \in Nat
                            /\ location[j] <= location'[j]
  <2>1. CASE Move(i)
    BY <1>1, <2>1, KeysAssumption DEF Move, Locations
  <2>2. CASE Flap(i)
    BY <1>1, <2>2, KeysAssumption DEF Flap, Locations
  <2> QED
    BY <2>1, <2>2, Zenon
<1>4. KeysTypeOK'
  BY <1>2, <1>3, Zenon DEF KeysInv, KeysTypeOK
<1>5. \A j \in Issuers :
        /\ location[j] <= location'[j]
        /\ sources[j] = Nil => sources'[j] = Nil
        /\ sources[j] # Nil => sources'[j] # Nil /\ sources'[j] <= location'[j]
  BY <1>1, <1>2, <1>3
<1>6. Refreshing'
  <2>1. refresh.at # Nil => refresh.at \in Issuers
    BY <1>1, Zenon DEF Refreshes
  <2>2. refresh.found # Nil => refresh.found \in Nat
    BY <1>1, KeysAssumption DEF Refreshes, Locations
  <2> QED
    BY <1>1, <1>2, <1>3, <2>1, <2>2 DEF Refreshing
<1> QED
  BY <1>2, <1>4, <1>5, <1>6, SourcesStep, Zenon

LEMMA ElapseInv == ASSUME KeysInv, Elapse PROVE KeysInv'
<1>1. /\ caller \in [Requests -> Authentications]
      /\ UNCHANGED <<location, up, sources, flight, refresh>>
  BY KeysTypes, Zenon DEF KeysInv, Elapse, world
<1>2. ASSUME NEW c \in Requests
      PROVE  /\ caller'[c] \in Authentications
             /\ caller'[c].at = caller[c].at /\ caller'[c].token = caller[c].token
  <2> DEFINE a == caller[c]
             l == IF a.left = Expired THEN a.left ELSE a.left - 1
             e == IF a.early = 0 THEN 0 ELSE a.early - 1
             r == [a EXCEPT !.left = l, !.early = e]
  <2>1. a \in Authentications
    BY <1>1, Zenon
  <2>2. l \in Int /\ e \in Nat
    BY <2>1 DEF Authentications
  <2>3. caller'[c] = r
    BY Zenon DEF Elapse
  <2> HIDE DEF l, e, a
  <2>4. r \in Authentications /\ r.at = a.at /\ r.token = a.token
    BY <2>1, <2>2, Zenon DEF Authentications
  <2> QED
    BY <2>3, <2>4, Zenon DEF a
<1>3. caller' \in [Requests -> Authentications]
  <2>1. caller' = [c \in Requests |-> caller'[c]]
    BY Zenon DEF Elapse
  <2> QED
    BY <1>2, <2>1, Zenon
<1>4. KeysTypeOK'
  BY <1>1, <1>3, KeysTypes, Zenon DEF KeysInv, KeysTypeOK, Authentications,
     KeyTokens
<1>5. ASSUME NEW i \in Issuers PROVE Dispatched(i)'
  BY <1>1, Zenon DEF KeysInv, Dispatched
<1>6. Refreshing'
  BY <1>1, Zenon DEF KeysInv, Refreshing
<1>7. ASSUME NEW c \in Requests PROVE Sourced(c)'
  BY <1>1, <1>2, Zenon DEF KeysInv, Sourced, Issuer, Answered
<1> QED
  BY <1>4, <1>5, <1>6, <1>7, Zenon DEF KeysInv

LEMMA KeysNextInv == KeysInv /\ [KeysNext]_keysVars => KeysInv'
<1> SUFFICES ASSUME KeysInv, [KeysNext]_keysVars PROVE KeysInv'
  BY Zenon
<1>1. CASE UNCHANGED keysVars
  BY <1>1, Zenon DEF keysVars, KeysInv, KeysTypeOK, Dispatched, Refreshing,
     Sourced, Issuer
<1> QED
  BY <1>1, PresentInv, HandlerInv, FlightInv, RefresherInv, IssuerInv,
     ElapseInv, Zenon DEF KeysNext

LEMMA KeysInvAlways == KeysSpec => []KeysInv
BY KeysInitInv, KeysNextInv, PTL DEF KeysSpec

\* Whoever is accepted holds a token that is within its times at that moment,
\* of an issuer whose keys are known: only Authenticate's last checks
\* (validateTimes) end in an identity, and they read the clock themselves.
THEOREM AcceptedInTime == KeysSpec => AcceptedIsInTime
<1> DEFINE Fresh == \A c \in Requests :
             caller[c].at \notin Answered /\ caller'[c].at = "accepted" =>
               /\ caller[c].left >= -Skew /\ caller[c].early <= Skew
               /\ sources[Issuer(c)] # Nil
<1>1. KeysInv /\ [KeysNext]_keysVars => [Fresh]_keysVars
  <2> SUFFICES ASSUME KeysInv, KeysNext, NEW c \in Requests,
                      caller[c].at \notin Answered, caller'[c].at = "accepted"
               PROVE  /\ caller[c].left >= -Skew /\ caller[c].early <= Skew
                      /\ sources[Issuer(c)] # Nil
    BY Zenon
  <2>1. caller \in [Requests -> Authentications] /\ Sourced(c)
    BY KeysTypes, Zenon DEF KeysInv
  <2>2. /\ Ended("rejected").at = "rejected"
        /\ caller[c].at # "accepted"
        /\ \A pc : [caller[c] EXCEPT !.at = pc].at = pc
    BY <2>1, Zenon DEF Ended, Answered, Authentications
  <2>3. ASSUME NEW d \in Requests, NEW t \in Tokens, Present(d, t) PROVE FALSE
    BY <2>1, <2>2, <2>3, Zenon DEF Present, Admit, Reject
  <2>4. ASSUME NEW d \in Requests, Lookup(d) PROVE FALSE
    BY <2>1, <2>2, <2>4, Zenon DEF Lookup, Reach
  <2>5. ASSUME NEW d \in Requests, Join(d) PROVE FALSE
    BY <2>1, <2>2, <2>5, Zenon DEF Join, Board, Reach
  <2>6. ASSUME NEW d \in Requests, Verify(d)
        PROVE  /\ caller[c].left >= -Skew /\ caller[c].early <= Skew
               /\ sources[Issuer(c)] # Nil
    <3>1. d = c /\ ~Reject(d)
      BY <2>1, <2>2, <2>6, Zenon DEF Verify, Accept, Reject
    <3> QED
      BY <2>1, <2>6, <3>1, Zenon DEF Verify, InTime, Sourced
  <2>7. ASSUME NEW i \in Issuers, NEW ok \in BOOLEAN, Land(i, ok) PROVE FALSE
    BY <2>1, <2>2, <2>7, Zenon DEF Land
  <2>8. ASSUME Elapse PROVE FALSE
    <3>1. caller'[c].at = caller[c].at
      BY <2>1, <2>8, Zenon DEF Elapse, Authentications
    <3> QED
      BY <2>2, <3>1, Zenon
  <2>9. ASSUME UNCHANGED caller PROVE FALSE
    BY <2>2, <2>9, Zenon
  <2>10. ASSUME NEW i \in Issuers, Flight(i) PROVE FALSE
    <3>1. UNCHANGED caller \/ \E ok \in BOOLEAN : Land(i, ok)
      BY <2>10, Zenon DEF Flight, Recheck, Discover, DiscoverFails, StoreSource
    <3> QED
      BY <2>7, <2>9, <3>1, Zenon
  <2> QED
    BY <2>3, <2>4, <2>5, <2>6, <2>8, <2>9, <2>10, Zenon DEF KeysNext, Handler,
       HangUp, Move, Flap, Refresher, RefreshStart, RefreshFetch, RefreshSwap
<1> QED
  BY <1>1, KeysInvAlways, PTL DEF KeysSpec, AcceptedIsInTime

\* What is known of an issuer only moves forward: a discovery stores only
\* where nothing is known, because of its second look, and a refresh was
\* listed from what is known and fetched no earlier.
THEOREM LocationsOnlyMoveOn == KeysSpec => LocationNeverGoesBack
<1> DEFINE Onward == \A i \in Issuers : sources[i] # Nil =>
                       sources'[i] # Nil /\ sources'[i] >= sources[i]
<1>1. KeysInv /\ [KeysNext]_keysVars => [Onward]_keysVars
  <2> SUFFICES ASSUME KeysInv, KeysNext, NEW i \in Issuers, sources[i] # Nil
               PROVE  sources'[i] # Nil /\ sources'[i] >= sources[i]
    BY Zenon
  <2>1. /\ sources \in [Issuers -> Locations \cup {Nil}] /\ sources[i] \in Nat
        /\ refresh \in Refreshes /\ Refreshing
        /\ \A j \in Issuers : Dispatched(j)
    BY KeysTypes, KeysAssumption DEF KeysInv, Locations
  <2>2. ASSUME UNCHANGED sources PROVE sources'[i] # Nil /\ sources'[i] >= sources[i]
    BY <2>1, <2>2
  <2>3. ASSUME NEW j \in Issuers, StoreSource(j)
        PROVE  sources'[i] # Nil /\ sources'[i] >= sources[i]
    <3>1. i # j
      BY <2>1, <2>3, Zenon DEF StoreSource, Dispatched
    <3>2. sources'[i] = sources[i]
      BY <2>1, <2>3, <3>1, Zenon DEF StoreSource
    <3> QED
      BY <2>1, <3>2
  <2>4. ASSUME RefreshSwap PROVE sources'[i] # Nil /\ sources'[i] >= sources[i]
    <3>1. CASE refresh.at = i
      <4>1. sources'[i] = refresh.found
        BY <2>1, <2>4, <3>1, Zenon DEF RefreshSwap
      <4>2. /\ refresh.found # Nil /\ sources[i] <= refresh.found
            /\ refresh.found \in Nat
        BY <2>1, <2>4, <3>1, KeysAssumption DEF RefreshSwap, Refreshing, Refreshes, Locations
      <4> QED
        BY <2>1, <4>1, <4>2, Zenon
    <3>2. CASE refresh.at # i
      <4>1. sources'[i] = sources[i]
        BY <2>1, <2>4, <3>2, Zenon DEF RefreshSwap
      <4> QED
        BY <2>1, <4>1
    <3> QED
      BY <3>1, <3>2, Zenon
  <2> QED
    BY <2>2, <2>3, <2>4, Zenon DEF KeysNext, Handler, Present, Lookup, Join,
       Verify, Flight, Recheck, Discover, DiscoverFails, HangUp, Move, Flap,
       Refresher, RefreshStart, RefreshFetch, Elapse
<1> QED
  BY <1>1, KeysInvAlways, PTL DEF KeysSpec, LocationNeverGoesBack
=============================================================================
