-------------------------- MODULE ClientPlacement ---------------------------
(***************************************************************************)
(* `cellcast place` (internal/cli): the request to the hub, the declared   *)
(* stance for a hub that did not answer, the decision cache and the        *)
(* kubeconfig, over any sequence of runs on a shared runner.               *)
(*                                                                         *)
(* A job runs the command again and again with its own kubeconfig path;    *)
(* all jobs share one cache directory.  A run may be killed between any    *)
(* two file operations.  A cache entry carries its age: the code only      *)
(* compares the age, rounded to the second, with the cache lifetime, so    *)
(* ages beyond that are all alike.  The hub is what it answers.            *)
(***************************************************************************)
EXTENDS Integers, Refusal

CONSTANTS
  Jobs, Cells,
  Options,     \* what a run is asked: [workload, dark, dry, stance]
  CacheTTL,    \* --cache-ttl in clock units; 0 disables the cache
  Second,      \* clock units in a second
  Partial,     \* a kubeconfig that was not written to its end
  None

ASSUME ClockAssumption == CacheTTL \in Nat /\ Second \in Nat \ {0}

\* Older entries are past their lifetime whichever way they are rounded.
MaxAge == CacheTTL + (Second + 1) \div 2
Ages == 0..MaxAge

\* path: entries are filed by workload and darkness.
Key(o) == <<o.workload, o.dark>>
Keys == {Key(o) : o \in Options}

\* cachedDecision: the cell and the age by CachedAt, with two histories: what
\* the hub was asked for when it chose the cell, and how long ago it did.
Decision == [cell : Cells, age : Ages, for : Keys, since : Ages]

\* Why a placement failed: the hub's reason, no usable response at all, a
\* gateway or proxy answering for the hub, or an answer nobody can classify.
Outages == {"NoResponse", "Gateway"}
Causes == Reasons \cup Outages \cup {"Unclassified"}

VARIABLES
  run,         \* the command a job is running, or None
  result,      \* what a job's last command answered, None if it failed
  cache,       \* the decision filed under each key, or None
  kubeconfig   \* the cell of the credential in each job's file, or None

vars == <<run, result, cache, kubeconfig>>

Running ==
  [pc : {"asked", "save", "write", "create"}, opts : Options,
   decision : Decision \cup {None}]

\* Two histories: the hub had answered, and not with a failure to choose;
\* the cached decision was not the hub's for this request within its lifetime
\* and the half second that rounding allows.
Result ==
  [dry : BOOLEAN, source : {"hub", "cache", "pinned"}, cell : Cells,
   overruled : BOOLEAN, outlived : BOOLEAN]

ASSUME OptionsAssumption == \A o \in Options : o.dry \in BOOLEAN
ASSUME NoneAssumption ==
  None \notin Running /\ None \notin Decision /\ None \notin Causes

TypeOK ==
  /\ run \in [Jobs -> Running \cup {None}]
  /\ result \in [Jobs -> Result \cup {None}]
  /\ cache \in [Keys -> Decision \cup {None}]
  /\ kubeconfig \in [Jobs -> Cells \cup {None, Partial}]

Init ==
  /\ run = [j \in Jobs |-> None]
  /\ result = [j \in Jobs |-> None]
  /\ cache = [k \in Keys |-> None]
  /\ kubeconfig = [j \in Jobs |-> None]

-----------------------------------------------------------------------------
At(j, pc) == run[j] # None /\ run[j].pc = pc

Goto(j, pc) == run' = [run EXCEPT ![j].pc = pc] /\ UNCHANGED result

Fail(j) == run' = [run EXCEPT ![j] = None] /\ UNCHANGED result

Succeed(j, source, cell, cause, decision) ==
  /\ run' = [run EXCEPT ![j] = None]
  /\ result' = [result EXCEPT ![j] =
       [dry |-> run[j].opts.dry, source |-> source, cell |-> cell,
        overruled |-> cause \in (Causes \ Optimisation) \ Outages,
        outlived |-> decision # None
          /\ (\/ decision.for # Key(run[j].opts)
              \/ 2 * decision.since >= 2 * CacheTTL + Second)]]

\* os.Remove of a file that may not be there.
RemoveKubeconfig(j) == kubeconfig' = [kubeconfig EXCEPT ![j] = None]

\* runPlace: the stance is parsed, a client built and the hub asked.
Start(j, o) ==
  /\ run[j] = None
  /\ run' = [run EXCEPT ![j] =
       [pc |-> "asked", opts |-> o, decision |-> None]]
  /\ result' = [result EXCEPT ![j] = None]
  /\ UNCHANGED <<cache, kubeconfig>>

\* Client.Place returns a decision, which save dates.
Dated(j, cell) ==
  /\ At(j, "asked")
  /\ run' = [run EXCEPT ![j].pc = "save",
       ![j].decision = [cell |-> cell, age |-> 0,
                        for |-> Key(run[j].opts), since |-> 0]]
  /\ UNCHANGED <<result, kubeconfig>>

\* The answer, with save opening the entry itself for writing.
ReceiveInPlace(j, cell) ==
  /\ Dated(j, cell)
  /\ cache' = [cache EXCEPT ![Key(run[j].opts)] = None]

\* The hub's answer: save writes the decision to a temporary file.
Receive(j, cell) ==
  /\ Dated(j, cell)
  /\ UNCHANGED cache

\* save's rename, or a cache that is disabled or cannot be written, which
\* does not fail the placement; a dry run ends there.
Remember(j) ==
  LET q == run[j] IN
  /\ At(j, "save")
  /\ \/ /\ CacheTTL > 0
        /\ cache' = [cache EXCEPT ![Key(q.opts)] = q.decision]
     \/ UNCHANGED cache
  /\ IF q.opts.dry THEN Succeed(j, "hub", q.decision.cell, None, None)
     ELSE Goto(j, "write")
  /\ UNCHANGED kubeconfig

\* writeKubeconfig up to its Remove: no credential, or one whose authority
\* does not decode, or a file that cannot be removed, ends the run.
ReplaceKubeconfig(j) ==
  /\ At(j, "write")
  /\ \/ Fail(j) /\ UNCHANGED kubeconfig
     \/ RemoveKubeconfig(j) /\ Goto(j, "create")
  /\ UNCHANGED cache

\* The file is created and written: in full, in part or not at all.
CreateKubeconfig(j) ==
  LET cell == run[j].decision.cell IN
  /\ At(j, "create")
  /\ \/ /\ kubeconfig' = [kubeconfig EXCEPT ![j] = cell]
        /\ Succeed(j, "hub", cell, None, None)
     \/ kubeconfig' = [kubeconfig EXCEPT ![j] = Partial] /\ Fail(j)
     \/ UNCHANGED kubeconfig /\ Fail(j)
  /\ UNCHANGED cache

-----------------------------------------------------------------------------
(***************************************************************************)
(* The hub did not place the workload.                                     *)
(***************************************************************************)
\* fallbackAllowed for everything but a finding about the caller.
FallbackAllowedUnlessDenied(cause) ==
  cause \notin {"NoPolicy", "DarkNotPermitted", "NoPermittedCells"}

\* fallbackAllowed
FallbackAllowed(cause) == cause \in Optimisation \cup Outages

\* age: rounded to the nearest second, halves up.
Rounded(age) == Second * ((age + Second \div 2) \div Second)

\* load: a hit is an entry within its lifetime, in a cache that is enabled.
Load(k) ==
  IF CacheTTL > 0 /\ cache[k] # None /\ Rounded(cache[k].age) <= CacheTTL
  THEN {cache[k]} ELSE {}

\* A stance that answers: a decision from the cache, or the pinned cell.
Answers(j, cause) ==
  LET o == run[j].opts IN
  \/ /\ o.stance = "last-known"
     /\ \E d \in Load(Key(o)) : Succeed(j, "cache", d.cell, cause, d)
  \/ /\ o.stance \in Cells
     /\ Succeed(j, "pinned", o.stance, cause, None)

\* Whether a stance has an answer.
Falls(o) ==
  o.stance \in Cells \/ (o.stance = "last-known" /\ Load(Key(o)) # {})

\* fallback, leaving the kubeconfig an earlier run wrote.
FallbackKeepsKubeconfig(j, cause) ==
  /\ At(j, "asked") /\ FallbackAllowed(cause)
  /\ Answers(j, cause)
  /\ UNCHANGED <<cache, kubeconfig>>

\* fallback, remembering what it answered with.
FallbackRemembers(j, cause) ==
  LET k == Key(run[j].opts) IN
  /\ At(j, "asked") /\ FallbackAllowed(cause)
  /\ Answers(j, cause)
  /\ cache' = [cache EXCEPT ![k] = IF @ = None THEN @ ELSE [@ EXCEPT !.age = 0]]
  /\ RemoveKubeconfig(j)

\* Client.Place fails, and fallback: no stance, a failure it may not answer
\* or a cache miss fails the run; otherwise the stance answers once the
\* kubeconfig of an earlier run is gone, which a dry run leaves alone.  No
\* response may come of a hub that did decide: the answer was lost or late.
Fallback(j, cause) ==
  LET o == run[j].opts IN
  /\ At(j, "asked")
  /\ \/ /\ FallbackAllowed(cause) /\ Answers(j, cause)
        /\ IF o.dry THEN UNCHANGED kubeconfig ELSE RemoveKubeconfig(j)
     \/ /\ ~FallbackAllowed(cause) \/ ~Falls(o)
        /\ Fail(j) /\ UNCHANGED kubeconfig
  /\ UNCHANGED cache

-----------------------------------------------------------------------------
\* The runner kills the command, or a file it has to remove cannot be: what
\* it has done to the files stays.
Kill(j) ==
  /\ run[j] # None
  /\ Fail(j)
  /\ UNCHANGED <<cache, kubeconfig>>

Older(age) == IF age < MaxAge THEN age + 1 ELSE age
OlderDecision(d) ==
  IF d = None THEN None
  ELSE [d EXCEPT !.age = Older(@), !.since = Older(@)]

Tick ==
  /\ run' = [j \in Jobs |->
       IF run[j] = None THEN None
       ELSE [run[j] EXCEPT !.decision = OlderDecision(@)]]
  /\ cache' = [k \in Keys |-> OlderDecision(cache[k])]
  /\ UNCHANGED <<result, kubeconfig>>

Next ==
  \/ \E j \in Jobs, o \in Options : Start(j, o)
  \/ \E j \in Jobs, c \in Cells : Receive(j, c)
  \/ \E j \in Jobs : Remember(j)
  \/ \E j \in Jobs : ReplaceKubeconfig(j)
  \/ \E j \in Jobs : CreateKubeconfig(j)
  \/ \E j \in Jobs, cause \in Causes : Fallback(j, cause)
  \/ \E j \in Jobs : Kill(j)
  \/ Tick

Spec == Init /\ [][Next]_vars

-----------------------------------------------------------------------------
\* What a successful deploy leaves for the next step is its own: a kubeconfig
\* for the cell the hub chose, or, when a stance answered, no kubeconfig at
\* all, whatever earlier runs succeeded, failed half-way or were killed
\* (fallback's Remove, writeKubeconfig).
KubeconfigIsThisRuns ==
  \A j \in Jobs :
    (result[j] # None /\ ~result[j].dry)
      => kubeconfig[j] = IF result[j].source = "hub"
                         THEN result[j].cell ELSE None

\* A stance never gets past an answer the hub gave about the caller or the
\* credential, nor past one that cannot be classified: what it answers is a
\* hub that was not reached or could not choose (fallbackAllowed, ADR-006).
StanceAnswersOnlyOutages ==
  \A j \in Jobs : result[j] # None => ~result[j].overruled

\* A cached cell is one the hub itself chose for the same workload and
\* darkness no longer ago than the cache lifetime and the half second that
\* rounding allows: runs that fall back never prolong a decision (save, load,
\* and remember being called for fresh answers only).
CachedAnswerIsRecent ==
  \A j \in Jobs : result[j] # None => ~result[j].outlived

\* A decision once cached stays readable: a run killed while saving leaves the
\* previous entry (save writes a temporary file and renames it).
EntrySurvives ==
  [][\A k \in Keys : cache[k] # None => cache'[k] # None]_vars
=============================================================================
