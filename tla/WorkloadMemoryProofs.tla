------------------------ MODULE WorkloadMemoryProofs ------------------------
(***************************************************************************)
(* WorkloadMemory, for any number of workloads, cells, replicas and        *)
(* requests, any windows and any bounds.                                   *)
(*                                                                         *)
(* What the optimistic lock rests on: a copy of a record, in a cache, in a *)
(* request or in the sweep's list, that has the version of the stored      *)
(* object is the stored object.                                            *)
(***************************************************************************)
EXTENDS WorkloadMemory, TLAPS

\* rec is a copy that was made of w's object, now or earlier.
Copy(w, rec) ==
  rec # None =>
    /\ rec.version <= version[w] /\ rec.at <= now
    /\ store[w] # None /\ rec.version = version[w] => rec = store[w]

\* What a request has established by the time it is where it is.
Sound(q) ==
  /\ Copy(q.workload, q.memo)
  /\ q.pc # "mint" => <<q.workload, q.cell>> \in minted
  /\ q.verdict = "kept" => q.memo # None /\ q.memo.cell = q.cell
  /\ q.pc # "mint" => q.now <= now
  /\ q.pc = "update" =>
       /\ q.memo # None /\ q.memo.at <= q.now
       /\ q.memo.cell = q.cell => q.now - q.memo.at >= RefreshAfter

Stored ==
  \A w \in Workloads : store[w] # None =>
    /\ store[w].version = version[w] /\ store[w].at <= now
    /\ <<w, store[w].cell>> \in minted

Cached == \A r \in Replicas, w \in Workloads : Copy(w, cache[r][w])
Requested == \A h \in Handlers : requests[h] # None => Sound(requests[h])
Listed == \A item \in sweeping : Copy(item[1], item[2])

IInv == TypeOK /\ Stored /\ Cached /\ Requested /\ Listed

-----------------------------------------------------------------------------
\* What any step does to the objects and the clock: an object is left alone,
\* deleted, or written with a new version.
Evolves ==
  /\ now' >= now
  /\ \A w \in Workloads :
       \/ store'[w] = store[w] /\ version'[w] = version[w]
       \/ store'[w] = None /\ version'[w] = version[w]
       \/ version'[w] = version[w] + 1

\* A copy stays a copy.
LEMMA CopyKept ==
  ASSUME TypeOK, TypeOK', Evolves,
         NEW w \in Workloads, NEW rec \in Record \cup {None}, Copy(w, rec)
  PROVE  Copy(w, rec)'
<1>1. version[w] \in Nat /\ version'[w] \in Nat /\ now \in Nat /\ now' \in Nat
  BY WindowsAssumption DEF TypeOK
<1>2. rec # None => rec.version \in Nat /\ rec.at \in Nat
  BY WindowsAssumption DEF Record
<1> QED
  BY <1>1, <1>2 DEF Evolves, Copy

\* A request that is left alone stays sound.
LEMMA SoundKept ==
  ASSUME TypeOK, TypeOK', Evolves, minted \subseteq minted',
         NEW q \in InFlight, Sound(q)
  PROVE  Sound(q)'
<1>1. now \in Nat /\ now' \in Nat /\ q.now \in Nat /\ now' >= now
  BY WindowsAssumption DEF TypeOK, InFlight, Evolves
<1>2. Copy(q.workload, q.memo)'
  BY CopyKept, Zenon DEF Sound, InFlight
<1> QED
  BY <1>1, <1>2 DEF Sound

\* The object that Put writes.
LEMMA PutWrites ==
  ASSUME TypeOK, NEW w \in Workloads, NEW rec \in Record, Put(w, rec)
  PROVE  /\ version' \in [Workloads -> 0..MaxWrites]
         /\ store' \in [Workloads -> Record \cup {None}]
         /\ version'[w] = version[w] + 1
         /\ store'[w].version = version[w] + 1
         /\ store'[w].cell = rec.cell /\ store'[w].at = rec.at
         /\ \A v \in Workloads \ {w} :
              store'[v] = store[v] /\ version'[v] = version[v]
<1>1. version[w] + 1 \in 1..MaxWrites /\ version[w] + 1 \in 0..MaxWrites
  BY WindowsAssumption DEF TypeOK, Put
<1>2. [rec EXCEPT !.version = version[w] + 1] \in Record
  BY <1>1, Zenon DEF Record
<1>3. /\ [rec EXCEPT !.version = version[w] + 1].version = version[w] + 1
      /\ [rec EXCEPT !.version = version[w] + 1].cell = rec.cell
      /\ [rec EXCEPT !.version = version[w] + 1].at = rec.at
  BY Zenon DEF Record
<1> QED
  BY <1>1, <1>2, <1>3, Zenon DEF Put, TypeOK

\* What a step that changes nothing else leaves standing.
Monotone == TypeOK' /\ Evolves /\ minted \subseteq minted'

LEMMA Frame ==
  ASSUME IInv, Monotone
  PROVE  /\ UNCHANGED <<store, version>> => Stored'
         /\ (\E w \in Workloads : Remove(w)) => Stored'
         /\ cache' = cache => Cached'
         /\ sweeping' \subseteq sweeping => Listed'
         /\ \A h \in Handlers :
              requests[h] # None /\ requests'[h] = requests[h]
                => Sound(requests[h])'
<1>1. TypeOK /\ TypeOK' /\ Evolves /\ minted \subseteq minted'
  BY Zenon DEF IInv, Monotone
<1>2. ASSUME NEW w \in Workloads, store'[w] # None, store'[w] = store[w],
             version'[w] = version[w]
      PROVE  /\ store'[w].version = version'[w] /\ store'[w].at <= now'
             /\ <<w, store'[w].cell>> \in minted'
  <2>1. store[w] # None /\ store[w] \in Record
    BY <1>1, <1>2, Zenon DEF TypeOK
  <2>2. store[w].at \in Nat /\ now \in Nat /\ now' \in Nat /\ now' >= now
    BY <1>1, <2>1, WindowsAssumption DEF TypeOK, Record, Evolves
  <2> QED
    BY <1>1, <1>2, <2>1, <2>2 DEF IInv, Stored
<1>3. UNCHANGED <<store, version>> => Stored'
  BY <1>2, Zenon DEF Stored
<1>4. ASSUME NEW v \in Workloads, Remove(v) PROVE Stored'
  <2>1. \A w \in Workloads :
          store'[w] # None => store'[w] = store[w] /\ version'[w] = version[w]
    BY <1>1, <1>4, Zenon DEF Remove, TypeOK
  <2> QED
    BY <1>2, <2>1, Zenon DEF Stored
<1>5. ASSUME cache' = cache PROVE Cached'
  <2> SUFFICES ASSUME NEW r \in Replicas, NEW w \in Workloads
               PROVE  Copy(w, cache[r][w])'
    BY Zenon DEF Cached
  <2>1. cache[r][w] \in Record \cup {None} /\ cache'[r][w] = cache[r][w]
    BY <1>1, <1>5 DEF TypeOK
  <2>2. Copy(w, cache[r][w])
    BY Zenon DEF IInv, Cached
  <2> QED
    BY <1>1, <2>1, <2>2, CopyKept, Zenon DEF Copy
<1>6. ASSUME sweeping' \subseteq sweeping PROVE Listed'
  <2> SUFFICES ASSUME NEW item \in sweeping' PROVE Copy(item[1], item[2])'
    BY Zenon DEF Listed
  <2>1. item \in sweeping
    BY <1>6, Zenon
  <2>2. item[1] \in Workloads /\ item[2] \in Record
    BY <1>1, <2>1, Zenon DEF TypeOK
  <2>3. Copy(item[1], item[2])
    BY <2>1, Zenon DEF IInv, Listed
  <2> QED
    BY <1>1, <2>2, <2>3, CopyKept, Zenon
<1>7. ASSUME NEW h \in Handlers, requests[h] # None, requests'[h] = requests[h]
      PROVE  Sound(requests[h])'
  <2>1. requests[h] \in InFlight /\ Sound(requests[h])
    BY <1>1, <1>7, Zenon DEF TypeOK, IInv, Requested
  <2> DEFINE q == requests[h]
  <2>2. q' = q
    BY <1>7, Zenon
  <2> HIDE DEF q
  <2>3. q \in InFlight /\ Sound(q)
    BY <2>1, Zenon DEF q
  <2>4. \A p \in InFlight : Sound(p) => Sound(p)'
    BY <1>1, SoundKept, Zenon
  <2>5. Sound(q)'
    BY <2>2, <2>3, <2>4, Zenon DEF Sound, Copy
  <2> QED
    BY <2>5, Zenon DEF q
<1> QED
  BY <1>3, <1>4, <1>5, <1>6, <1>7, Zenon

-----------------------------------------------------------------------------
\* Only h's request changes, and it ends or is sound.
Advances(h) ==
  /\ requests' \in [Handlers -> InFlight \cup {None}]
  /\ \A g \in Handlers \ {h} : requests'[g] = requests[g]

LEMMA RequestsSound ==
  ASSUME IInv, Monotone, NEW h \in Handlers, Advances(h),
         requests'[h] # None => Sound(requests[h])'
  PROVE  Requested'
<1> SUFFICES ASSUME NEW g \in Handlers, requests'[g] # None
             PROVE  Sound(requests[g])'
  BY Zenon DEF Requested
<1>1. CASE g = h
  BY <1>1, Zenon
<1>2. CASE g # h
  BY <1>2, Frame, Zenon DEF Advances
<1> QED
  BY <1>1, <1>2, Zenon

LEMMA DoneAdvances ==
  ASSUME TypeOK, NEW h \in Handlers, Done(h)
  PROVE  Advances(h) /\ requests'[h] = None
BY Zenon DEF TypeOK, Done, Advances

LEMMA ToCreateAdvances ==
  ASSUME TypeOK, NEW h \in Handlers, requests[h] # None,
         NEW time \in 0..MaxNow, ToCreate(h, time)
  PROVE  /\ Advances(h)
         /\ requests'[h].pc = "count" /\ requests'[h].now = time
         /\ requests'[h].memo = None /\ requests'[h].verdict = "nothing"
         /\ requests'[h].workload = requests[h].workload
         /\ requests'[h].cell = requests[h].cell
<1>1. requests[h] \in InFlight
  BY Zenon DEF TypeOK
<1>2. PICK q \in InFlight : q = requests[h]
  BY <1>1, Zenon
<1> DEFINE new == [q EXCEPT !.pc = "count", !.now = time, !.memo = None,
                            !.verdict = "nothing"]
<1>3. requests' = [requests EXCEPT ![h] = new]
  BY <1>2, Zenon DEF ToCreate, TypeOK
<1>4. new \in InFlight
  BY <1>2, Zenon DEF InFlight, Verdicts
<1>5. /\ new.pc = "count" /\ new.now = time /\ new.memo = None
      /\ new.verdict = "nothing"
      /\ new.workload = q.workload /\ new.cell = q.cell
  BY <1>2, Zenon DEF InFlight
<1> HIDE DEF new
<1>6. requests'[h] = new
  BY <1>3, Zenon DEF TypeOK
<1> QED
  BY <1>2, <1>3, <1>4, <1>5, <1>6, Zenon DEF TypeOK, Advances

\* A step of a request that writes no object and leaves the environment alone.
LEMMA QuietStep ==
  ASSUME IInv, NEW h \in Handlers, Advances(h),
         UNCHANGED <<Environment, Objects, sweeping>>,
         minted \subseteq minted', minted' \subseteq Workloads \X Cells,
         requests'[h] # None => Sound(requests[h])'
  PROVE  IInv'
<1>1. TypeOK'
  BY Zenon DEF IInv, TypeOK, Advances, Environment, Objects
<1>2. Evolves
  BY WindowsAssumption DEF IInv, TypeOK, Evolves, Environment, Objects
<1>3. Monotone
  BY <1>1, <1>2, Zenon DEF Monotone
<1>4. Stored' /\ Cached' /\ Listed'
  BY <1>3, Frame, Zenon DEF Environment, Objects
<1>5. Requested'
  BY <1>3, RequestsSound, Zenon
<1> QED
  BY <1>1, <1>4, <1>5, Zenon DEF IInv

LEMMA DecideStep ==
  ASSUME IInv, NEW h \in Handlers, NEW r \in Replicas, NEW w \in Workloads,
         NEW admitted \in SUBSET Cells, Decide(h, r, w, admitted)
  PROVE  IInv'
<1>1. PICK rec \in Recall(r, w) : \E cell \in Chosen(rec, admitted) :
        requests' = [requests EXCEPT ![h] =
          [pc |-> "mint", replica |-> r, workload |-> w, memo |-> rec,
           uid |-> policies[r], verdict |-> Verdict(rec, admitted),
           cell |-> cell, now |-> 0]]
  BY Zenon DEF Decide
<1>2. PICK cell \in Chosen(rec, admitted) :
        requests' = [requests EXCEPT ![h] =
          [pc |-> "mint", replica |-> r, workload |-> w, memo |-> rec,
           uid |-> policies[r], verdict |-> Verdict(rec, admitted),
           cell |-> cell, now |-> 0]]
  BY <1>1, Zenon
<1> DEFINE verdict == Verdict(rec, admitted)
           new == [pc |-> "mint", replica |-> r, workload |-> w, memo |-> rec,
                   uid |-> policies[r], verdict |-> verdict,
                   cell |-> cell, now |-> 0]
<1>3. rec \in Record \cup {None} /\ Copy(w, rec)
  <2>1. rec = None \/ rec = cache[r][w]
    BY <1>1, Zenon DEF Recall
  <2> QED
    BY <2>1 DEF IInv, TypeOK, Cached, Copy
<1>4. /\ verdict \in Verdicts
      /\ verdict = "kept" => rec # None /\ rec.cell = cell
      /\ cell \in Cells
  <2>1. verdict = "kept" => rec # None /\ rec.cell \in admitted
    BY Zenon DEF Verdict
  <2> QED
    BY <1>2, <2>1, Zenon DEF Verdict, Verdicts, Chosen
<1>5. policies[r] \in 1..MaxUID
  BY WindowsAssumption DEF Decide, IInv, TypeOK
<1> HIDE DEF verdict
<1>6. new \in InFlight
  <2>1. 0 \in 0..MaxNow
    BY WindowsAssumption
  <2> QED
    BY <1>3, <1>4, <1>5, <2>1, Zenon DEF InFlight
<1>7. requests' = [requests EXCEPT ![h] = new]
  BY <1>2, Zenon DEF verdict
<1>8. /\ new.pc = "mint" /\ new.workload = w /\ new.memo = rec
      /\ new.verdict = verdict /\ new.cell = cell
  BY Zenon
<1> HIDE DEF new
<1>9. Advances(h) /\ requests'[h] = new
  BY <1>6, <1>7, Zenon DEF Advances, IInv, TypeOK
<1>10. UNCHANGED <<Environment, Objects, sweeping, minted>>
  BY Zenon DEF Decide
<1>11. Sound(requests[h])'
  <2>1. Copy(w, rec)'
    BY <1>3, <1>10, Zenon DEF Copy, Environment, Objects
  <2> QED
    BY <1>4, <1>8, <1>9, <2>1, Zenon DEF Sound, Copy
<1> QED
  BY <1>9, <1>10, <1>11, QuietStep, Zenon DEF IInv, TypeOK

LEMMA AbandonStep ==
  ASSUME IInv, NEW h \in Handlers, Abandon(h)
  PROVE  IInv'
BY DoneAdvances, QuietStep, Zenon DEF Abandon, IInv, TypeOK

LEMMA RememberStep ==
  ASSUME IInv, NEW h \in Handlers, Remember(h)
  PROVE  IInv'
<1>1. PICK q \in InFlight : q = requests[h]
  BY Zenon DEF Remember, IInv, TypeOK
<1>2. /\ q # None /\ q.pc = "mint" /\ Sound(q) /\ Branch(h)
      /\ minted' = minted \cup {<<q.workload, q.cell>>}
      /\ UNCHANGED <<Environment, Objects, sweeping>>
  BY <1>1, Zenon DEF Remember, IInv, Requested
<1>3. q.workload \in Workloads /\ q.cell \in Cells /\ q.memo \in Record \cup {None}
  BY Zenon DEF InFlight
<1>4. minted \subseteq minted' /\ minted' \subseteq Workloads \X Cells
  BY <1>2, <1>3 DEF IInv, TypeOK
<1>5. now \in 0..MaxNow /\ now' = now /\ now \in Nat
  BY <1>2 DEF IInv, TypeOK, Environment
<1>6. Copy(q.workload, q.memo)'
  BY <1>2, Zenon DEF Sound, Copy, Environment, Objects
<1>7. Advances(h) /\ (requests'[h] # None => Sound(requests[h])')
  <2>1. CASE q.memo = None
    <3>1. ToCreate(h, now)
      BY <1>1, <1>2, <2>1, Zenon DEF Branch
    <3>2. /\ Advances(h)
          /\ requests'[h].pc = "count" /\ requests'[h].now = now
          /\ requests'[h].memo = None /\ requests'[h].verdict = "nothing"
          /\ requests'[h].workload = q.workload
          /\ requests'[h].cell = q.cell
      BY <1>1, <1>2, <1>5, <3>1, ToCreateAdvances, Zenon DEF IInv
    <3> QED
      BY <1>2, <1>5, <3>2 DEF Sound, Copy
  <2>2. CASE /\ q.memo # None
             /\ q.memo.cell = q.cell /\ now - q.memo.at < RefreshAfter
    <3>1. Done(h)
      BY <1>1, <1>2, <2>2, Zenon DEF Branch
    <3> QED
      BY <3>1, DoneAdvances, Zenon DEF IInv
  <2>3. CASE /\ q.memo # None
             /\ ~(q.memo.cell = q.cell /\ now - q.memo.at < RefreshAfter)
    <3> DEFINE new == [q EXCEPT !.pc = "update", !.now = now]
    <3>1. requests' = [requests EXCEPT ![h] = new]
      BY <1>1, <1>2, <2>3, Zenon DEF Branch, IInv, TypeOK
    <3>2. new \in InFlight
      BY <1>5, Zenon DEF InFlight
    <3>3. /\ new.pc = "update" /\ new.now = now /\ new.memo = q.memo
          /\ new.verdict = q.verdict /\ new.workload = q.workload
          /\ new.cell = q.cell
      BY Zenon DEF InFlight
    <3> HIDE DEF new
    <3>4. Advances(h) /\ requests'[h] = new
      BY <3>1, <3>2, Zenon DEF Advances, IInv, TypeOK
    <3>5. q.memo.at \in Nat /\ q.memo.at <= now
      BY <1>2, <1>3, <2>3, WindowsAssumption DEF Sound, Copy, Record
    <3>6. q.memo.cell = q.cell => now - q.memo.at >= RefreshAfter
      BY <1>5, <2>3, <3>5, WindowsAssumption
    <3>7. /\ q.verdict = "kept" => q.memo # None /\ q.memo.cell = q.cell
          /\ <<q.workload, q.cell>> \in minted'
      BY <1>2, Zenon DEF Sound
    <3> QED
      BY <1>5, <1>6, <2>3, <3>3, <3>4, <3>5, <3>6, <3>7 DEF Sound, Copy
  <2> QED
    BY <2>1, <2>2, <2>3, Zenon
<1> QED
  BY <1>2, <1>4, <1>7, QuietStep, Zenon

LEMMA CountStep ==
  ASSUME IInv, NEW h \in Handlers, Count(h)
  PROVE  IInv'
<1>1. PICK q \in InFlight : q = requests[h]
  BY Zenon DEF Count, IInv, TypeOK
<1>2. /\ q # None /\ q.pc = "count" /\ Sound(q)
      /\ UNCHANGED <<Environment, Objects, sweeping, minted>>
  BY <1>1, Zenon DEF Count, IInv, Requested
<1>3. CASE Done(h)
  BY <1>2, <1>3, DoneAdvances, QuietStep, Zenon DEF IInv, TypeOK
<1>4. CASE requests' = [requests EXCEPT ![h].pc = "create"]
  <2> DEFINE new == [q EXCEPT !.pc = "create"]
  <2>1. requests' = [requests EXCEPT ![h] = new]
    BY <1>1, <1>4, Zenon DEF IInv, TypeOK
  <2>2. new \in InFlight
    BY Zenon DEF InFlight
  <2>3. /\ new.pc = "create" /\ new.now = q.now /\ new.memo = q.memo
        /\ new.verdict = q.verdict /\ new.workload = q.workload
        /\ new.cell = q.cell
    BY Zenon DEF InFlight
  <2> HIDE DEF new
  <2>4. Advances(h) /\ requests'[h] = new
    BY <2>1, <2>2, Zenon DEF Advances, IInv, TypeOK
  <2>5. Sound(requests[h])'
    BY <1>2, <2>3, <2>4, Zenon DEF Sound, Copy, Environment, Objects
  <2> QED
    BY <1>2, <2>4, <2>5, QuietStep, Zenon DEF IInv, TypeOK
<1> QED
  BY <1>3, <1>4, Zenon DEF Count

\* A request ends with its write.
LEMMA WriteStep ==
  ASSUME IInv, NEW h \in Handlers, NEW w \in Workloads, NEW rec \in Record,
         Put(w, rec), Done(h), <<w, rec.cell>> \in minted, rec.at <= now,
         UNCHANGED <<Environment, sweeping, minted>>
  PROVE  IInv'
<1>1. /\ version' \in [Workloads -> 0..MaxWrites]
      /\ store' \in [Workloads -> Record \cup {None}]
      /\ version'[w] = version[w] + 1
      /\ store'[w].version = version[w] + 1
      /\ store'[w].cell = rec.cell /\ store'[w].at = rec.at
      /\ \A v \in Workloads \ {w} :
           store'[v] = store[v] /\ version'[v] = version[v]
  BY PutWrites, Zenon DEF IInv
<1>2. Advances(h) /\ requests'[h] = None
  BY DoneAdvances, Zenon DEF IInv
<1>3. TypeOK'
  BY <1>1, <1>2, Zenon DEF IInv, TypeOK, Advances, Environment
<1>4. Evolves
  BY <1>1, WindowsAssumption DEF IInv, TypeOK, Evolves, Environment
<1>5. Monotone
  BY <1>3, <1>4, Zenon DEF Monotone
<1>6. Cached' /\ Listed'
  BY <1>5, Frame, Zenon DEF Environment
<1>7. Requested'
  BY <1>2, <1>5, RequestsSound, Zenon
<1>8. Stored'
  <2> SUFFICES ASSUME NEW v \in Workloads, store'[v] # None
               PROVE  /\ store'[v].version = version'[v]
                      /\ store'[v].at <= now'
                      /\ <<v, store'[v].cell>> \in minted'
    BY Zenon DEF Stored
  <2>1. CASE v = w
    BY <1>1, <2>1, Zenon DEF Environment
  <2>2. CASE v # w
    BY <1>1, <2>2, Zenon DEF IInv, Stored, Environment
  <2> QED
    BY <2>1, <2>2, Zenon
<1> QED
  BY <1>3, <1>6, <1>7, <1>8, Zenon DEF IInv

LEMMA CreateStep ==
  ASSUME IInv, NEW h \in Handlers, Create(h)
  PROVE  IInv'
<1>1. PICK q \in InFlight : q = requests[h]
  BY Zenon DEF Create, IInv, TypeOK
<1>2. /\ q # None /\ q.pc = "create" /\ Sound(q) /\ Done(h)
      /\ UNCHANGED <<Environment, sweeping, minted>>
  BY <1>1, Zenon DEF Create, IInv, Requested
<1>3. CASE store[q.workload] # None
  BY <1>1, <1>2, <1>3, DoneAdvances, QuietStep, Zenon DEF Create, IInv, TypeOK
<1>4. CASE store[q.workload] = None
  <2> DEFINE rec == [cell |-> q.cell, at |-> q.now, owner |-> q.uid,
                     version |-> 1]
  <2>1. Put(q.workload, rec)
    BY <1>1, <1>4, Zenon DEF Create
  <2>2. 1 \in 1..MaxWrites
    <3>1. version[q.workload] \in Nat
      BY <1>1, WindowsAssumption DEF InFlight, IInv, TypeOK
    <3> QED
      BY <2>1, <3>1, WindowsAssumption DEF Put
  <2>3. rec \in Record
    BY <1>1, <2>2, Zenon DEF InFlight, Record
  <2>4. q.workload \in Workloads
    BY Zenon DEF InFlight
  <2>5. <<q.workload, rec.cell>> \in minted /\ rec.at <= now
    BY <1>2, Zenon DEF Sound
  <2> HIDE DEF rec
  <2> QED
    BY <1>2, <2>1, <2>3, <2>4, <2>5, WriteStep, Zenon
<1> QED
  BY <1>3, <1>4, Zenon

\* The record an update writes over is the one its request read.
LEMMA UpdateReplacesWhatWasRead ==
  ASSUME IInv, NEW h \in Handlers, requests[h] # None,
         requests[h].pc = "update", store[requests[h].workload] # None,
         store[requests[h].workload].version = requests[h].memo.version
  PROVE  requests[h].memo = store[requests[h].workload]
<1>1. requests[h].workload \in Workloads /\ Sound(requests[h])
  BY Zenon DEF IInv, TypeOK, InFlight, Requested
<1> QED
  BY <1>1, Zenon DEF Sound, Copy, IInv, Stored

LEMMA UpdateStep ==
  ASSUME IInv, NEW h \in Handlers, Update(h)
  PROVE  IInv'
<1>1. PICK q \in InFlight : q = requests[h]
  BY Zenon DEF Update, IInv, TypeOK
<1>2. /\ q # None /\ q.pc = "update" /\ Sound(q)
      /\ UNCHANGED <<Environment, sweeping, minted>>
  BY <1>1, Zenon DEF Update, IInv, Requested
<1>3. CASE store[q.workload] = None
  <2>1. ToCreate(h, q.now) /\ UNCHANGED Objects
    BY <1>1, <1>3, Zenon DEF Update
  <2>2. q.now \in 0..MaxNow
    BY Zenon DEF InFlight
  <2>3. /\ Advances(h)
        /\ requests'[h].pc = "count" /\ requests'[h].now = q.now
        /\ requests'[h].memo = None /\ requests'[h].verdict = "nothing"
        /\ requests'[h].workload = q.workload
        /\ requests'[h].cell = q.cell
    BY <1>1, <1>2, <2>1, <2>2, ToCreateAdvances, Zenon DEF IInv
  <2>4. Sound(requests[h])'
    BY <1>2, <2>3, Zenon DEF Sound, Copy, Environment
  <2> QED
    BY <1>2, <2>1, <2>3, <2>4, QuietStep, Zenon DEF IInv, TypeOK
<1>4. CASE /\ store[q.workload] # None
           /\ store[q.workload].version # q.memo.version
  BY <1>1, <1>2, <1>4, DoneAdvances, QuietStep, Zenon DEF Update, IInv, TypeOK
<1>5. CASE /\ store[q.workload] # None
           /\ store[q.workload].version = q.memo.version
  <2> DEFINE rec == [q.memo EXCEPT !.cell = q.cell, !.at = q.now]
  <2>1. Put(q.workload, rec) /\ Done(h)
    BY <1>1, <1>5, Zenon DEF Update
  <2>2. q.memo \in Record
    BY <1>2, Zenon DEF Sound, InFlight
  <2>3. /\ rec \in Record /\ rec.cell = q.cell /\ rec.at = q.now
        /\ q.workload \in Workloads
    BY <2>2, Zenon DEF InFlight, Record
  <2>4. <<q.workload, rec.cell>> \in minted /\ rec.at <= now
    BY <1>2, <2>3, Zenon DEF Sound
  <2> HIDE DEF rec
  <2> QED
    BY <1>2, <2>1, <2>3, <2>4, WriteStep, Zenon
<1> QED
  BY <1>3, <1>4, <1>5, Zenon

-----------------------------------------------------------------------------
\* A step that leaves requests and minted alone, and what it needs.
LEMMA OtherStep ==
  ASSUME IInv, TypeOK', Evolves, UNCHANGED <<requests, minted>>,
         Stored', Cached', Listed'
  PROVE  IInv'
<1>1. Monotone
  BY Zenon DEF Monotone
<1>2. Requested'
  <2> SUFFICES ASSUME NEW h \in Handlers, requests'[h] # None
               PROVE  Sound(requests[h])'
    BY Zenon DEF Requested
  <2> QED
    BY <1>1, Frame, Zenon
<1> QED
  BY <1>2, Zenon DEF IInv

LEMMA SweepListStep ==
  ASSUME IInv, NEW r \in Replicas, SweepList(r)
  PROVE  IInv'
<1>1. \A item \in sweeping' : \E w \in Workloads :
        item = <<w, cache[r][w]>> /\ cache[r][w] # None
  BY Zenon DEF SweepList, Unheld
<1>2. UNCHANGED <<now, policy, policies, cache, store, version, requests, minted>>
  BY Zenon DEF SweepList, Environment, Objects
<1>3. TypeOK'
  <2>1. sweeping' \in SUBSET (Workloads \X Record)
    BY <1>1 DEF IInv, TypeOK
  <2> QED
    BY <1>2, <2>1, Zenon DEF IInv, TypeOK
<1>4. Evolves
  BY <1>2, WindowsAssumption DEF Evolves, IInv, TypeOK
<1>5. Listed'
  <2> SUFFICES ASSUME NEW item \in sweeping' PROVE Copy(item[1], item[2])'
    BY Zenon DEF Listed
  <2>1. PICK w \in Workloads : item = <<w, cache[r][w]>> /\ cache[r][w] # None
    BY <1>1, Zenon
  <2>2. Copy(w, cache[r][w])
    BY Zenon DEF IInv, Cached
  <2> QED
    BY <1>2, <2>1, <2>2, Zenon DEF Copy
<1>6. Stored' /\ Cached'
  BY <1>2, <1>3, <1>4, Frame, Zenon DEF Monotone
<1> QED
  BY <1>2, <1>3, <1>4, <1>5, <1>6, OtherStep, Zenon

LEMMA SyncStep ==
  ASSUME IInv, NEW r \in Replicas, Sync(r)
  PROVE  IInv'
<1>1. UNCHANGED <<now, policy, policies, store, version, requests, sweeping,
                  minted>>
  BY Zenon DEF Sync, Objects
<1>2. TypeOK'
  BY <1>1, Zenon DEF Sync, IInv, TypeOK
<1>3. Evolves
  BY <1>1, WindowsAssumption DEF Evolves, IInv, TypeOK
<1>4. Stored' /\ Listed'
  BY <1>1, <1>2, <1>3, Frame, Zenon DEF Monotone
<1>5. Cached'
  <2> SUFFICES ASSUME NEW p \in Replicas, NEW w \in Workloads
               PROVE  Copy(w, cache[p][w])'
    BY Zenon DEF Cached
  <2>1. CASE p = r
    <3>1. cache'[p][w] = store[w]
      BY <2>1, Zenon DEF Sync, IInv, TypeOK
    <3>2. store[w] # None =>
            store[w].version = version[w] /\ store[w].at <= now
      BY Zenon DEF IInv, Stored
    <3>3. version[w] \in Nat
      BY WindowsAssumption DEF IInv, TypeOK
    <3> QED
      BY <1>1, <3>1, <3>2, <3>3 DEF Copy
  <2>2. CASE p # r
    <3>1. cache'[p][w] = cache[p][w]
      BY <2>2, Zenon DEF Sync, IInv, TypeOK
    <3> QED
      BY <1>1, <3>1, Zenon DEF IInv, Cached, Copy
  <2> QED
    BY <2>1, <2>2, Zenon
<1> QED
  BY <1>1, <1>2, <1>3, <1>4, <1>5, OtherStep, Zenon

\* An object is deleted, whoever does it.
LEMMA RemoveStep ==
  ASSUME IInv, NEW w \in Workloads, Remove(w), sweeping' \subseteq sweeping,
         UNCHANGED <<Environment, requests, minted>>
  PROVE  IInv'
<1>1. TypeOK'
  BY Zenon DEF Remove, Environment, IInv, TypeOK
<1>2. Evolves
  BY WindowsAssumption DEF Remove, Evolves, Environment, IInv, TypeOK
<1>3. Stored' /\ Cached' /\ Listed'
  BY <1>1, <1>2, Frame, Zenon DEF Monotone, Environment
<1> QED
  BY <1>1, <1>2, <1>3, OtherStep, Zenon

\* No object changes; the clock, the policy, the cached policies and the
\* sweep's list may.
LEMMA IdleStep ==
  ASSUME IInv, TypeOK', now' >= now, sweeping' \subseteq sweeping,
         UNCHANGED <<Objects, cache, requests, minted>>
  PROVE  IInv'
<1>1. Evolves
  BY Zenon DEF Evolves, Objects
<1>2. Stored' /\ Cached' /\ Listed'
  BY <1>1, Frame, Zenon DEF Monotone, Objects
<1> QED
  BY <1>1, <1>2, OtherStep, Zenon

LEMMA InitIInv == Init => IInv
BY WindowsAssumption
   DEF Init, IInv, TypeOK, Stored, Cached, Requested, Listed, Copy

\* The record the sweep deletes is the one it listed.
LEMMA SweepDeletesWhatWasListed ==
  ASSUME IInv, NEW item \in sweeping, store[item[1]] # None,
         store[item[1]].version = item[2].version
  PROVE  item[1] \in Workloads /\ item[2] = store[item[1]]
<1>1. item[1] \in Workloads /\ item[2] \in Record /\ Copy(item[1], item[2])
  BY Zenon DEF IInv, TypeOK, Listed
<1>2. item[2] # None
  BY <1>1, NoneAssumption, Zenon
<1> QED
  BY <1>1, <1>2, Zenon DEF Copy, IInv, Stored

LEMMA SweepRecordStep ==
  ASSUME IInv, NEW item \in sweeping, SweepRecord(item[1], item[2])
  PROVE  IInv'
<1>1. /\ UNCHANGED <<Environment, requests, minted>>
      /\ sweeping' \subseteq sweeping
  BY Zenon DEF SweepRecord
<1>2. CASE Remove(item[1])
  <2>1. item[1] \in Workloads
    BY Zenon DEF IInv, TypeOK
  <2> QED
    BY <1>1, <1>2, <2>1, RemoveStep, Zenon
<1>3. CASE UNCHANGED Objects
  <2>1. TypeOK' /\ now' >= now
    BY <1>1, <1>3, WindowsAssumption DEF IInv, TypeOK, Environment, Objects
  <2> QED
    BY <1>1, <1>3, <2>1, IdleStep, Zenon DEF Environment
<1> QED
  BY <1>2, <1>3, Zenon DEF SweepRecord

LEMMA NextIInv == IInv /\ [Next]_vars => IInv'
<1> SUFFICES ASSUME IInv, [Next]_vars PROVE IInv'
  BY Zenon
<1>1. ASSUME NEW h \in Handlers, Request(h) PROVE IInv'
  BY <1>1, DecideStep, AbandonStep, RememberStep, UpdateStep, CountStep,
     CreateStep, Zenon DEF Request
<1>2. ASSUME NEW r \in Replicas, SweepList(r) PROVE IInv'
  BY <1>2, SweepListStep, Zenon
<1>3. ASSUME NEW r \in Replicas, Sync(r) PROVE IInv'
  BY <1>3, SyncStep, Zenon
<1>4. ASSUME NEW r \in Replicas, SyncPolicy(r) PROVE IInv'
  <2>1. TypeOK' /\ now' >= now
    <3>1. (IF policy.exists THEN policy.uid ELSE 0) \in 0..MaxUID
      BY WindowsAssumption DEF IInv, TypeOK
    <3> QED
      BY <1>4, <3>1, WindowsAssumption DEF SyncPolicy, Objects, IInv, TypeOK
  <2> QED
    BY <1>4, <2>1, IdleStep, Zenon DEF SyncPolicy
<1>5. ASSUME NEW item \in sweeping, SweepRecord(item[1], item[2]) PROVE IInv'
  BY <1>5, SweepRecordStep, Zenon
<1>6. ASSUME NEW w \in Workloads, DeleteRecord(w) \/ Collect(w) PROVE IInv'
  BY <1>6, RemoveStep, Zenon DEF DeleteRecord, Collect
<1>7. CASE DeletePolicy
  <2>1. TypeOK' /\ now' >= now
    <3>1. policy' \in [uid : 1..MaxUID, exists : BOOLEAN]
      BY <1>7, Zenon DEF DeletePolicy, IInv, TypeOK
    <3> QED
      BY <1>7, <3>1, WindowsAssumption DEF DeletePolicy, Objects, IInv, TypeOK
  <2> QED
    BY <1>7, <2>1, IdleStep, Zenon DEF DeletePolicy
<1>8. CASE CreatePolicy
  <2>1. TypeOK' /\ now' >= now
    <3>1. policy.uid + 1 \in 1..MaxUID
      BY <1>8, WindowsAssumption DEF CreatePolicy, IInv, TypeOK
    <3> QED
      BY <1>8, <3>1, WindowsAssumption DEF CreatePolicy, Objects, IInv, TypeOK
  <2> QED
    BY <1>8, <2>1, IdleStep, Zenon DEF CreatePolicy
<1>9. CASE Tick
  <2>1. TypeOK' /\ now' >= now
    BY <1>9, WindowsAssumption DEF Tick, Objects, IInv, TypeOK
  <2> QED
    BY <1>9, <2>1, IdleStep, Zenon DEF Tick
<1>10. CASE UNCHANGED vars
  <2>1. TypeOK' /\ now' >= now
    BY <1>10, WindowsAssumption DEF vars, IInv, TypeOK
  <2> QED
    BY <1>10, <2>1, IdleStep, Zenon DEF vars, Objects
<1> QED
  BY <1>1, <1>2, <1>3, <1>4, <1>5, <1>6, <1>7, <1>8, <1>9, <1>10, Zenon
     DEF Next

-----------------------------------------------------------------------------
\* Whatever replicas, requests and the sweep do between each other's reads
\* and writes, only a cell that has issued a credential for a workload is
\* recorded for it.
THEOREM OnlyMintedIsRemembered == Spec => []RememberedWasMinted
<1>1. IInv => RememberedWasMinted
  BY Zenon DEF IInv, Stored, RememberedWasMinted
<1> QED
  BY InitIInv, NextIInv, <1>1, PTL DEF Spec

\* The sweep never deletes a record that has not expired, for any interleaving
\* with the placements that refresh it.
THEOREM SweepIsSafe == Spec => SweepTakesOnlyExpired
<1> DEFINE Taken ==
      \A w \in Workloads :
        (sweeping' # sweeping /\ store[w] # None /\ store'[w] = None)
          => ~Live(store[w])
<1>1. ASSUME IInv, [Next]_vars, sweeping' # sweeping PROVE Taken
  <2> SUFFICES ASSUME NEW w \in Workloads, store[w] # None, store'[w] = None
               PROVE  ~Live(store[w])
    BY Zenon
  <2>1. PICK item \in sweeping : SweepRecord(item[1], item[2])
    BY <1>1, Zenon DEF Next, Request, vars, Decide, Abandon, Remember, Update,
       Count, Create, SweepList, Sync, SyncPolicy, DeleteRecord, Collect,
       DeletePolicy, CreatePolicy, Tick, Objects
  <2>2. /\ ~Live(item[2]) /\ store[item[1]] # None
        /\ store[item[1]].version = item[2].version /\ Remove(item[1])
    BY <2>1, Zenon DEF SweepRecord, Objects
  <2>3. item[1] = w
    BY <2>2 DEF Remove, IInv, TypeOK
  <2> QED
    BY <1>1, <2>2, <2>3, SweepDeletesWhatWasListed, Zenon
<1>2. IInv /\ [Next]_vars => [Taken]_vars
  BY <1>1, Zenon
<1> QED
  BY InitIInv, NextIInv, <1>2, PTL DEF Spec, SweepTakesOnlyExpired

\* The objects after a step: a rewritten one was updated by a request that
\* had read it, and whose new record differs in its cell or its date.
LEMMA RewrittenByUpdate ==
  ASSUME IInv, [Next]_vars, NEW w \in Workloads, store[w] # None,
         store'[w] # None, store'[w] # store[w]
  PROVE  \E h \in Handlers :
           /\ requests[h] # None /\ requests[h].pc = "update"
           /\ requests[h].memo = store[w] /\ requests[h].workload = w
           /\ store'[w].cell = requests[h].cell
           /\ store'[w].at = requests[h].now
<1>1. PICK h \in Handlers : Update(h) \/ Create(h)
  <2>1. ~UNCHANGED store
    BY Zenon
  <2>2. \A v \in Workloads : ~Remove(v)
    BY Zenon DEF Remove, IInv, TypeOK
  <2>3. ASSUME NEW item \in sweeping, SweepRecord(item[1], item[2]) PROVE FALSE
    <3>1. item[1] \in Workloads
      BY Zenon DEF IInv, TypeOK
    <3> QED
      BY <2>1, <2>2, <2>3, <3>1, Zenon DEF SweepRecord, Objects
  <2> QED
    BY <2>1, <2>2, <2>3, Zenon DEF Next, Request, vars, Decide, Abandon,
       Remember, Count, SweepList, Sync, SyncPolicy, DeleteRecord, Collect,
       DeletePolicy, CreatePolicy, Tick, Objects
<1>2. PICK q \in InFlight : q = requests[h] /\ q # None
  BY <1>1, Zenon DEF Update, Create, IInv, TypeOK
<1>3. q.workload \in Workloads /\ Sound(q)
  BY <1>2, Zenon DEF InFlight, IInv, Requested
<1>4. ~Create(h)
  <2> SUFFICES ASSUME Create(h) PROVE FALSE
    BY Zenon
  <2>1. store[q.workload] = None /\ \E rec : Put(q.workload, rec)
    BY <1>2, Zenon DEF Create, Objects
  <2> QED
    BY <1>3, <2>1, Zenon DEF Put, IInv, TypeOK
<1>5. /\ q.pc = "update" /\ store[q.workload] # None
      /\ store[q.workload].version = q.memo.version
      /\ Put(q.workload, [q.memo EXCEPT !.cell = q.cell, !.at = q.now])
  BY <1>1, <1>2, <1>4, Zenon DEF Update, Objects
<1>6. q.workload = w
  BY <1>3, <1>5, Zenon DEF Put, IInv, TypeOK
<1>7. q.memo = store[w]
  BY <1>2, <1>5, <1>6, UpdateReplacesWhatWasRead, Zenon
<1>8. q.memo \in Record
  BY <1>3, <1>5, Zenon DEF Sound, InFlight
<1> DEFINE rec == [q.memo EXCEPT !.cell = q.cell, !.at = q.now]
<1>9. rec \in Record /\ rec.cell = q.cell /\ rec.at = q.now
  BY <1>8, Zenon DEF Record, InFlight
<1>10. Put(w, rec)
  BY <1>5, <1>6, Zenon
<1> HIDE DEF rec
<1>11. store'[w].cell = q.cell /\ store'[w].at = q.now
  BY <1>9, <1>10, PutWrites, Zenon DEF IInv
<1> QED
  BY <1>2, <1>5, <1>6, <1>7, <1>11, Zenon

\* A record is rewritten only for a cause, by any number of replicas and
\* through caches that lag however far: it moves only when a placement that
\* had read this very version could not keep its cell, and otherwise changes
\* at most once a refresh interval.
THEOREM RewritesHaveCause == Spec => RewriteHasCause
<1> DEFINE Caused ==
      \A w \in Workloads :
       (store[w] # None /\ store'[w] # None /\ store'[w] # store[w])
         => /\ store'[w].at >= store[w].at
            /\ IF store'[w].cell = store[w].cell
               THEN store'[w].at - store[w].at >= RefreshAfter
               ELSE \E h \in Handlers :
                      /\ requests[h] # None /\ requests[h].memo = store[w]
                      /\ requests[h].verdict # "kept"
<1>1. ASSUME IInv, [Next]_vars PROVE Caused
  <2> SUFFICES ASSUME NEW w \in Workloads, store[w] # None, store'[w] # None,
                      store'[w] # store[w]
               PROVE  /\ store'[w].at >= store[w].at
                      /\ IF store'[w].cell = store[w].cell
                         THEN store'[w].at - store[w].at >= RefreshAfter
                         ELSE \E h \in Handlers :
                                /\ requests[h] # None
                                /\ requests[h].memo = store[w]
                                /\ requests[h].verdict # "kept"
    BY Zenon
  <2>1. PICK h \in Handlers :
          /\ requests[h] # None /\ requests[h].pc = "update"
          /\ requests[h].memo = store[w] /\ requests[h].workload = w
          /\ store'[w].cell = requests[h].cell
          /\ store'[w].at = requests[h].now
    BY <1>1, RewrittenByUpdate, Zenon
  <2>2. Sound(requests[h])
    BY <1>1, <2>1, Zenon DEF IInv, Requested
  <2>3. store[w].at \in Nat /\ requests[h].now \in Nat
    BY <1>1, <2>1, WindowsAssumption DEF IInv, TypeOK, Record, InFlight
  <2> QED
    BY <2>1, <2>2, <2>3, Zenon DEF Sound
<1>2. IInv /\ [Next]_vars => [Caused]_vars
  BY <1>1, Zenon
<1> QED
  BY InitIInv, NextIInv, <1>2, PTL DEF Spec, RewriteHasCause

=============================================================================
