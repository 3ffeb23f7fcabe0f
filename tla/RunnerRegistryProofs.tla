------------------------ MODULE RunnerRegistryProofs ------------------------
(***************************************************************************)
(* Theorems about RunnerRegistry, for every set of runners, addresses,     *)
(* tags, tokens and probers.                                               *)
(***************************************************************************)
EXTENDS RunnerRegistry, TLAPS

-----------------------------------------------------------------------------
(* What a request does to one record and to its snapshot entry *)

Record == RegisteredRunner \cup {Absent}

\* A request maps a record or an absent runner to a record or an absent runner.
LEMMA MutateType ==
    ASSUME NEW old \in Record, NEW q \in Request, NEW e \in Epochs
    PROVE  Mutate(old, q, e) \in Record
<1>1. CASE q.kind = "register"
  <2>1. q.endpoint \in Endpoints /\ q.tags \in TagSets
    BY <1>1 DEF Request
  <2>2. Register(old, q, e) \in RegisteredRunner
    BY <2>1 DEF Register, Known, Record, RegisteredRunner, Absent
  <2> QED BY <1>1, <2>2 DEF Mutate, Record
<1>2. ASSUME NEW draining \in BOOLEAN
      PROVE  SetDraining(old, draining, e) \in Record
  <2>1. CASE old = Absent
    BY <2>1 DEF SetDraining, Known, Absent, Record
  <2>2. CASE old \in RegisteredRunner
    BY <2>2 DEF SetDraining, Record, RegisteredRunner
  <2> QED BY <2>1, <2>2 DEF Record
<1>3. CASE q.kind \in {"drain", "resume"}
  BY <1>2, <1>3 DEF Mutate
<1>4. CASE q.kind = "deregister"
  BY <1>4 DEF Mutate, Record
<1> QED BY <1>1, <1>3, <1>4 DEF Request

\* The snapshot entry of a mutated record, from the entry of the record alone:
\* neither health nor the token matters, which is why update may run the
\* mutation once on a clone and once on the live data.
EntryAfter(c, q) ==
    CASE q.kind = "register"   -> Cfg!Registered(c, q.endpoint, q.tags)
      [] q.kind = "drain"      -> IF c = Cfg!NoEntry THEN c ELSE [c EXCEPT !.state = "draining"]
      [] q.kind = "resume"     -> IF c = Cfg!NoEntry THEN c ELSE [c EXCEPT !.state = "serving"]
      [] q.kind = "deregister" -> Cfg!NoEntry

\* What a request makes of a configuration depends on the configuration only.
LEMMA MutateEntry ==
    ASSUME NEW old \in Record, NEW q \in Request, NEW e
    PROVE  ToEntry(Mutate(old, q, e)) = EntryAfter(ToEntry(old), q)
<1> USE DEF Known, ToEntry, EntryAfter, Record, RegisteredRunner, Absent, Cfg!NoEntry
<1>1. CASE q.kind = "register"
  BY <1>1 DEF Mutate, Register, Cfg!Registered
<1>2. CASE q.kind = "drain"
  BY <1>2 DEF Mutate, SetDraining
<1>3. CASE q.kind = "resume"
  BY <1>3 DEF Mutate, SetDraining
<1>4. CASE q.kind = "deregister"
  BY <1>4 DEF Mutate
<1> QED BY <1>1, <1>2, <1>3, <1>4 DEF Request

\* The configuration of a record,
LEMMA EntryType ==
    ASSUME NEW r \in Record
    PROVE  ToEntry(r) \in Cfg!RunnerEntry
BY DEF ToEntry, Known, Record, RegisteredRunner, Absent, Cfg!RunnerEntry, Cfg!Entry, Cfg!NoEntry

\* also after a request, is one.
LEMMA EntryAfterType ==
    ASSUME NEW c \in Cfg!RunnerEntry, NEW q \in Request
    PROVE  EntryAfter(c, q) \in Cfg!RunnerEntry
<1>1. CASE q.kind = "register"
  <2>1. q.endpoint \in Endpoints /\ q.tags \in TagSets
    BY <1>1 DEF Request
  <2> QED BY <1>1, <2>1 DEF EntryAfter, Cfg!RunnerEntry, Cfg!Entry, Cfg!NoEntry, Cfg!Registered
<1>2. CASE q.kind # "register"
  BY <1>2 DEF EntryAfter, Request, Cfg!RunnerEntry, Cfg!Entry, Cfg!NoEntry
<1> QED BY <1>1, <1>2

\* A probe's answer, healthy or not, leaves the snapshot entry alone.
LEMMA AnswerEntry ==
    ASSUME NEW r \in RegisteredRunner, NEW healthy \in BOOLEAN
    PROVE  /\ Heartbeat(r, healthy) \in RegisteredRunner
           /\ MarkUnresponsive(r) \in RegisteredRunner
           /\ ToEntry(Heartbeat(r, healthy)) = ToEntry(r)
           /\ ToEntry(MarkUnresponsive(r)) = ToEntry(r)
BY DEF Heartbeat, MarkUnresponsive, ToEntry, Known, RegisteredRunner

\* A restored record has the configuration of the file and is not in rotation.
LEMMA RestoredType ==
    ASSUME NEW c \in Cfg!RunnerEntry, NEW e \in Epochs
    PROVE  /\ Restored(c, e) \in Record
           /\ ToEntry(Restored(c, e)) = c
           /\ Restored(c, e).status # "active"
BY DEF Restored, ToEntry, Known, Record, RegisteredRunner, Absent,
       Cfg!RunnerEntry, Cfg!Entry, Cfg!NoEntry

-----------------------------------------------------------------------------
(* Type correctness *)

\* The snapshot of well-typed data is a well-typed configuration.
LEMMA FromDataType ==
    ASSUME NEW rs \in [Ids -> Record], NEW b \in BOOLEAN
    PROVE  FromData(rs, b) \in Cfg!Config
BY EntryType DEF FromData, Entries, Cfg!Config

WriterType ==
    {NoRequest} \cup [phase: {"persist", "publish"}, request: Request,
                      after: Cfg!Config, changed: BOOLEAN]

\* The snapshot that UpdateBegin computes, entry by entry.
After(c, q) ==
    [require |-> c.require \/ q.kind = "register",
     runners |-> [c.runners EXCEPT ![q.id] = EntryAfter(@, q)]]

\* A request on one runner is a request on its configuration.
LEMMA EntriesAfter ==
    ASSUME NEW rs \in [Ids -> Record], NEW q \in Request, NEW e
    PROVE  Entries([rs EXCEPT ![q.id] = Mutate(@, q, e)])
             = [Entries(rs) EXCEPT ![q.id] = EntryAfter(@, q)]
<1> DEFINE new == [rs EXCEPT ![q.id] = Mutate(@, q, e)]
<1>1. q.id \in Ids
  BY DEF Request
<1>2. \A i \in Ids : ToEntry(new[i]) = [Entries(rs) EXCEPT ![q.id] = EntryAfter(@, q)][i]
  BY <1>1, MutateEntry DEF Entries
<1> QED BY <1>2 DEF Entries

\* The configuration machine keeps its type.
LEMMA AfterType ==
    ASSUME NEW c \in Cfg!Config, NEW q \in Request
    PROVE  After(c, q) \in Cfg!Config
<1>1. q.id \in Ids
  BY DEF Request
<1>2. c.runners[q.id] \in Cfg!RunnerEntry
  BY <1>1 DEF Cfg!Config
<1>3. EntryAfter(c.runners[q.id], q) \in Cfg!RunnerEntry
  BY <1>2, EntryAfterType
<1> QED BY <1>3 DEF After, Cfg!Config

\* The configurations of Init are well typed.
LEMMA ConfigInitType ==
    Cfg!Init => disk \in Cfg!Config
<1>1. Cfg!Empty \in Cfg!Config /\ Cfg!Empty.runners \in [Ids -> Cfg!RunnerEntry]
  BY DEF Cfg!Empty, Cfg!Config, Cfg!RunnerEntry
<1>2. \A ep \in Endpoints, tags \in TagSets :
         Cfg!Registered(Cfg!NoEntry, ep, tags) \in Cfg!RunnerEntry
  BY DEF Cfg!RunnerEntry, Cfg!Entry, Cfg!NoEntry, Cfg!Registered
<1>3. ASSUME NEW i \in Ids, NEW ep \in Endpoints, NEW tags \in TagSets
      PROVE  [require |-> TRUE, runners |-> [Cfg!Empty.runners EXCEPT
                 ![i] = Cfg!Registered(Cfg!NoEntry, ep, tags)]] \in Cfg!Config
  BY <1>1, <1>2 DEF Cfg!Config
<1> QED BY <1>1, <1>3 DEF Cfg!Init

\* A restart restores the configuration and nothing in rotation.
LEMMA IntoDataType ==
    ASSUME NEW c \in Cfg!Config, NEW e \in Epochs
    PROVE  /\ IntoData(c, e) \in [Ids -> Record]
           /\ FromData(IntoData(c, e), c.require) = c
           /\ \A i \in Ids : IntoData(c, e)[i].status # "active"
<1>1. \A i \in Ids : c.runners[i] \in Cfg!RunnerEntry
  BY DEF Cfg!Config
<1>2. c = [require |-> c.require, runners |-> [i \in Ids |-> c.runners[i]]]
  BY DEF Cfg!Config
<1> QED BY <1>1, <1>2, RestoredType DEF IntoData, FromData, Entries

\* The registry starts well typed,
LEMMA TypeInit == Init => TypeOK
<1> SUFFICES ASSUME Init PROVE TypeOK
  OBVIOUS
<1>1. disk \in Cfg!Config
  BY ConfigInitType DEF Init
<1>2. PICK e \in Epochs : Boot(disk, e)
  BY DEF Init
<1>3. runners \in [Ids -> Record]
  BY <1>1, <1>2, IntoDataType DEF Boot
<1>4. requireRunner \in BOOLEAN
  BY <1>1, <1>2 DEF Boot, Cfg!Config
<1> QED BY <1>1, <1>2, <1>3, <1>4 DEF Boot, TypeOK, Record

\* and every step keeps it so.
LEMMA TypeStep == TypeOK /\ [Next]_vars => TypeOK'
<1> SUFFICES ASSUME TypeOK, [Next]_vars PROVE TypeOK'
  OBVIOUS
<1>0. /\ runners \in [Ids -> Record]
      /\ writer \in WriterType
  BY DEF TypeOK, Record, WriterType
<1>1. CASE Crash
  <2>1. PICK e \in Epochs : runners' = IntoData(disk, e) /\ requireRunner' = disk.require
    BY <1>1 DEF Crash
  <2>2. disk \in Cfg!Config
    BY DEF TypeOK
  <2>3. runners' \in [Ids -> Record]
    BY <2>1, <2>2, IntoDataType
  <2>4. requireRunner' \in BOOLEAN
    BY <2>1, <2>2 DEF Cfg!Config
  <2> QED BY <1>1, <2>2, <2>3, <2>4 DEF Crash, TypeOK, Record
<1>2. ASSUME NEW q \in Request, UpdateBegin(q) PROVE TypeOK'
  <2> DEFINE live == FromData(runners, requireRunner)
  <2> DEFINE next == [runners EXCEPT ![q.id] = Mutate(@, q, CloneEpoch)]
  <2>0. Entries(next) = [Entries(runners) EXCEPT ![q.id] = EntryAfter(@, q)]
    BY <1>0, EntriesAfter
  <2>1. writer'.after = After(live, q)
    BY <1>2, <2>0 DEF UpdateBegin, Requires, After, FromData
  <2>2. writer'.after \in Cfg!Config
    BY <1>0, <2>1, FromDataType, AfterType DEF TypeOK
  <2>3. writer' = [phase |-> "persist", request |-> q,
                   after |-> writer'.after, changed |-> writer'.changed]
    BY <1>2 DEF UpdateBegin
  <2>4. writer'.changed \in BOOLEAN
    BY <1>2 DEF UpdateBegin
  <2>5. writer' \in WriterType
    BY <2>2, <2>3, <2>4 DEF WriterType
  <2> QED BY <1>2, <2>5 DEF UpdateBegin, TypeOK, WriterType, regVars, wdVars
<1>3. CASE UpdatePersist
  <2>1. writer # NoRequest /\ writer.after \in Cfg!Config
    BY <1>0, <1>3 DEF UpdatePersist, WriterType, NoRequest
  <2>2. writer' \in WriterType
    BY <1>0, <1>3, <2>1 DEF UpdatePersist, WriterType
  <2>3. disk' \in Cfg!Config
    BY <1>3, <2>1 DEF UpdatePersist, TypeOK
  <2> QED BY <1>3, <2>2, <2>3 DEF UpdatePersist, TypeOK, WriterType, regVars, wdVars
<1>4. CASE UpdateFail
  BY <1>4 DEF UpdateFail, TypeOK, regVars, wdVars
<1>5. CASE UpdatePublish
  <2> DEFINE q == writer.request
  <2>1. q \in Request /\ q.id \in Ids
    BY <1>0, <1>5 DEF UpdatePublish, WriterType, NoRequest, Request
  <2>2. PICK e \in FreshEpochs(q.id) :
          LET new == Mutate(runners[q.id], q, e)
          IN  /\ runners' = [runners EXCEPT ![q.id] = new]
              /\ IF Voids(runners[q.id], new)
                 THEN /\ vouched' = [vouched EXCEPT ![q.id] = {}]
                      /\ probe' = [p \in Probers |->
                                     IF Pinging(p) /\ probe[p].id = q.id
                                     THEN [probe[p] EXCEPT !.valid = FALSE]
                                     ELSE probe[p]]
                 ELSE UNCHANGED <<vouched, probe>>
    BY <1>5 DEF UpdatePublish
  <2>3. e \in Epochs
    BY DEF FreshEpochs
  <2>4. runners' \in [Ids -> Record]
    BY <1>0, <2>1, <2>2, <2>3, MutateType
  <2>5. vouched' \in [Ids -> SUBSET Endpoints]
    BY <2>1, <2>2 DEF TypeOK
  <2>6. probe' \in [Probers -> RunnerProbe \cup {NoProbe}]
    <3>1. ASSUME NEW p \in Probers, Pinging(p)
          PROVE  [probe[p] EXCEPT !.valid = FALSE] \in RunnerProbe
      <4>1. probe[p] \in RunnerProbe
        BY <3>1 DEF TypeOK, Pinging, NoProbe
      <4> QED BY <4>1 DEF RunnerProbe
    <3> QED BY <2>2, <3>1 DEF TypeOK
  <2>7. requireRunner' \in BOOLEAN
    BY <1>5 DEF UpdatePublish, Requires, TypeOK
  <2> QED BY <1>5, <2>4, <2>5, <2>6, <2>7 DEF UpdatePublish, TypeOK, Record, wdVars
<1>6. ASSUME NEW p \in Probers, NEW i \in Ids, Known(runners[i]), BeginProbe(p, i)
      PROVE  /\ runners' \in [Ids -> Record]
             /\ probe' \in [Probers -> RunnerProbe \cup {NoProbe}]
  <2>1. runners[i] \in RegisteredRunner
    BY <1>0, <1>6 DEF Known, Record, Absent
  <2>2. PICK e \in Epochs :
           /\ runners' = [runners EXCEPT ![i].epoch = e]
           /\ probe' = [probe EXCEPT ![p] =
                          [state |-> "pinging", id |-> i, endpoint |-> runners[i].endpoint,
                           epoch |-> e, valid |-> TRUE]]
    BY <1>6 DEF BeginProbe, FreshEpochs
  <2>3. [runners[i] EXCEPT !.epoch = e] \in RegisteredRunner
    BY <2>1 DEF RegisteredRunner
  <2>4. [state |-> "pinging", id |-> i, endpoint |-> runners[i].endpoint,
         epoch |-> e, valid |-> TRUE] \in RunnerProbe
    BY <2>1 DEF RunnerProbe, RegisteredRunner
  <2> QED BY <1>0, <2>2, <2>3, <2>4 DEF TypeOK, Record
<1>7. ASSUME NEW p \in Pingers, NEW i \in Ids, PingBegin(p, i) PROVE TypeOK'
  <2>1. p \in Probers /\ Known(runners[i]) /\ BeginProbe(p, i)
    BY <1>7 DEF PingBegin, Probers
  <2> QED BY <1>6, <1>7, <2>1 DEF PingBegin, TypeOK, Record, wdVars
<1>8. ASSUME NEW p \in Probers, NEW reply \in Replies, Answer(p, reply) PROVE TypeOK'
  <2>1. probe[p] \in RunnerProbe
    BY <1>8 DEF Answer, Pinging, TypeOK, NoProbe
  <2>2. probe[p].id \in Ids /\ probe[p].endpoint \in Endpoints
    BY <2>1 DEF RunnerProbe
  <2>3. probe' \in [Probers -> RunnerProbe \cup {NoProbe}]
    BY <1>8 DEF Answer, TypeOK
  <2>4. CASE Fresh(p)
    <3>1. runners[probe[p].id] \in RegisteredRunner
      BY <1>0, <2>2, <2>4 DEF Fresh, Known, Record, Absent
    <3>2. runners' \in [Ids -> Record]
      BY <1>0, <1>8, <2>2, <2>4, <3>1, AnswerEntry DEF Answer, Record
    <3>3. vouched' \in [Ids -> SUBSET Endpoints]
      BY <1>8, <2>2, <2>4 DEF Answer, TypeOK
    <3> QED BY <1>8, <2>3, <3>2, <3>3 DEF Answer, TypeOK, Record, wdVars
  <2>5. CASE ~Fresh(p)
    BY <1>8, <2>3, <2>5 DEF Answer, TypeOK, wdVars
  <2> QED BY <2>4, <2>5
<1>9. CASE WatchdogTick
  BY <1>9 DEF WatchdogTick, TypeOK, regVars
<1>10. CASE WatchdogProbe
  <2>1. PICK i \in todo :
          /\ todo' = todo \ {i}
          /\ IF Known(runners[i]) THEN BeginProbe(Watchdog, i) ELSE UNCHANGED <<runners, probe>>
    BY <1>10 DEF WatchdogProbe
  <2>2. i \in Ids /\ Watchdog \in Probers
    BY DEF TypeOK, Probers
  <2>3. /\ runners' \in [Ids -> Record]
        /\ probe' \in [Probers -> RunnerProbe \cup {NoProbe}]
    BY <1>0, <1>6, <2>1, <2>2 DEF TypeOK
  <2> QED BY <1>10, <2>1, <2>3 DEF WatchdogProbe, TypeOK, Record
<1>11. CASE WatchdogRoundEnd
  BY <1>11 DEF WatchdogRoundEnd, TypeOK, regVars
<1>12. CASE UNCHANGED vars
  BY <1>12 DEF vars, TypeOK
<1> QED
  BY <1>1, <1>2, <1>3, <1>4, <1>5, <1>7, <1>8, <1>9, <1>10, <1>11, <1>12 DEF Next

\* The records, the file, the writer's request, the probes and the watchdog's
\* list stay well typed through every request, probe, failure and restart.
THEOREM TypeCorrect == Spec => []TypeOK
BY TypeInit, TypeStep, PTL DEF Spec

-----------------------------------------------------------------------------
(* The commit protocol: what the file, the live data and the request in     *)
(* flight have to do with each other                                        *)

Live == FromData(runners, requireRunner)

CommitInv ==
    /\ writer.phase # "publish" => disk = Live
    /\ writer.phase # "idle" => writer.after = After(Live, writer.request)
    /\ writer.phase = "persist" => (writer.changed <=> writer.after # Live)
    /\ writer.phase = "publish" => disk = writer.after

\* Beginning or answering a probe changes no snapshot entry.
LEMMA ProbeKeepsEntries ==
    ASSUME TypeOK
    PROVE  /\ \A p \in Probers, i \in Ids :
                 (Known(runners[i]) /\ BeginProbe(p, i)) => Entries(runners') = Entries(runners)
           /\ \A p \in Probers, reply \in Replies :
                 Answer(p, reply) => Entries(runners') = Entries(runners)
<1>0. runners \in [Ids -> Record]
  BY DEF TypeOK, Record
<1>1. ASSUME NEW p \in Probers, NEW i \in Ids, Known(runners[i]), BeginProbe(p, i)
      PROVE  Entries(runners') = Entries(runners)
  <2>1. runners[i] \in RegisteredRunner
    BY <1>0, <1>1 DEF Known, Record, Absent
  <2>2. PICK e \in Epochs : runners' = [runners EXCEPT ![i].epoch = e]
    BY <1>1 DEF BeginProbe, FreshEpochs
  <2>3. ToEntry([runners[i] EXCEPT !.epoch = e]) = ToEntry(runners[i])
    BY <2>1 DEF ToEntry, Known, RegisteredRunner
  <2>4. \A j \in Ids : ToEntry(runners'[j]) = ToEntry(runners[j])
    BY <1>0, <2>2, <2>3
  <2> QED BY <2>4 DEF Entries
<1>2. ASSUME NEW p \in Probers, NEW reply \in Replies, Answer(p, reply)
      PROVE  Entries(runners') = Entries(runners)
  <2> DEFINE i == probe[p].id
  <2>1. i \in Ids
    BY <1>2 DEF Answer, Pinging, TypeOK, RunnerProbe, NoProbe
  <2>2. CASE Fresh(p)
    <3>1. runners[i] \in RegisteredRunner
      BY <1>0, <2>1, <2>2 DEF Fresh, Known, Record, Absent
    <3>2. PICK new : /\ runners' = [runners EXCEPT ![i] = new]
                     /\ ToEntry(new) = ToEntry(runners[i])
      BY <1>2, <2>2, <3>1, AnswerEntry DEF Answer
    <3>3. \A j \in Ids : ToEntry(runners'[j]) = ToEntry(runners[j])
      BY <1>0, <3>2
    <3> QED BY <3>3 DEF Entries
  <2>3. CASE ~Fresh(p)
    BY <1>2, <2>3 DEF Answer
  <2> QED BY <2>2, <2>3
<1> QED BY <1>1, <1>2

\* At the start nothing has been promised,
LEMMA CommitInit == Init => CommitInv
<1> SUFFICES ASSUME Init PROVE CommitInv
  OBVIOUS
<1>1. disk \in Cfg!Config
  BY ConfigInitType DEF Init
<1>2. PICK e \in Epochs : Boot(disk, e)
  BY DEF Init
<1>3. disk = Live
  BY <1>1, <1>2, IntoDataType DEF Boot, Live
<1> QED BY <1>2, <1>3 DEF Boot, CommitInv, NoRequest

\* every step keeps the promise of the request under way,
LEMMA CommitStep == TypeOK /\ CommitInv /\ [Next]_vars => CommitInv'
<1> SUFFICES ASSUME TypeOK, CommitInv, [Next]_vars PROVE CommitInv'
  OBVIOUS
<1>0. /\ runners \in [Ids -> Record]
      /\ writer \in WriterType
  BY DEF TypeOK, Record, WriterType
<1>1. CASE Crash
  <2>1. PICK e \in Epochs : runners' = IntoData(disk, e) /\ requireRunner' = disk.require
    BY <1>1 DEF Crash
  <2>2. disk \in Cfg!Config
    BY DEF TypeOK
  <2>3. Live' = disk
    BY <2>1, <2>2, IntoDataType DEF Live
  <2> QED BY <1>1, <2>3 DEF Crash, CommitInv, NoRequest
<1>2. ASSUME NEW q \in Request, UpdateBegin(q) PROVE CommitInv'
  <2> DEFINE next == [runners EXCEPT ![q.id] = Mutate(@, q, CloneEpoch)]
  <2>0. Entries(next) = [Entries(runners) EXCEPT ![q.id] = EntryAfter(@, q)]
    BY <1>0, EntriesAfter
  <2>1. FromData(next, Requires(q)) = After(Live, q)
    BY <2>0 DEF Requires, After, FromData, Live
  <2>2. Live' = Live /\ disk' = disk
    BY <1>2 DEF UpdateBegin, regVars, Live
  <2>3. disk = Live
    BY <1>2 DEF UpdateBegin, NoRequest, CommitInv
  <2>4. /\ writer'.phase = "persist" /\ writer'.request = q
        /\ writer'.after = After(Live, q)
        /\ writer'.changed <=> Live # After(Live, q)
    BY <1>2, <2>1 DEF UpdateBegin, Live
  <2> QED BY <2>2, <2>3, <2>4 DEF CommitInv
<1>3. CASE UpdatePersist
  <2>1. Live' = Live
    BY <1>3 DEF UpdatePersist, regVars, Live
  <2>2. /\ writer'.phase = "publish" /\ writer'.request = writer.request
        /\ writer'.after = writer.after
    BY <1>0, <1>3 DEF UpdatePersist, WriterType, NoRequest
  <2>3. disk' = writer.after
    BY <1>3 DEF UpdatePersist, CommitInv
  <2> QED BY <1>3, <2>1, <2>2, <2>3 DEF UpdatePersist, CommitInv
<1>4. CASE UpdateFail
  BY <1>4 DEF UpdateFail, CommitInv, regVars, Live, NoRequest
<1>5. CASE UpdatePublish
  <2> DEFINE q == writer.request
  <2>1. q \in Request
    BY <1>0, <1>5 DEF UpdatePublish, WriterType, NoRequest
  <2>2. PICK e \in FreshEpochs(q.id) : runners' = [runners EXCEPT ![q.id] = Mutate(@, q, e)]
    BY <1>5 DEF UpdatePublish
  <2>3. Entries(runners') = [Entries(runners) EXCEPT ![q.id] = EntryAfter(@, q)]
    BY <1>0, <2>1, <2>2, EntriesAfter
  <2>4. Live' = After(Live, q)
    BY <1>5, <2>3 DEF UpdatePublish, Requires, Live, FromData, After
  <2>5. disk' = After(Live, q)
    BY <1>5 DEF UpdatePublish, CommitInv
  <2> QED BY <1>5, <2>4, <2>5 DEF UpdatePublish, CommitInv, NoRequest
<1>6. ASSUME Entries(runners') = Entries(runners), UNCHANGED <<requireRunner, disk, writer>>
      PROVE  CommitInv'
  BY <1>6 DEF CommitInv, Live, FromData
<1>7. ASSUME NEW p \in Pingers, NEW i \in Ids, PingBegin(p, i) PROVE CommitInv'
  <2>1. Entries(runners') = Entries(runners)
    BY <1>7, ProbeKeepsEntries DEF PingBegin, Probers
  <2> QED BY <1>6, <1>7, <2>1 DEF PingBegin
<1>8. ASSUME NEW p \in Probers, NEW reply \in Replies, Answer(p, reply) PROVE CommitInv'
  <2>1. Entries(runners') = Entries(runners)
    BY <1>8, ProbeKeepsEntries
  <2> QED BY <1>6, <1>8, <2>1 DEF Answer
<1>9. CASE WatchdogTick
  BY <1>6, <1>9 DEF WatchdogTick, regVars
<1>10. CASE WatchdogProbe
  <2>1. PICK i \in todo :
          IF Known(runners[i]) THEN BeginProbe(Watchdog, i) ELSE UNCHANGED <<runners, probe>>
    BY <1>10 DEF WatchdogProbe
  <2>2. i \in Ids /\ Watchdog \in Probers
    BY DEF TypeOK, Probers
  <2>3. Entries(runners') = Entries(runners)
    BY <2>1, <2>2, ProbeKeepsEntries
  <2> QED BY <1>6, <1>10, <2>3 DEF WatchdogProbe
<1>11. CASE WatchdogRoundEnd
  BY <1>6, <1>11 DEF WatchdogRoundEnd, regVars
<1>12. CASE UNCHANGED vars
  BY <1>6, <1>12 DEF vars
<1> QED
  BY <1>1, <1>2, <1>3, <1>4, <1>5, <1>7, <1>8, <1>9, <1>10, <1>11, <1>12 DEF Next

\* so it is kept in every reachable state.
LEMMA CommitCorrect == Spec => []CommitInv
<1>1. Init => CommitInv
  BY CommitInit
<1>2. TypeOK /\ CommitInv /\ [Next]_vars => CommitInv'
  BY CommitStep
<1> QED BY <1>1, <1>2, TypeCorrect, PTL DEF Spec

\* Between requests the live configuration is the file's, and during a commit
\* the file already holds what will be published: CommitInv says in addition
\* what that is, which a step of a probe or of a crash must not disturb.
THEOREM DiskCorrect == Spec => []LiveMatchesDisk
<1>1. TypeOK /\ CommitInv => LiveMatchesDisk
  BY DEF TypeOK, CommitInv, LiveMatchesDisk, Live
<1> QED BY <1>1, TypeCorrect, CommitCorrect, PTL

-----------------------------------------------------------------------------
(* The file implements the atomic configuration machine *)

\* Writing the snapshot of a request is the request's step of RunnerConfig, or
\* no step at all.
LEMMA PersistIsAtomic ==
    ASSUME NEW q \in Request, disk \in Cfg!Config, disk' = After(disk, q)
    PROVE  [Cfg!Next]_disk
<1> DEFINE i == q.id
<1>1. i \in Ids
  BY DEF Request
<1>2. disk.runners[i] \in Cfg!RunnerEntry
  BY <1>1 DEF Cfg!Config
<1>3. disk = [require |-> disk.require, runners |-> disk.runners]
  BY DEF Cfg!Config
<1>0. ASSUME q.kind # "register"
      PROVE  disk' = [require |-> disk.require,
                      runners |-> [disk.runners EXCEPT ![i] = EntryAfter(@, q)]]
  <2>1. (disk.require \/ q.kind = "register") = disk.require
    BY <1>0 DEF Cfg!Config
  <2> QED BY <2>1 DEF After
<1>4. CASE q.kind = "register"
  <2>1. q.endpoint \in Endpoints /\ q.tags \in TagSets
    BY <1>4 DEF Request
  <2>2. disk' = [require |-> TRUE, runners |-> [disk.runners EXCEPT
                    ![i] = Cfg!Registered(@, q.endpoint, q.tags)]]
    BY <1>4 DEF After, EntryAfter
  <2>3. Cfg!Register(i, q.endpoint, q.tags)
    BY <2>2 DEF Cfg!Register
  <2> QED BY <1>1, <2>1, <2>3 DEF Cfg!Next
<1>5. CASE q.kind \in {"drain", "resume"}
  <2> DEFINE draining == q.kind = "drain"
  <2>1. CASE disk.runners[i] = Cfg!NoEntry
    <3>1. [disk.runners EXCEPT ![i] = EntryAfter(@, q)] = disk.runners
      BY <1>1, <1>5, <2>1 DEF EntryAfter, Cfg!Config
    <3>2. disk' = disk
      BY <1>0, <1>3, <1>5, <3>1
    <3> QED BY <3>2
  <2>2. CASE disk.runners[i] # Cfg!NoEntry
    <3>1. EntryAfter(disk.runners[i], q)
            = [disk.runners[i] EXCEPT !.state = IF draining THEN "draining" ELSE "serving"]
      BY <1>5, <2>2 DEF EntryAfter
    <3>2. disk' = [disk EXCEPT !.runners[i].state =
                      IF draining THEN "draining" ELSE "serving"]
      BY <1>0, <1>1, <1>3, <1>5, <3>1 DEF Cfg!Config
    <3>3. Cfg!SetDraining(i, draining)
      BY <2>2, <3>2 DEF Cfg!SetDraining
    <3> QED BY <1>1, <3>3 DEF Cfg!Next
  <2> QED BY <2>1, <2>2
<1>6. CASE q.kind = "deregister"
  <2>1. disk' = [disk EXCEPT !.runners[i] = Cfg!NoEntry]
    BY <1>0, <1>3, <1>6 DEF EntryAfter
  <2> QED BY <1>1, <2>1 DEF Cfg!Next, Cfg!Deregister
<1> QED BY <1>4, <1>5, <1>6 DEF Request

\* Every administrative request takes effect on the file in one step, whatever
\* probes, failed writes and restarts happen around it.
THEOREM ConfigurationRefinement == Spec => ConfigurationIsAtomic
<1>1. Init => Cfg!Init
  BY DEF Init
<1>2. TypeOK /\ CommitInv /\ [Next]_vars => [Cfg!Next]_disk
  <2> SUFFICES ASSUME TypeOK, CommitInv, [Next]_vars, disk' # disk
               PROVE  Cfg!Next
    OBVIOUS
  <2>1. UpdatePersist
    BY DEF Next, vars, Crash, UpdateBegin, UpdateFail, UpdatePublish, PingBegin, Answer,
           WatchdogTick, WatchdogProbe, WatchdogRoundEnd
  <2>2. writer.request \in Request
    BY <2>1 DEF UpdatePersist, TypeOK, NoRequest
  <2>3. disk' = After(disk, writer.request)
    BY <2>1 DEF UpdatePersist, CommitInv
  <2> QED BY <2>2, <2>3, PersistIsAtomic DEF TypeOK
<1> QED BY <1>1, <1>2, TypeCorrect, CommitCorrect, PTL DEF Spec, ConfigurationIsAtomic, Cfg!Spec

-----------------------------------------------------------------------------
(* Action properties that follow from the commit protocol *)

\* require_runner survives every step: a restart reads it from a file that is
\* never behind the live data.
LEMMA RequireSticks ==
    TypeOK /\ CommitInv /\ [Next]_vars /\ requireRunner => requireRunner'
<1> SUFFICES ASSUME TypeOK, CommitInv, [Next]_vars, requireRunner PROVE requireRunner'
  OBVIOUS
<1>1. CASE Crash
  <2>1. Live.require = requireRunner
    BY DEF Live, FromData
  <2>2. After(Live, writer.request).require
    BY <2>1 DEF After
  <2>3. disk = Live \/ disk = After(Live, writer.request)
    BY DEF CommitInv
  <2> QED BY <1>1, <2>1, <2>2, <2>3 DEF Crash
<1>2. CASE UpdatePublish
  BY <1>2 DEF UpdatePublish, Requires
<1>3. CASE ~Crash /\ ~UpdatePublish
  BY <1>3 DEF Next, vars, regVars, UpdateBegin, UpdatePersist, UpdateFail, PingBegin, Answer,
              WatchdogTick, WatchdogProbe, WatchdogRoundEnd
<1> QED BY <1>1, <1>2, <1>3

\* Once a runner is required, no later request, probe or restart re-enables the
\* in-process simulation.
THEOREM NoFallback == Spec => NoSimulationFallback
<1>1. requireRunner' => \A want \in Wants : Mode(want)' # "simulated"
  BY DEF Mode
<1>2. TypeOK /\ CommitInv /\ [Next]_vars
        => [requireRunner => \A want \in Wants : Mode(want)' # "simulated"]_vars
  BY <1>1, RequireSticks
<1> QED BY <1>2, TypeCorrect, CommitCorrect, PTL DEF Spec, NoSimulationFallback

\* Maintenance survives everything but a resume or a deregister request.
THEOREM MaintenanceSticks == Spec => MaintenanceIsSticky
<1> DEFINE Out(i) == runners[i].status = "draining" /\ runners'[i].status # "draining"
           Asked(i) == /\ writer.phase = "publish"
                       /\ writer.request.id = i
                       /\ writer.request.kind \in {"resume", "deregister"}
<1>1. TypeOK /\ CommitInv /\ [Next]_vars => \A i \in Ids : Out(i) => Asked(i)
  <2> SUFFICES ASSUME TypeOK, CommitInv, [Next]_vars, NEW i \in Ids, Out(i) PROVE Asked(i)
    OBVIOUS
  <2>0. /\ runners \in [Ids -> Record]
        /\ writer \in WriterType
    BY DEF TypeOK, Record, WriterType
  <2>1. runners[i] \in RegisteredRunner /\ Live.runners[i].state = "draining"
    BY <2>0 DEF Record, Absent, Live, FromData, Entries, ToEntry, Known
  <2>2. CASE Crash
    <3>1. disk.runners[i].state # "draining"
      BY <2>2 DEF Crash, IntoData, Restored, Cfg!NoEntry
    <3>2. writer.phase = "publish" /\ disk = After(Live, writer.request)
      BY <2>0, <2>1, <3>1 DEF CommitInv, WriterType, NoRequest
    <3>3. writer.request \in Request
      BY <2>0, <3>2 DEF WriterType, NoRequest
    <3>4. Live.runners \in [Ids -> Cfg!RunnerEntry]
      BY <2>0, EntryType DEF Live, FromData, Entries
    <3>5. writer.request.id = i
      BY <2>1, <3>1, <3>2, <3>4 DEF After
    <3>6. EntryAfter(Live.runners[i], writer.request).state # "draining"
      BY <3>1, <3>2, <3>4, <3>5 DEF After
    <3>7. writer.request.kind \notin {"register", "drain"}
      BY <2>1, <3>4, <3>6 DEF EntryAfter, Cfg!Registered, Cfg!RunnerEntry, Cfg!Entry, Cfg!NoEntry
    <3> QED BY <3>2, <3>3, <3>5, <3>7 DEF Request
  <2>3. CASE UpdatePublish
    <3> DEFINE q == writer.request
    <3>1. q \in Request
      BY <2>0, <2>3 DEF UpdatePublish, WriterType, NoRequest
    <3>2. PICK e : runners' = [runners EXCEPT ![q.id] = Mutate(@, q, e)]
      BY <2>3 DEF UpdatePublish
    <3>3. q.id = i
      BY <2>0, <3>2
    <3>4. Mutate(runners[i], q, e).status # "draining"
      BY <2>0, <3>2, <3>3
    <3>5. q.kind \notin {"register", "drain"}
      BY <2>1, <3>4 DEF Mutate, Register, SetDraining
    <3> QED BY <2>3, <3>1, <3>3, <3>5 DEF UpdatePublish, Request
  <2>4. ASSUME NEW p \in Probers, NEW j \in Ids, BeginProbe(p, j) PROVE FALSE
    <3>1. PICK e : runners' = [runners EXCEPT ![j].epoch = e]
      BY <2>4 DEF BeginProbe
    <3> QED BY <2>0, <2>1, <3>1 DEF RegisteredRunner
  <2>5. ASSUME NEW p \in Probers, NEW reply \in Replies, Answer(p, reply) PROVE FALSE
    <3>1. \A h \in BOOLEAN : /\ Heartbeat(runners[i], h).status = "draining"
                             /\ MarkUnresponsive(runners[i]).status = "draining"
      BY <2>1 DEF Heartbeat, MarkUnresponsive, RegisteredRunner
    <3> QED BY <2>0, <2>5, <3>1 DEF Answer
  <2>6. CASE WatchdogProbe
    <3>1. PICK j \in todo :
            IF Known(runners[j]) THEN BeginProbe(Watchdog, j) ELSE UNCHANGED <<runners, probe>>
      BY <2>6 DEF WatchdogProbe
    <3>2. j \in Ids /\ Watchdog \in Probers
      BY DEF TypeOK, Probers
    <3> QED BY <2>4, <3>1, <3>2
  <2>7. ASSUME NEW p \in Pingers, NEW j \in Ids, PingBegin(p, j) PROVE FALSE
    BY <2>4, <2>7 DEF PingBegin, Probers
  <2>8. runners' # runners
    OBVIOUS
  <2> QED
    BY <2>2, <2>3, <2>5, <2>6, <2>7, <2>8 DEF Next, vars, regVars, UpdateBegin, UpdatePersist,
       UpdateFail, WatchdogTick, WatchdogRoundEnd
<1>2. TypeOK /\ CommitInv /\ [Next]_vars
        => [\A i \in Ids :
              (/\ Known(runners[i]) /\ runners[i].status = "draining"
               /\ ~(Known(runners'[i]) /\ runners'[i].status = "draining"))
              => Asked(i)]_vars
  BY <1>1 DEF Known
<1> QED BY <1>2, TypeCorrect, CommitCorrect, PTL DEF Spec, MaintenanceIsSticky

-----------------------------------------------------------------------------
(* Late answers *)

\* Why an answer that passes the token check says something about the runner:
\* its probe was begun for this very address and nothing has voided it since.
ProbeInv ==
    \A p \in Probers : (Pinging(p) /\ Fresh(p))
        => probe[p].valid /\ probe[p].endpoint = runners[probe[p].id].endpoint

HealthInv ==
    \A i \in Ids : Active(i) => /\ vouched[i] = {runners[i].endpoint}
                                /\ runners[i].heartbeat = "some"

FenceInv == ProbeInv /\ HealthInv /\ OneLiveProbe

\* At the start no probe is in flight.
LEMMA FenceInit == Init => FenceInv
<1> SUFFICES ASSUME Init PROVE FenceInv
  OBVIOUS
<1>1. disk \in Cfg!Config
  BY ConfigInitType DEF Init
<1>2. PICK e \in Epochs : Boot(disk, e)
  BY DEF Init
<1>3. \A p \in Probers : ~Pinging(p)
  BY <1>2 DEF Boot, Pinging, NoProbe
<1>4. \A i \in Ids : ~Active(i)
  BY <1>1, <1>2, IntoDataType DEF Boot, Active
<1> QED BY <1>3, <1>4 DEF FenceInv, ProbeInv, HealthInv, OneLiveProbe

\* A step that gives runner i a token no probe of i holds, and lets no other
\* record or probe change but for the history flag, leaves no probe of i fresh.
LEMMA FenceStep == TypeOK /\ FenceInv /\ [Next]_vars => FenceInv'
<1> SUFFICES ASSUME TypeOK, FenceInv, [Next]_vars PROVE FenceInv'
  OBVIOUS
<1>0. /\ runners \in [Ids -> Record]
      /\ writer \in WriterType
      /\ probe \in [Probers -> RunnerProbe \cup {NoProbe}]
      /\ \A p \in Probers : Pinging(p) => probe[p] \in RunnerProbe
  BY DEF TypeOK, Record, WriterType, Pinging, NoProbe
<1>1. CASE Crash
  <2>1. PICK e \in Epochs : runners' = IntoData(disk, e)
    BY <1>1 DEF Crash
  <2>2. \A i \in Ids : ~Active(i)'
    BY <2>1, IntoDataType DEF TypeOK, Active
  <2>3. \A p \in Probers : ~Pinging(p)'
    BY <1>1 DEF Crash, Pinging, NoProbe
  <2> QED BY <2>2, <2>3 DEF FenceInv, ProbeInv, HealthInv, OneLiveProbe
<1>2. ASSUME UNCHANGED <<runners, probe, vouched>> PROVE FenceInv'
  BY <1>2 DEF FenceInv, ProbeInv, HealthInv, OneLiveProbe, Fresh, Pinging, Active
<1>3. CASE UpdatePublish
  <2> DEFINE q == writer.request
  <2>a. PICK i \in Ids : i = q.id
    BY <1>0, <1>3 DEF UpdatePublish, WriterType, NoRequest, Request
  <2>1. q \in Request /\ q.id = i
    BY <2>a, <1>0, <1>3 DEF UpdatePublish, WriterType, NoRequest, Request
  <2>2. PICK e \in FreshEpochs(i) :
          LET new == Mutate(runners[i], q, e)
          IN  /\ runners' = [runners EXCEPT ![i] = new]
              /\ IF Voids(runners[i], new)
                 THEN /\ vouched' = [vouched EXCEPT ![i] = {}]
                      /\ probe' = [p \in Probers |->
                                     IF Pinging(p) /\ probe[p].id = i
                                     THEN [probe[p] EXCEPT !.valid = FALSE]
                                     ELSE probe[p]]
                 ELSE UNCHANGED <<vouched, probe>>
    BY <1>3, <2>1 DEF UpdatePublish
  <2> DEFINE new == Mutate(runners[i], q, e)
  <2>3. e \in Epochs /\ new \in Record
    BY <1>0, <2>1, MutateType DEF FreshEpochs
  <2>4. new = runners[i] \/ new = Absent \/ new.epoch = e
    <3>1. q.kind = "register" => new.epoch = e
      BY DEF Mutate, Register
    <3>2. \A d \in BOOLEAN : \/ SetDraining(runners[i], d, e) = runners[i]
                             \/ SetDraining(runners[i], d, e).epoch = e
      BY <1>0, <2>1 DEF SetDraining, Known, Record, RegisteredRunner, Absent
    <3>3. q.kind \in {"drain", "resume"} => (new = runners[i] \/ new.epoch = e)
      BY <3>2 DEF Mutate
    <3>4. q.kind = "deregister" => new = Absent
      BY DEF Mutate
    <3> QED BY <2>1, <3>1, <3>3, <3>4 DEF Request
  <2>5. \A p \in Probers : /\ Pinging(p)' <=> Pinging(p)
                           /\ Pinging(p) => /\ probe'[p].id = probe[p].id
                                            /\ probe'[p].epoch = probe[p].epoch
                                            /\ probe'[p].endpoint = probe[p].endpoint
                                            /\ probe[p].id # i => probe'[p] = probe[p]
    BY <1>0, <2>2 DEF Pinging, RunnerProbe
  <2>6. \A j \in Ids : j # i => runners'[j] = runners[j] /\ vouched'[j] = vouched[j]
    BY <1>0, <2>1, <2>2 DEF TypeOK
  <2>7. CASE new = runners[i]
    <3>1. runners' = runners
      BY <1>0, <2>1, <2>2, <2>7
    <3>2. ~Voids(runners[i], new) \/ ~Known(runners[i])
      BY <2>7 DEF Voids
    <3>3. \A p \in Probers : (Pinging(p) /\ Fresh(p)) => probe'[p] = probe[p]
      BY <1>0, <2>2, <3>2 DEF Fresh
    <3>4. \A j \in Ids : Active(j) => vouched'[j] = vouched[j]
      BY <2>2, <2>6, <3>2 DEF Active
    <3>5. \A p \in Probers : Pinging(p)' /\ Fresh(p)' => Pinging(p) /\ Fresh(p)
      BY <2>5, <3>1 DEF Fresh
    <3> QED BY <2>5, <3>1, <3>3, <3>4, <3>5
            DEF FenceInv, ProbeInv, HealthInv, OneLiveProbe, Active, Fresh
  <2>8. CASE new # runners[i]
    <3>1. \A p \in Probers : Pinging(p)' /\ Fresh(p)'
             => /\ probe[p].id # i
                /\ Pinging(p) /\ Fresh(p)
                /\ probe'[p] = probe[p]
                /\ runners'[probe[p].id] = runners[probe[p].id]
      <4> SUFFICES ASSUME NEW p \in Probers, Pinging(p)', Fresh(p)'
                   PROVE  /\ probe[p].id # i
                          /\ Pinging(p) /\ Fresh(p)
                          /\ probe'[p] = probe[p]
                          /\ runners'[probe[p].id] = runners[probe[p].id]
        OBVIOUS
      <4>1. Pinging(p) /\ probe[p].id \in Ids
        BY <1>0, <2>5 DEF RunnerProbe
      <4>2. ASSUME probe[p].id = i PROVE FALSE
        <5>1. probe[p].epoch # e
          BY <4>1, <4>2 DEF FreshEpochs
        <5>2. Known(new) /\ new.epoch = probe[p].epoch
          BY <1>0, <2>1, <2>2, <2>5, <4>1, <4>2 DEF Fresh
        <5> QED BY <2>4, <2>8, <5>1, <5>2 DEF Known, Absent
      <4> QED BY <2>5, <2>6, <4>1, <4>2 DEF Fresh
    <3>2. Active(i)' => /\ vouched'[i] = {runners'[i].endpoint}
                        /\ runners'[i].heartbeat = "some"
      <4> SUFFICES ASSUME Active(i)' PROVE /\ vouched'[i] = {runners'[i].endpoint}
                                           /\ runners'[i].heartbeat = "some"
        OBVIOUS
      <4>1. runners'[i] = new /\ new.status = "active"
        BY <1>0, <2>1, <2>2 DEF Active
      <4>2. q.kind = "register"
        <5>1. q.kind # "deregister"
          BY <4>1 DEF Mutate, Absent
        <5>2. \A d \in BOOLEAN : SetDraining(runners[i], d, e) = runners[i]
                                  \/ SetDraining(runners[i], d, e).status # "active"
          BY <1>0, <2>1 DEF SetDraining, Known, Record, RegisteredRunner, Absent
        <5>3. q.kind \notin {"drain", "resume"}
          BY <2>8, <4>1, <5>2 DEF Mutate
        <5> QED BY <2>1, <5>1, <5>3 DEF Request
      <4>3. new = Register(runners[i], q, e)
        BY <4>2 DEF Mutate
      <4>4. /\ Known(runners[i]) /\ runners[i].endpoint = q.endpoint
            /\ runners[i].status = "active"
            /\ new.endpoint = q.endpoint /\ new.heartbeat = runners[i].heartbeat
        BY <4>1, <4>3 DEF Register
      <4>5. ~Voids(runners[i], new)
        BY <4>1, <4>4 DEF Voids, Known
      <4>6. vouched' = vouched
        BY <2>2, <4>5
      <4> QED BY <2>1, <4>1, <4>4, <4>6 DEF FenceInv, HealthInv, Active
    <3> QED BY <2>6, <3>1, <3>2 DEF FenceInv, ProbeInv, HealthInv, OneLiveProbe, Active, Fresh
  <2> QED BY <2>7, <2>8
<1>4. ASSUME NEW p \in Probers, NEW i \in Ids, Known(runners[i]), ~Pinging(p),
             BeginProbe(p, i), vouched' = vouched
      PROVE  FenceInv'
  <2>1. PICK e \in FreshEpochs(i) :
           /\ runners' = [runners EXCEPT ![i].epoch = e]
           /\ probe' = [probe EXCEPT ![p] =
                          [state |-> "pinging", id |-> i, endpoint |-> runners[i].endpoint,
                           epoch |-> e, valid |-> TRUE]]
    BY <1>4 DEF BeginProbe
  <2>2. runners[i] \in RegisteredRunner
    BY <1>0, <1>4 DEF Known, Record, Absent
  <2>3. /\ runners'[i] = [runners[i] EXCEPT !.epoch = e]
        /\ \A j \in Ids : j # i => runners'[j] = runners[j]
        /\ \A j \in Ids : /\ runners'[j].endpoint = runners[j].endpoint
                          /\ runners'[j].status = runners[j].status
                          /\ runners'[j].heartbeat = runners[j].heartbeat
    BY <1>0, <2>1, <2>2 DEF RegisteredRunner
  <2>4. \A r \in Probers : r # p => /\ probe'[r] = probe[r]
                                    /\ Pinging(r)' <=> Pinging(r)
    BY <1>0, <2>1 DEF Pinging
  <2>5. /\ probe'[p].id = i /\ probe'[p].valid = TRUE
        /\ probe'[p].endpoint = runners[i].endpoint
    BY <1>0, <2>1
  <2>6. ASSUME NEW r \in Probers, r # p, Pinging(r)', Fresh(r)'
        PROVE  /\ probe[r].id # i
               /\ Pinging(r) /\ Fresh(r)
    <3>1. Pinging(r) /\ probe[r].id \in Ids /\ probe'[r] = probe[r]
      BY <1>0, <2>4, <2>6 DEF RunnerProbe
    <3>2. ASSUME probe[r].id = i PROVE FALSE
      <4>1. probe[r].epoch # e
        BY <3>1, <3>2 DEF FreshEpochs
      <4>2. runners'[i].epoch = e
        BY <2>2, <2>3 DEF RegisteredRunner
      <4> QED BY <2>6, <3>1, <3>2, <4>1, <4>2 DEF Fresh
    <3> QED BY <2>3, <2>6, <3>1, <3>2 DEF Fresh
  <2>7. HealthInv'
    BY <1>4, <2>3 DEF FenceInv, HealthInv, Active, Known
  <2>8. ProbeInv'
    <3> SUFFICES ASSUME NEW r \in Probers, Pinging(r)', Fresh(r)'
                 PROVE  /\ probe'[r].valid
                        /\ probe'[r].endpoint = runners'[probe'[r].id].endpoint
      BY DEF ProbeInv
    <3>1. CASE r = p
      BY <2>3, <2>5, <3>1
    <3>2. CASE r # p
      <4>1. Pinging(r) /\ Fresh(r) /\ probe'[r] = probe[r] /\ probe[r].id \in Ids
        BY <1>0, <2>4, <2>6, <3>2 DEF RunnerProbe
      <4> QED BY <2>3, <4>1 DEF FenceInv, ProbeInv
    <3> QED BY <3>1, <3>2
  <2>9. OneLiveProbe'
    BY <2>4, <2>5, <2>6 DEF FenceInv, OneLiveProbe
  <2> QED BY <2>7, <2>8, <2>9 DEF FenceInv
<1>5. ASSUME NEW p \in Probers, NEW reply \in Replies, Answer(p, reply) PROVE FenceInv'
  <2>a. PICK i \in Ids : i = probe[p].id
    BY <1>0, <1>5 DEF Answer, RunnerProbe
  <2>1. probe[p] \in RunnerProbe /\ probe[p].id = i
    BY <1>0, <1>5, <2>a DEF Answer
  <2>2. /\ ~Pinging(p)'
        /\ \A r \in Probers : r # p => /\ probe'[r] = probe[r]
                                       /\ Pinging(r)' <=> Pinging(r)
    BY <1>0, <1>5 DEF Answer, Pinging, NoProbe
  <2>3. CASE ~Fresh(p)
    <3>1. UNCHANGED <<runners, vouched>>
      BY <1>5, <2>3 DEF Answer
    <3> QED BY <2>2, <3>1 DEF FenceInv, ProbeInv, HealthInv, OneLiveProbe, Fresh, Active
  <2>4. CASE Fresh(p)
    <3>1. runners[i] \in RegisteredRunner
      BY <1>0, <2>1, <2>4 DEF Fresh, Known, Record, Absent
    <3>2. PICK new : /\ runners' = [runners EXCEPT ![i] = new]
                     /\ new = IF reply = "error" THEN MarkUnresponsive(runners[i])
                              ELSE Heartbeat(runners[i], reply = "healthy")
                     /\ vouched' = [vouched EXCEPT ![i] =
                           IF reply = "healthy" /\ probe[p].valid
                           THEN {probe[p].endpoint} ELSE {}]
      BY <1>5, <2>1, <2>4 DEF Answer
    <3>3. /\ new \in RegisteredRunner
          /\ new.endpoint = runners[i].endpoint /\ new.epoch = runners[i].epoch
          /\ new.status = "active" => reply = "healthy" /\ new.heartbeat = "some"
      BY <3>1, <3>2 DEF Heartbeat, MarkUnresponsive, RegisteredRunner
    <3>4. /\ runners'[i] = new
          /\ \A j \in Ids : j # i => runners'[j] = runners[j] /\ vouched'[j] = vouched[j]
          /\ \A j \in Ids : /\ runners'[j].endpoint = runners[j].endpoint
                            /\ runners'[j].epoch = runners[j].epoch
                            /\ Known(runners'[j]) <=> Known(runners[j])
      BY <1>0, <2>1, <3>1, <3>2, <3>3 DEF TypeOK, Known, RegisteredRunner
    <3>5. probe[p].valid /\ probe[p].endpoint = runners[i].endpoint
      BY <1>5, <2>1, <2>4 DEF Answer, FenceInv, ProbeInv
    <3>6. Active(i)' => /\ vouched'[i] = {runners'[i].endpoint}
                        /\ runners'[i].heartbeat = "some"
      BY <2>1, <3>2, <3>3, <3>4, <3>5 DEF Active, TypeOK
    <3>7. \A r \in Probers : Pinging(r)' /\ Fresh(r)'
             => r # p /\ Pinging(r) /\ Fresh(r) /\ probe[r].id \in Ids
      BY <1>0, <2>2, <3>4 DEF Fresh, RunnerProbe
    <3>8. ProbeInv' /\ OneLiveProbe'
      BY <2>2, <3>4, <3>7 DEF FenceInv, ProbeInv, OneLiveProbe
    <3>9. HealthInv'
      BY <3>4, <3>6 DEF FenceInv, HealthInv, Active
    <3> QED BY <3>8, <3>9 DEF FenceInv
  <2> QED BY <2>3, <2>4
<1>6. CASE WatchdogProbe
  <2>1. PICK i \in todo :
          IF Known(runners[i]) THEN BeginProbe(Watchdog, i) ELSE UNCHANGED <<runners, probe>>
    BY <1>6 DEF WatchdogProbe
  <2>2. i \in Ids /\ Watchdog \in Probers
    BY DEF TypeOK, Probers
  <2>3. vouched' = vouched /\ ~Pinging(Watchdog)
    BY <1>6 DEF WatchdogProbe
  <2> QED BY <1>2, <1>4, <2>1, <2>2, <2>3
<1>7. ASSUME NEW p \in Pingers, NEW i \in Ids, PingBegin(p, i) PROVE FenceInv'
  BY <1>4, <1>7 DEF PingBegin, Probers
<1>8. CASE UNCHANGED vars
  BY <1>2, <1>8 DEF vars
<1> QED
  BY <1>1, <1>2, <1>3, <1>5, <1>6, <1>7, <1>8 DEF Next, UpdateBegin, UpdatePersist,
     UpdateFail, WatchdogTick, WatchdogRoundEnd, regVars

\* Fencing holds in every reachable state.
LEMMA FenceCorrect == Spec => []FenceInv
<1>1. Init => FenceInv
  BY FenceInit
<1>2. TypeOK /\ FenceInv /\ [Next]_vars => FenceInv'
  BY FenceStep
<1> QED BY <1>1, <1>2, TypeCorrect, PTL DEF Spec

\* Whatever target is named, the chosen runner answered healthy at its present
\* address since it was created, restored or resumed.
THEOREM RoutingCorrect == Spec => []RouteIsVouched
<1>1. FenceInv => RouteIsVouched
  BY DEF FenceInv, HealthInv, RouteIsVouched, FindForTarget, Candidates
<1> QED BY <1>1, FenceCorrect, PTL

\* At most one ping in flight can change a runner's record.
THEOREM OneProbeCorrect == Spec => []OneLiveProbe
<1>1. FenceInv => OneLiveProbe
  BY DEF FenceInv
<1> QED BY <1>1, FenceCorrect, PTL

\* A request leaves a record as it is, removes it, or gives it the new token.
LEMMA MutateEpoch ==
    ASSUME NEW old \in Record, NEW q \in Request, NEW e
    PROVE  \/ Mutate(old, q, e) = old
           \/ Mutate(old, q, e) = Absent
           \/ Mutate(old, q, e).epoch = e
<1>1. q.kind = "register" => Mutate(old, q, e).epoch = e
  BY DEF Mutate, Register
<1>2. \A d \in BOOLEAN : SetDraining(old, d, e) = old \/ SetDraining(old, d, e).epoch = e
  BY DEF SetDraining, Known, Record, RegisteredRunner, Absent
<1>3. q.kind \in {"drain", "resume"} => Mutate(old, q, e) = old \/ Mutate(old, q, e).epoch = e
  BY <1>2 DEF Mutate
<1>4. q.kind = "deregister" => Mutate(old, q, e) = Absent
  BY DEF Mutate
<1> QED BY <1>1, <1>3, <1>4 DEF Request

-----------------------------------------------------------------------------
(* Overtaken probes *)

\* A step that leaves a probe in flight, with its runner and its token, makes it
\* fresh only if it was: every new token is one that no probe of the runner holds.
LEMMA StaleStep ==
    ASSUME TypeOK, [Next]_vars, NEW p \in Probers, Pinging(p), Pinging(p)', Fresh(p)',
           probe'[p].epoch = probe[p].epoch, probe'[p].id = probe[p].id
    PROVE  Fresh(p)
<1> DEFINE i == probe[p].id
<1>0. /\ runners \in [Ids -> Record]
      /\ writer \in WriterType
      /\ probe[p] \in RunnerProbe /\ i \in Ids
  BY DEF TypeOK, Pinging, NoProbe, RunnerProbe, Record, WriterType
<1>1. Known(runners'[i]) /\ runners'[i].epoch = probe[p].epoch
  BY DEF Fresh
<1> HIDE DEF i
<1>2. ASSUME runners'[i] = runners[i] PROVE Fresh(p)
  BY <1>1, <1>2 DEF Fresh, i
<1>3. CASE Crash
  BY <1>3 DEF Crash, Pinging, NoProbe
<1>4. CASE UpdatePublish
  <2> DEFINE q == writer.request
  <2>1. q \in Request
    BY <1>0, <1>4 DEF UpdatePublish, WriterType, NoRequest
  <2>2. PICK e \in FreshEpochs(q.id) : runners' = [runners EXCEPT ![q.id] = Mutate(@, q, e)]
    BY <1>4 DEF UpdatePublish
  <2>3. CASE q.id # i
    BY <1>0, <1>2, <2>2, <2>3
  <2>4. CASE q.id = i
    <3>1. runners'[i] = Mutate(runners[i], q, e) /\ probe[p].epoch # e
      BY <1>0, <2>2, <2>4 DEF FreshEpochs, i
    <3>2. \/ Mutate(runners[i], q, e) = runners[i]
          \/ Mutate(runners[i], q, e) = Absent
          \/ Mutate(runners[i], q, e).epoch = e
      BY <1>0, <2>1, MutateEpoch
    <3> QED BY <1>1, <1>2, <3>1, <3>2 DEF Known, Absent
  <2> QED BY <2>3, <2>4
<1>5. ASSUME NEW r \in Probers, NEW j \in Ids, BeginProbe(r, j) PROVE Fresh(p)
  <2>1. PICK e \in FreshEpochs(j) :
          /\ runners' = [runners EXCEPT ![j].epoch = e]
          /\ probe' = [probe EXCEPT ![r] =
                         [state |-> "pinging", id |-> j, endpoint |-> runners[j].endpoint,
                          epoch |-> e, valid |-> TRUE]]
    BY <1>5 DEF BeginProbe
  <2>2. CASE j # i
    BY <1>0, <1>2, <2>1, <2>2
  <2>3. CASE j = i
    <3>1. probe[p].epoch # e
      BY <2>1, <2>3 DEF FreshEpochs, i
    <3>2. runners'[i] = [runners[i] EXCEPT !.epoch = e]
      BY <1>0, <2>1, <2>3
    <3>3. runners[i] \in RegisteredRunner => runners'[i].epoch = e
      BY <3>2 DEF RegisteredRunner
    <3>4. runners[i] \notin RegisteredRunner => runners'[i].status = "absent"
      BY <1>0, <3>2 DEF Record, Absent
    <3> QED BY <1>1, <3>1, <3>3, <3>4 DEF Known
  <2> QED BY <2>2, <2>3
<1>6. ASSUME NEW r \in Probers, NEW reply \in Replies, Answer(r, reply) PROVE Fresh(p)
  <2>1. CASE runners' = runners
    BY <1>2, <2>1
  <2>2. CASE runners' # runners
    <3> DEFINE j == probe[r].id
    <3>1. /\ Fresh(r)
          /\ runners' = [runners EXCEPT ![j] = IF reply = "error" THEN MarkUnresponsive(runners[j])
                                               ELSE Heartbeat(runners[j], reply = "healthy")]
      BY <1>6, <2>2 DEF Answer
    <3> HIDE DEF j
    <3>2. CASE j # i
      BY <1>0, <1>2, <3>1, <3>2
    <3>3. CASE j = i
      <4>1. runners[i] \in RegisteredRunner
        BY <1>0, <3>1, <3>3 DEF Fresh, Known, Record, Absent, j
      <4>2. runners'[i].epoch = runners[i].epoch
        BY <1>0, <3>1, <3>3, <4>1 DEF MarkUnresponsive, Heartbeat, RegisteredRunner
      <4>3. Known(runners[i])
        BY <3>1, <3>3 DEF Fresh, j
      <4> QED BY <1>1, <4>2, <4>3 DEF Fresh, i
    <3> QED BY <3>2, <3>3
  <2> QED BY <2>1, <2>2
<1>7. CASE WatchdogProbe
  <2>1. PICK j \in todo :
          IF Known(runners[j]) THEN BeginProbe(Watchdog, j) ELSE UNCHANGED <<runners, probe>>
    BY <1>7 DEF WatchdogProbe
  <2>2. j \in Ids /\ Watchdog \in Probers
    BY DEF TypeOK, Probers
  <2> QED BY <1>2, <1>5, <2>1, <2>2
<1>8. ASSUME NEW r \in Pingers, NEW j \in Ids, PingBegin(r, j) PROVE Fresh(p)
  BY <1>5, <1>8 DEF PingBegin, Probers
<1>9. CASE runners' = runners
  BY <1>2, <1>9
<1> QED
  BY <1>3, <1>4, <1>6, <1>7, <1>8, <1>9 DEF Next, vars, regVars, UpdateBegin, UpdatePersist,
     UpdateFail, WatchdogTick, WatchdogRoundEnd

\* The token is an address: that an allocation may take a freed one again does
\* not revive a probe, since a probe in flight keeps its own from being freed
\* (begin_probe, update: Arc::ptr_eq).
THEOREM StaleCorrect == Spec => StaleStaysStale
<1>1. TypeOK /\ [Next]_vars =>
        [\A p \in Probers :
           (/\ Pinging(p) /\ Pinging(p)'
            /\ probe'[p].epoch = probe[p].epoch /\ probe'[p].id = probe[p].id
            /\ ~Fresh(p)) => ~Fresh(p)']_vars
  BY StaleStep
<1> QED BY <1>1, TypeCorrect, PTL DEF Spec, StaleStaysStale
=============================================================================
