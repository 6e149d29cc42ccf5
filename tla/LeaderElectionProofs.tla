------------------------ MODULE LeaderElectionProofs ------------------------
(***************************************************************************)
(* Proofs, for any set of clients and any configuration that               *)
(* NewLeaderElector accepts, of the safety properties of LeaderElection.   *)
(* That there is one leader and that no release takes its lease needs      *)
(* LeaseOutlastsLead besides, which is a hypothesis where it is used.      *)
(***************************************************************************)
EXTENDS LeaderElection, TLAPS

-----------------------------------------------------------------------------
(* Arithmetic of the record *)

\* Rounding a time down to whole seconds, as the marshalled RenewTime is,
\* loses less than a second and keeps the order of times.
LEMMA WholeSeconds ==
  ASSUME NEW t \in Nat
  PROVE  /\ t \div Second \in Nat
         /\ Second * (t \div Second) <= t
         /\ t < Second * (t \div Second) + Second
         /\ \A r \in Nat : Second * r <= t => r <= t \div Second
<1>1. t \div Second \in Nat
  BY LeaderElectionAssumption
<1>2. Second * (t \div Second) <= t /\ t < Second * (t \div Second) + Second
  BY LeaderElectionAssumption
<1>3. ASSUME NEW r \in Nat, Second * r <= t
      PROVE  r <= t \div Second
  BY <1>3, LeaderElectionAssumption
<1> QED BY <1>1, <1>2, <1>3

\* The types of the constants and of what is made of them.
LEMMA Constants ==
  /\ RecordedDuration \in Nat
  /\ Second \in Nat \ {0}
  /\ RetryPeriod \in Nat \ {0} /\ RenewDeadline \in Nat
  /\ MaxTry \in Nat \ {0} /\ MaxTime \in Nat
  /\ NoOne \notin Clients
  /\ NoTime \in Nat
  /\ NoTime = MaxTime + RenewDeadline + 1
<1>1. LeaseDuration \div Second \in Nat
  BY WholeSeconds, LeaderElectionAssumption
<1>2. RecordedDuration \in Nat
  BY <1>1, LeaderElectionAssumption DEF RecordedDuration
<1> QED BY <1>2, LeaderElectionAssumption DEF NoTime

\* A record made at time t.
LEMMA RecordMade ==
  ASSUME NEW id \in Clients \cup {NoOne}, NEW t \in Nat
  PROVE  /\ NewRecord(id, t) \in Record
         /\ NewRecord(id, t).holder = id
         /\ Second * NewRecord(id, t).renew <= t
         /\ t < Second * NewRecord(id, t).renew + Second
         /\ \A r \in Nat : Second * r <= t => r <= NewRecord(id, t).renew
<1>1. NewRecord(id, t) = [holder |-> id, renew |-> t \div Second]
  BY DEF NewRecord
<1> QED BY <1>1, WholeSeconds DEF Record

-----------------------------------------------------------------------------
(* Type correctness *)

\* What a client asks the server to write is a record of its start time.
LEMMA RequestMade ==
  ASSUME TypeOK, NEW c \in Clients
  PROVE  /\ Request(c) \in Record
         /\ Second * Request(c).renew <= start[c]
         /\ start[c] < Second * Request(c).renew + Second
         /\ \A r \in Nat : Second * r <= start[c] => r <= Request(c).renew
         /\ phase[c] = "release" => Request(c).holder = NoOne
         /\ phase[c] # "release" => Request(c).holder = c
<1>1. start[c] \in Nat
  BY Constants DEF TypeOK, Times
<1> QED BY <1>1, RecordMade DEF Request

\* The requests left behind are the earlier ones or that of c.
LEMMA AbandonedIs ==
  ASSUME NEW c \in Clients, NEW s \in Abandoned(c)
  PROVE  \A r \in s : r \in late \/ (Applicable(c) /\ r = Request(c))
BY DEF Abandoned

\* The end of a try.
LEMMA EndTryType ==
  ASSUME TypeOK, NEW c \in Clients, NEW t \in 0 .. RetryPeriod, EndTry(c, t)
  PROVE  /\ pc' \in [Clients -> {"idle", "get", "create", "update", "done"}]
         /\ start' \in [Clients -> Times]
         /\ rest' \in [Clients -> 0 .. RetryPeriod]
         /\ pc'[c] = "idle" /\ start'[c] = 0 /\ rest'[c] = t
         /\ \A d \in Clients \ {c} : pc'[d] = pc[d] /\ start'[d] = start[d] /\ rest'[d] = rest[d]
BY Constants DEF TypeOK, EndTry, Times

LEMMA BackoffType ==
  ASSUME NEW c \in Clients
  PROVE  Backoff(c) \in 0 .. RetryPeriod
BY Constants DEF Backoff

\* One step keeps the types.
LEMMA NextKeepsType ==
  ASSUME TypeOK, [Next]_vars
  PROVE  TypeOK'
<1> USE DEF TypeOK
<1>0. 0 \in Times /\ now \in Nat /\ NoTime \in 0 .. NoTime /\ 0 \in 0 .. RetryPeriod
      /\ 1 \in 0 .. RetryPeriod /\ RetryPeriod \in 0 .. RetryPeriod
  BY Constants DEF Times
<1>1. ASSUME NEW c \in Clients, Try(c)
      PROVE  TypeOK'
  <2>1. now + RenewDeadline \in 0 .. NoTime
    BY Constants DEF Times
  <2> QED BY <1>1, <2>1 DEF Try, server, elector
<1>2. ASSUME NEW c \in Clients, GetFails(c)
      PROVE  TypeOK'
  BY <1>2, BackoffType, EndTryType DEF GetFails, server, elector
<1>3. ASSUME NEW c \in Clients, GetNotFound(c)
      PROVE  TypeOK'
  BY <1>3 DEF GetNotFound, server, elector
<1>4. ASSUME NEW c \in Clients, GetReturns(c)
      PROVE  TypeOK'
  <2>1. seen' \subseteq Clients /\ observed' \in [Clients -> Clients \cup {NoOne}]
        /\ observedTime' \in [Clients -> Times]
    BY <1>4 DEF GetReturns, Observe, elector, Record
  <2>2. CASE EndTry(c, Backoff(c))
    BY <1>4, <2>1, <2>2, BackoffType, EndTryType DEF GetReturns
  <2>3. CASE pc' = [pc EXCEPT ![c] = "update"] /\ UNCHANGED <<start, rest>>
    BY <1>4, <2>1, <2>3 DEF GetReturns
  <2> QED BY <1>4, <2>2, <2>3 DEF GetReturns
<1>5. ASSUME NEW c \in Clients, ServeWrite(c)
      PROVE  TypeOK'
  BY <1>5, RequestMade DEF ServeWrite, Write, elector
<1>6. ASSUME NEW c \in Clients, WriteFails(c)
      PROVE  TypeOK'
  <2>1. late' \subseteq Record
    BY <1>6, AbandonedIs, RequestMade DEF WriteFails
  <2> QED BY <1>6, <2>1, BackoffType, EndTryType DEF WriteFails, elector
<1>7. ASSUME NEW c \in Clients, TrySucceeds(c)
      PROVE  TypeOK'
  <2>1. (IF phase[c] = "acquire" THEN 0 ELSE RetryPeriod) \in 0 .. RetryPeriod
    BY <1>0
  <2> QED BY <1>0, <1>7, <2>1, EndTryType DEF TrySucceeds
<1>8. ASSUME NEW c \in Clients, EndRenew(c)
      PROVE  TypeOK'
  <2>1. late' \subseteq Record
    BY <1>8, AbandonedIs, RequestMade DEF EndRenew
  <2> QED BY <1>0, <1>8, <2>1, EndTryType DEF EndRenew, elector
<1>9. ASSUME NEW c \in Clients, Release(c)
      PROVE  TypeOK'
  BY <1>9 DEF Release, server, elector
<1>10. ASSUME NEW c \in Clients, Stop(c)
       PROVE  TypeOK'
  <2>1. late' \subseteq Record
    BY <1>10, AbandonedIs, RequestMade DEF Stop
  <2> QED BY <1>0, <1>10, <2>1, EndTryType DEF Stop
<1>11. ASSUME NEW c \in Clients, Restart(c)
       PROVE  TypeOK'
  BY <1>11 DEF Restart, server, elector
<1>12. ASSUME NEW record \in late, ServeLate(record)
       PROVE  TypeOK'
  BY <1>12 DEF ServeLate, Write, elector
<1>13. CASE Tick
  <2>1. now' \in Times
    BY <1>13, Constants DEF Tick, Times
  <2>2. rest' \in [Clients -> 0 .. RetryPeriod]
    BY <1>13, Constants DEF Tick
  <2> QED BY <1>13, <2>1, <2>2 DEF Tick, server, elector
<1>14. CASE UNCHANGED vars
  BY <1>14 DEF vars
<1> QED
  BY <1>1, <1>2, <1>3, <1>4, <1>5, <1>6, <1>7, <1>8, <1>9, <1>10, <1>11, <1>12,
     <1>13, <1>14 DEF Next

\* The initial state has the types.
LEMMA InitType == Init => TypeOK
<1> SUFFICES ASSUME Init PROVE TypeOK
  OBVIOUS
<1>1. NewRecord(NoOne, 0) \in Record
  BY RecordMade
<1>2. 0 \in Times /\ 0 \in 0 .. RetryPeriod /\ NoTime \in 0 .. NoTime
  BY Constants DEF Times
<1> QED BY <1>1, <1>2 DEF Init, TypeOK

\* The variables of the electors, of their locks and of the server always have
\* their types, for every number of clients and every configuration.
THEOREM TypeCorrect == Spec => []TypeOK
<1>1. TypeOK /\ [Next]_vars => TypeOK'
  BY NextKeepsType
<1> QED BY <1>1, InitType, PTL DEF Spec

-----------------------------------------------------------------------------
(* The inductive invariant *)

\* The lease may be taken from its holder: its duration has passed since the
\* second of its renewal.
Expired == now >= Second * lease.renew + RecordedDuration

\* c leads, or its claim has been written and it is about to learn so.
Leads(c) == phase[c] = "renew" \/ (phase[c] = "acquire" /\ pc[c] = "done")

\* The claim of a try is at the server and not answered yet.
Claimed(c) == Trying(c) /\ pc[c] = "done"

\* The last moment at which c may still lead.
Until(c) == IF deadline[c] = NoTime THEN now + rest[c] + RenewDeadline ELSE deadline[c]

\* A try has not run past MaxTry, and a round of renew not past its deadline.
InTime ==
  \A c \in Clients :
    /\ start[c] <= now
    /\ Trying(c) /\ pc[c] # "idle" => now <= start[c] + MaxTry
    /\ phase[c] = "renew" /\ deadline[c] = NoTime => pc[c] = "idle"
    /\ phase[c] = "renew" /\ deadline[c] # NoTime => now <= deadline[c]
    /\ phase[c] # "renew" => deadline[c] = NoTime

\* Records are not from the future, and those of a client not from after the
\* start of its present try.
InOrder ==
  /\ Second * lease.renew <= now
  /\ \A r \in late : Second * r.renew <= now
  /\ \A c \in Clients : Trying(c) /\ pc[c] # "idle" =>
       /\ lease.holder = c => Second * lease.renew <= start[c]
       /\ \A r \in late : r.holder = c => Second * r.renew <= start[c]
  /\ \A r \in late : r.holder = lease.holder /\ r.holder # NoOne => lease.renew <= r.renew

\* What an elector believes of the lease is right while it has the current
\* version or record, and it observed the record after it was written.
Informed ==
  /\ ~created => lease.holder = NoOne
  /\ \A c \in Clients :
       /\ c \in fresh => created /\ observed[c] = lease.holder
       /\ c \in seen => observed[c] = lease.holder /\ Second * lease.renew <= observedTime[c]

\* The sender of a claim that was carried out has no version, and has seen the
\* record only if it is its own, until the answer comes.
Unanswered ==
  \A c \in Clients : Claimed(c) => c \notin fresh /\ (c \in seen => lease.holder = c)

\* Requests that the server would carry out do not take the lease from anybody
\* before it has expired; releases are those of the holder.
Justified ==
  /\ \A c \in Clients : pc[c] = "update" /\ c \in fresh =>
       /\ Trying(c) => lease.holder \in {NoOne, c} \/ Expired
       /\ phase[c] = "release" => lease.holder = c
  /\ \A c \in Clients : pc[c] \in {"create", "get"} => Trying(c)
  /\ \A c \in Clients : phase[c] = "stopped" => pc[c] = "idle"
  /\ \A r \in late : r.holder # NoOne => lease.holder \in {NoOne, r.holder} \/ Expired

\* Who leads holds the lease, for longer than it may lead; no release is under
\* way.  A claim that was written is the record until it is answered.
HolderLeads ==
  \A c \in Clients :
    /\ Leads(c) => lease.holder = c /\ \A r \in late : r.holder # NoOne
    /\ phase[c] = "renew" => Until(c) < Second * lease.renew + RecordedDuration
    /\ Claimed(c) => lease = Request(c) /\ late = {}

\* The part that holds for every configuration, and all of it.
Lawful == TypeOK /\ InTime /\ InOrder /\ Informed /\ Unanswered /\ Justified
Election == Lawful /\ HolderLeads

\* The lease of a client that leads, or is about to, has not expired.
LEMMA LeaderUnexpired ==
  ASSUME LeaseOutlastsLead, Election, NEW c \in Clients, Leads(c)
  PROVE  ~Expired /\ lease.holder = c /\ created
<1>1. lease.holder = c /\ lease.renew \in Nat /\ now \in Nat
  BY Constants DEF Election, Lawful, HolderLeads, TypeOK, Record, Times
<1>2. created
  BY <1>1, Constants DEF Election, Lawful, Informed
<1>3. CASE phase[c] = "renew"
  <2>1. Until(c) < Second * lease.renew + RecordedDuration
    BY <1>3 DEF Election, Lawful, HolderLeads
  <2>2. rest[c] \in Nat /\ deadline[c] \in Nat
    BY Constants DEF Election, Lawful, TypeOK
  <2>3. now <= Until(c)
    BY <1>1, <1>3, <2>2, Constants DEF Until, Election, Lawful, InTime
  <2>4. Until(c) \in Nat
    BY <1>1, <2>2, Constants DEF Until
  <2> QED BY <1>1, <1>2, <2>1, <2>3, <2>4, Constants DEF Expired
<1>4. CASE phase[c] = "acquire" /\ pc[c] = "done"
  <2>1. now <= start[c] + MaxTry /\ lease = Request(c)
    BY <1>4 DEF Election, Lawful, InTime, HolderLeads, Claimed, Trying
  <2>2. start[c] < Second * lease.renew + Second /\ start[c] \in Nat
    BY <2>1, RequestMade, Constants DEF Election, Lawful, TypeOK, Times
  <2> QED BY <1>1, <1>2, <2>1, <2>2, Constants DEF Expired, LeaseOutlastsLead
<1> QED BY <1>3, <1>4 DEF Leads

\* What the server would carry out for c: a claim is justified, a release that
\* of the holder.
LEMMA ApplicableIs ==
  ASSUME Lawful, NEW c \in Clients, Applicable(c)
  PROVE  /\ Trying(c) \/ phase[c] = "release"
         /\ Trying(c) => lease.holder \in {NoOne, c} \/ Expired
         /\ Trying(c) => pc[c] # "idle"
         /\ phase[c] = "release" => lease.holder = c
<1>1. CASE pc[c] = "create" /\ ~created
  BY <1>1 DEF Lawful, Informed, Justified, Trying
<1>2. CASE pc[c] = "update" /\ c \in fresh
  <2>1. phase[c] # "stopped"
    BY <1>2 DEF Lawful, Justified
  <2>2. phase[c] \in {"acquire", "renew", "release", "stopped"}
    BY DEF Lawful, TypeOK
  <2> QED BY <1>2, <2>1, <2>2 DEF Lawful, Justified, Trying
<1> QED BY <1>1, <1>2 DEF Applicable

\* A request of another client, or a release, never meets a lease whose holder
\* leads.
LEMMA OnlyLeaderWrites ==
  ASSUME LeaseOutlastsLead, Election, NEW c \in Clients, Leads(c), NEW d \in Clients, Applicable(d)
  PROVE  d = c /\ Trying(c)
<1>1. ~Expired /\ lease.holder = c
  BY LeaderUnexpired
<1>2. Trying(d) => d = c
  BY <1>1, ApplicableIs, Constants DEF Election
<1>3. phase[d] # "release"
  <2>1. SUFFICES ASSUME phase[d] = "release" PROVE FALSE
    OBVIOUS
  <2>2. d = c
    BY <1>1, <2>1, ApplicableIs DEF Election
  <2> QED BY <2>1, <2>2 DEF Leads
<1> QED BY <1>2, <1>3, ApplicableIs DEF Election

\* The same for a request whose sender no longer waits.
LEMMA OnlyLeaderLate ==
  ASSUME LeaseOutlastsLead, Election, NEW c \in Clients, Leads(c), NEW r \in late
  PROVE  /\ r.holder = c /\ lease.renew <= r.renew
         /\ ~Claimed(c)
<1>1. ~Expired /\ lease.holder = c
  BY LeaderUnexpired
<1>2. r.holder # NoOne
  BY DEF Election, Lawful, HolderLeads
<1>3. r.holder = c
  BY <1>1, <1>2, Constants DEF Election, Lawful, Justified
<1> QED BY <1>1, <1>2, <1>3 DEF Election, Lawful, InOrder, HolderLeads

\* Timers of a leader and the end of a try are not passed by.
LEMMA NextKeepsInTime ==
  ASSUME Lawful, TypeOK', [Next]_vars
  PROVE  InTime'
<1>1. ASSUME NEW c \in Clients, Try(c)
      PROVE  InTime'
  BY <1>1, Constants DEF Try, server, elector, Lawful, TypeOK, InTime, Trying, Times
<1>2. ASSUME NEW c \in Clients, GetFails(c)
      PROVE  InTime'
  BY <1>2, Constants DEF GetFails, EndTry, server, elector, Lawful, TypeOK, InTime,
     Trying, Times
<1>3. ASSUME NEW c \in Clients, GetNotFound(c)
      PROVE  InTime'
  BY <1>3, Constants DEF GetNotFound, server, elector, Lawful, TypeOK, InTime,
     Trying, Times
<1>4. ASSUME NEW c \in Clients, GetReturns(c)
      PROVE  InTime'
  BY <1>4, Constants DEF GetReturns, EndTry, elector, Lawful, TypeOK, InTime, Trying,
     Times
<1>5. ASSUME NEW c \in Clients, ServeWrite(c)
      PROVE  InTime'
  BY <1>5, Constants DEF ServeWrite, Applicable, Write, elector, Lawful, TypeOK, InTime,
     Trying, Times
<1>6. ASSUME NEW c \in Clients, WriteFails(c)
      PROVE  InTime'
  BY <1>6, Constants DEF WriteFails, EndTry, elector, Lawful, TypeOK, InTime, Trying,
     Times
<1>7. ASSUME NEW c \in Clients, TrySucceeds(c)
      PROVE  InTime'
  BY <1>7, Constants DEF TrySucceeds, EndTry, Lawful, TypeOK, InTime, Trying, Times
<1>8. ASSUME NEW c \in Clients, EndRenew(c)
      PROVE  InTime'
  BY <1>8, Constants DEF EndRenew, EndTry, elector, Lawful, TypeOK, InTime, Trying, Times
<1>9. ASSUME NEW c \in Clients, Release(c)
      PROVE  InTime'
  BY <1>9, Constants DEF Release, server, elector, Lawful, TypeOK, InTime, Trying, Times
<1>10. ASSUME NEW c \in Clients, Stop(c)
      PROVE  InTime'
  BY <1>10, Constants DEF Stop, EndTry, Lawful, TypeOK, InTime, Trying, Times
<1>11. ASSUME NEW c \in Clients, Restart(c)
      PROVE  InTime'
  BY <1>11, Constants DEF Restart, server, elector, Lawful, TypeOK, InTime, Justified,
     Trying, Times
<1>12. ASSUME NEW record \in late, ServeLate(record)
      PROVE  InTime'
  BY <1>12, Constants DEF ServeLate, Write, elector, Lawful, TypeOK, InTime, Trying, Times
<1>13. CASE Tick
  BY <1>13, Constants DEF Tick, server, elector, Lawful, TypeOK, InTime, Trying, Times
<1>14. CASE UNCHANGED vars
  BY <1>14, Constants DEF vars, Lawful, TypeOK, InTime, Trying, Times
<1> QED
  BY <1>1, <1>2, <1>3, <1>4, <1>5, <1>6, <1>7, <1>8, <1>9, <1>10, <1>11, <1>12, <1>13,
     <1>14 DEF Next

\* Only a write outdates what an elector knows, and it outdates all of it.
LEMMA NextKeepsInformed ==
  ASSUME Lawful, TypeOK', [Next]_vars
  PROVE  Informed'
<1>1. ASSUME NEW c \in Clients, Try(c)
      PROVE  Informed'
  BY <1>1, Constants DEF Try, server, elector, Lawful, TypeOK, Informed, Record, Times
<1>2. ASSUME NEW c \in Clients, GetFails(c)
      PROVE  Informed'
  BY <1>2, Constants DEF GetFails, EndTry, server, elector, Lawful, TypeOK, Informed,
     Record, Times
<1>3. ASSUME NEW c \in Clients, GetNotFound(c)
      PROVE  Informed'
  BY <1>3, Constants DEF GetNotFound, server, elector, Lawful, TypeOK, Informed,
     Record, Times
<1>4. ASSUME NEW c \in Clients, GetReturns(c)
      PROVE  Informed'
  <2>1. UNCHANGED <<lease, created>> /\ created /\ fresh' = fresh \cup {c} /\ seen' = seen \cup {c}
    BY <1>4 DEF GetReturns, Observe
  <2>2. observed'[c] = lease.holder /\ Second * lease.renew <= observedTime'[c]
    BY <1>4 DEF GetReturns, Observe, elector, Lawful, TypeOK, Informed, InOrder
  <2>3. \A d \in Clients \ {c} : observed'[d] = observed[d] /\ observedTime'[d] = observedTime[d]
    BY <1>4 DEF GetReturns, Observe, elector, Lawful, TypeOK
  <2> QED BY <2>1, <2>2, <2>3 DEF Lawful, Informed
<1>5. ASSUME NEW c \in Clients, ServeWrite(c)
      PROVE  Informed'
  BY <1>5, Constants DEF ServeWrite, Write, elector, Lawful, TypeOK, Informed,
     Record, Times
<1>6. ASSUME NEW c \in Clients, WriteFails(c)
      PROVE  Informed'
  BY <1>6, Constants DEF WriteFails, EndTry, elector, Lawful, TypeOK, Informed,
     Record, Times
<1>7. ASSUME NEW c \in Clients, TrySucceeds(c)
      PROVE  Informed'
  <2>1. c \notin fresh /\ (c \in seen => lease.holder = c)
    BY <1>7 DEF TrySucceeds, Claimed, Lawful, Unanswered
  <2>2. c \in fresh' => lease.holder = c /\ created
    BY <1>7, <2>1, RequestMade, Constants DEF TrySucceeds, Lawful, Trying, Informed
  <2>3. Second * lease.renew <= now
    BY DEF Lawful, InOrder
  <2>4. observed'[c] = c /\ observedTime'[c] = now
    BY <1>7 DEF TrySucceeds, Lawful, TypeOK
  <2>5. \A d \in Clients \ {c} : observed'[d] = observed[d] /\ observedTime'[d] = observedTime[d]
    BY <1>7 DEF TrySucceeds, Lawful, TypeOK
  <2>6. UNCHANGED <<lease, created, seen>> /\ fresh' \subseteq fresh \cup {c}
    BY <1>7 DEF TrySucceeds
  <2> QED BY <2>1, <2>2, <2>3, <2>4, <2>5, <2>6 DEF Lawful, Informed
<1>8. ASSUME NEW c \in Clients, EndRenew(c)
      PROVE  Informed'
  BY <1>8, Constants DEF EndRenew, EndTry, elector, Lawful, TypeOK, Informed, Record,
     Times
<1>9. ASSUME NEW c \in Clients, Release(c)
      PROVE  Informed'
  BY <1>9, Constants DEF Release, server, elector, Lawful, TypeOK, Informed, Record, Times
<1>10. ASSUME NEW c \in Clients, Stop(c)
      PROVE  Informed'
  BY <1>10, Constants DEF Stop, EndTry, Lawful, TypeOK, Informed, Record, Times
<1>11. ASSUME NEW c \in Clients, Restart(c)
      PROVE  Informed'
  BY <1>11, Constants DEF Restart, server, elector, Lawful, TypeOK, Informed, Record,
     Times
<1>12. ASSUME NEW record \in late, ServeLate(record)
      PROVE  Informed'
  BY <1>12, Constants DEF ServeLate, Write, elector, Lawful, TypeOK, Informed,
     Record, Times
<1>13. CASE Tick
  BY <1>13, Constants DEF Tick, server, elector, Lawful, TypeOK, Informed, Record, Times
<1>14. CASE UNCHANGED vars
  BY <1>14, Constants DEF vars, Lawful, TypeOK, Informed, Record, Times
<1> QED
  BY <1>1, <1>2, <1>3, <1>4, <1>5, <1>6, <1>7, <1>8, <1>9, <1>10, <1>11, <1>12, <1>13,
     <1>14 DEF Next

\* The write that carries a claim out takes the versions of all, and later writes
\* take the claim out of sight.
LEMMA NextKeepsUnanswered ==
  ASSUME Lawful, TypeOK', [Next]_vars
  PROVE  Unanswered'
<1>1. ASSUME NEW c \in Clients,
             Try(c) \/ GetFails(c) \/ GetNotFound(c) \/ Release(c) \/ Restart(c)
      PROVE  Unanswered'
  BY <1>1 DEF Try, GetFails, GetNotFound, Release, Restart, EndTry, server, elector, Lawful,
     TypeOK, Unanswered, Claimed, Trying, Justified
<1>2. ASSUME NEW c \in Clients, GetReturns(c)
      PROVE  Unanswered'
  <2>1. /\ UNCHANGED <<lease, phase>> /\ pc'[c] \in {"idle", "update"}
        /\ fresh' = fresh \cup {c} /\ seen' = seen \cup {c}
        /\ \A d \in Clients \ {c} : pc'[d] = pc[d]
    BY <1>2 DEF GetReturns, Observe, EndTry, Lawful, TypeOK
  <2> QED BY <2>1 DEF Lawful, Unanswered, Claimed, Trying
<1>3. ASSUME NEW c \in Clients, ServeWrite(c)
      PROVE  Unanswered'
  <2>1. /\ UNCHANGED phase /\ fresh' = {} /\ lease' = Request(c)
        /\ \A d \in Clients \ {c} : pc'[d] = pc[d]
    BY <1>3 DEF ServeWrite, Write, Lawful, TypeOK
  <2>2. seen' = {} \/ (seen' = seen /\ lease' = lease)
    BY <1>3 DEF ServeWrite, Write
  <2>3. Trying(c)' => lease'.holder = c
    BY <2>1, RequestMade DEF Lawful, Trying
  <2> QED BY <2>1, <2>2, <2>3 DEF Lawful, Unanswered, Claimed, Trying
<1>4. ASSUME NEW record \in late, ServeLate(record)
      PROVE  Unanswered'
  <2>1. UNCHANGED <<phase, pc>> /\ fresh' = {}
    BY <1>4 DEF ServeLate
  <2>2. seen' = {} \/ (seen' = seen /\ lease' = lease)
    BY <1>4 DEF ServeLate, Write
  <2> QED BY <2>1, <2>2 DEF Lawful, Unanswered, Claimed, Trying
<1>5. ASSUME NEW c \in Clients, WriteFails(c) \/ TrySucceeds(c) \/ EndRenew(c) \/ Stop(c)
      PROVE  Unanswered'
  <2>1. /\ UNCHANGED lease /\ pc'[c] = "idle"
        /\ fresh' \subseteq fresh \cup {c} /\ seen' \subseteq seen
        /\ \A d \in Clients \ {c} : pc'[d] = pc[d] /\ phase'[d] = phase[d]
    BY <1>5 DEF WriteFails, TrySucceeds, EndRenew, Stop, EndTry, Lawful, TypeOK
  <2> QED BY <2>1 DEF Lawful, Unanswered, Claimed, Trying
<1>6. CASE Tick \/ UNCHANGED vars
  BY <1>6 DEF Tick, server, vars, Lawful, Unanswered, Claimed, Trying
<1> QED BY <1>1, <1>2, <1>3, <1>4, <1>5, <1>6 DEF Next

\* A request that is left behind at a server that would carry it out.
GoodRequest(c) ==
  /\ Second * Request(c).renew <= now
  /\ Request(c).holder \in {c, NoOne}
  /\ Request(c).holder = lease.holder /\ Request(c).holder # NoOne =>
       lease.renew <= Request(c).renew

\* It does not go back behind the record of an earlier try of its sender.
LEMMA RequestsInOrder ==
  ASSUME Lawful, NEW c \in Clients, Applicable(c)
  PROVE  GoodRequest(c)
<1>1. Second * Request(c).renew <= start[c] /\ start[c] <= now
  BY RequestMade DEF Lawful, InTime
<1>2. Request(c).holder \in {c, NoOne}
  BY RequestMade DEF Lawful
<1>3. start[c] \in Nat /\ now \in Nat /\ Request(c).renew \in Nat /\ lease.renew \in Nat
  BY RequestMade, Constants DEF Lawful, TypeOK, Times, Record
<1>4. ASSUME Request(c).holder = lease.holder, Request(c).holder # NoOne
      PROVE  lease.renew <= Request(c).renew
  <2>1. phase[c] # "release" /\ Request(c).holder = c
    BY <1>4, RequestMade DEF Lawful
  <2>2. Trying(c) /\ pc[c] # "idle"
    BY <2>1, ApplicableIs
  <2>3. Second * lease.renew <= start[c]
    BY <1>4, <2>1, <2>2 DEF Lawful, InOrder
  <2> QED BY <1>3, <2>3, RequestMade DEF Lawful
<1> QED BY <1>1, <1>2, <1>3, <1>4, Constants DEF GoodRequest

\* Records are made in the order of the tries of their senders.
LEMMA NextKeepsInOrder ==
  ASSUME Lawful, TypeOK', [Next]_vars
  PROVE  InOrder'
<1>1. ASSUME NEW c \in Clients, Try(c)
      PROVE  InOrder'
  BY <1>1, Constants DEF Try, server, elector, Lawful, TypeOK, InOrder, Trying,
     Record, Times
<1>2. ASSUME NEW c \in Clients, GetFails(c)
      PROVE  InOrder'
  BY <1>2, Constants DEF GetFails, EndTry, server, elector, Lawful, TypeOK, InOrder,
     Trying, Record, Times
<1>3. ASSUME NEW c \in Clients, GetNotFound(c)
      PROVE  InOrder'
  BY <1>3, Constants DEF GetNotFound, server, elector, Lawful, TypeOK, InOrder,
     Trying, Record, Times
<1>4. ASSUME NEW c \in Clients, GetReturns(c)
      PROVE  InOrder'
  BY <1>4, Constants DEF GetReturns, EndTry, elector, Lawful, TypeOK, InOrder,
     Trying, Record, Times
<1>5. ASSUME NEW c \in Clients, ServeWrite(c)
      PROVE  InOrder'
  <2>1. lease' = Request(c) /\ late' = {} /\ UNCHANGED <<now, phase, start>>
    BY <1>5 DEF ServeWrite, Write
  <2>2. Second * Request(c).renew <= start[c] /\ start[c] <= now
    BY RequestMade DEF Lawful, InTime
  <2>3. Request(c).holder \in {c, NoOne}
    BY RequestMade DEF Lawful
  <2>4. start[c] \in Nat /\ now \in Nat /\ Request(c).renew \in Nat
    BY RequestMade, Constants DEF Lawful, TypeOK, Times, Record
  <2> QED BY <2>1, <2>2, <2>3, <2>4, Constants DEF InOrder
<1>6. ASSUME NEW c \in Clients, WriteFails(c)
      PROVE  InOrder'
  <2>1. \A r \in late' : r \in late \/ (Applicable(c) /\ r = Request(c))
    BY <1>6, AbandonedIs DEF WriteFails
  <2>2. UNCHANGED <<now, lease>>
    BY <1>6 DEF WriteFails
  <2>3. \A d \in Clients : Trying(d)' /\ pc'[d] # "idle" =>
          d # c /\ Trying(d) /\ pc[d] # "idle" /\ start'[d] = start[d]
    BY <1>6 DEF WriteFails, EndTry, Trying, Lawful, TypeOK
  <2>4. Applicable(c) => GoodRequest(c)
    BY RequestsInOrder
  <2>5. \A r \in late' : Second * r.renew <= now
    BY <2>1, <2>4 DEF GoodRequest, Lawful, InOrder
  <2>6. \A r \in late' : r.holder = lease.holder /\ r.holder # NoOne => lease.renew <= r.renew
    BY <2>1, <2>4 DEF GoodRequest, Lawful, InOrder
  <2>7. ASSUME NEW d \in Clients, Trying(d)', pc'[d] # "idle"
        PROVE  /\ lease.holder = d => Second * lease.renew <= start'[d]
               /\ \A r \in late' : r.holder = d => Second * r.renew <= start'[d]
    BY <2>1, <2>3, <2>4, <2>7, Constants DEF GoodRequest, Lawful, InOrder
  <2> QED BY <2>2, <2>5, <2>6, <2>7 DEF Lawful, InOrder
<1>7. ASSUME NEW c \in Clients, TrySucceeds(c)
      PROVE  InOrder'
  BY <1>7, Constants DEF TrySucceeds, EndTry, Lawful, TypeOK, InOrder, Trying,
     Record, Times
<1>8. ASSUME NEW c \in Clients, EndRenew(c)
      PROVE  InOrder'
  <2>1. \A r \in late' : r \in late \/ (Applicable(c) /\ r = Request(c))
    BY <1>8, AbandonedIs DEF EndRenew
  <2>2. UNCHANGED <<now, lease>>
    BY <1>8 DEF EndRenew
  <2>3. \A d \in Clients : Trying(d)' /\ pc'[d] # "idle" =>
          d # c /\ Trying(d) /\ pc[d] # "idle" /\ start'[d] = start[d]
    BY <1>8 DEF EndRenew, EndTry, Trying, Lawful, TypeOK
  <2>4. Applicable(c) => GoodRequest(c)
    BY RequestsInOrder
  <2>5. \A r \in late' : Second * r.renew <= now
    BY <2>1, <2>4 DEF GoodRequest, Lawful, InOrder
  <2>6. \A r \in late' : r.holder = lease.holder /\ r.holder # NoOne => lease.renew <= r.renew
    BY <2>1, <2>4 DEF GoodRequest, Lawful, InOrder
  <2>7. ASSUME NEW d \in Clients, Trying(d)', pc'[d] # "idle"
        PROVE  /\ lease.holder = d => Second * lease.renew <= start'[d]
               /\ \A r \in late' : r.holder = d => Second * r.renew <= start'[d]
    BY <2>1, <2>3, <2>4, <2>7, Constants DEF GoodRequest, Lawful, InOrder
  <2> QED BY <2>2, <2>5, <2>6, <2>7 DEF Lawful, InOrder
<1>9. ASSUME NEW c \in Clients, Release(c)
      PROVE  InOrder'
  BY <1>9, Constants DEF Release, server, elector, Lawful, TypeOK, InOrder, Trying,
     Record, Times
<1>10. ASSUME NEW c \in Clients, Stop(c)
      PROVE  InOrder'
  <2>1. \A r \in late' : r \in late \/ (Applicable(c) /\ r = Request(c))
    BY <1>10, AbandonedIs DEF Stop
  <2>2. UNCHANGED <<now, lease>>
    BY <1>10 DEF Stop
  <2>3. \A d \in Clients : Trying(d)' /\ pc'[d] # "idle" =>
          d # c /\ Trying(d) /\ pc[d] # "idle" /\ start'[d] = start[d]
    BY <1>10 DEF Stop, EndTry, Trying, Lawful, TypeOK
  <2>4. Applicable(c) => GoodRequest(c)
    BY RequestsInOrder
  <2>5. \A r \in late' : Second * r.renew <= now
    BY <2>1, <2>4 DEF GoodRequest, Lawful, InOrder
  <2>6. \A r \in late' : r.holder = lease.holder /\ r.holder # NoOne => lease.renew <= r.renew
    BY <2>1, <2>4 DEF GoodRequest, Lawful, InOrder
  <2>7. ASSUME NEW d \in Clients, Trying(d)', pc'[d] # "idle"
        PROVE  /\ lease.holder = d => Second * lease.renew <= start'[d]
               /\ \A r \in late' : r.holder = d => Second * r.renew <= start'[d]
    BY <2>1, <2>3, <2>4, <2>7, Constants DEF GoodRequest, Lawful, InOrder
  <2> QED BY <2>2, <2>5, <2>6, <2>7 DEF Lawful, InOrder
<1>11. ASSUME NEW c \in Clients, Restart(c)
      PROVE  InOrder'
  BY <1>11, Constants DEF Restart, server, elector, Lawful, TypeOK, InOrder, Justified,
     Trying, Record, Times
<1>12. ASSUME NEW record \in late, ServeLate(record)
      PROVE  InOrder'
  BY <1>12, Constants DEF ServeLate, Write, elector, Lawful, TypeOK, InOrder, Trying,
     Record, Times
<1>13. CASE Tick
  BY <1>13, Constants DEF Tick, server, elector, Lawful, TypeOK, InOrder, Trying,
     Record, Times
<1>14. CASE UNCHANGED vars
  BY <1>14, Constants DEF vars, Lawful, TypeOK, InOrder, Trying, Record, Times
<1> QED
  BY <1>1, <1>2, <1>3, <1>4, <1>5, <1>6, <1>7, <1>8, <1>9, <1>10, <1>11, <1>12, <1>13,
     <1>14 DEF Next

\* A claim is sent only for a lease that is free, expired or the client's own.
LEMMA NextKeepsJustified ==
  ASSUME Lawful, TypeOK', [Next]_vars
  PROVE  Justified'
<1>1. ASSUME NEW c \in Clients, Try(c)
      PROVE  Justified'
  BY <1>1, Constants DEF Try, server, elector, Lawful, TypeOK, Justified, Expired,
     Trying, Record, Times
<1>2. ASSUME NEW c \in Clients, GetFails(c)
      PROVE  Justified'
  BY <1>2, Constants DEF GetFails, EndTry, server, elector, Lawful, TypeOK,
     Justified, Expired, Trying, Record, Times
<1>3. ASSUME NEW c \in Clients, GetNotFound(c)
      PROVE  Justified'
  BY <1>3, Constants DEF GetNotFound, server, elector, Lawful, TypeOK, Justified,
     Expired, Trying, Record, Times
<1>4. ASSUME NEW c \in Clients, GetReturns(c)
      PROVE  Justified'
  <2>1. UNCHANGED <<now, lease, phase, late>> /\ pc[c] = "get" /\ created
    BY <1>4 DEF GetReturns
  <2>2. Trying(c) /\ phase[c] \notin {"release", "stopped"}
    BY <2>1 DEF Lawful, Justified, Trying
  <2>3. observed'[c] = lease.holder /\ Second * lease.renew <= observedTime'[c]
    BY <1>4, NextKeepsInformed DEF GetReturns, Observe, Informed
  <2>4. pc' = [pc EXCEPT ![c] = pc'[c]] /\ pc'[c] \in {"idle", "update"}
    BY <1>4 DEF GetReturns, EndTry, Lawful, TypeOK
  <2>5. ASSUME pc'[c] = "update"
        PROVE  lease.holder \in {NoOne, c} \/ Expired
    <3>1. ~Held(c)
      BY <1>4, <2>5 DEF GetReturns, EndTry, Lawful, TypeOK
    <3>2. ASSUME ~(observedTime'[c] + RecordedDuration > start[c])
          PROVE  Expired
      <4>1. start[c] <= now /\ start[c] \in Nat /\ now \in Nat /\ observedTime'[c] \in Nat
            /\ lease.renew \in Nat
        BY Constants DEF Lawful, TypeOK, InTime, Times, Record
      <4> QED BY <2>3, <3>2, <4>1, Constants DEF Expired
    <3> QED BY <2>3, <3>1, <3>2 DEF Held, IsLeader
  <2>6. \A d \in Clients \ {c} : pc'[d] = pc[d] /\ (d \in fresh' <=> d \in fresh)
    BY <1>4, <2>4 DEF GetReturns, Lawful, TypeOK
  <2> QED BY <2>1, <2>2, <2>4, <2>5, <2>6 DEF Lawful, Justified, Trying, Expired
<1>5. ASSUME NEW c \in Clients, ServeWrite(c)
      PROVE  Justified'
  BY <1>5, Constants DEF ServeWrite, Applicable, Write, elector, Lawful, TypeOK,
     Justified,
     Expired, Trying, Record, Times
<1>6. ASSUME NEW c \in Clients, WriteFails(c)
      PROVE  Justified'
  <2>1. \A r \in late' : r \in late \/ (Applicable(c) /\ r = Request(c))
    BY <1>6, AbandonedIs DEF WriteFails, elector
  <2>2. UNCHANGED <<now, lease>> /\ fresh' \subseteq fresh /\ pc'[c] = "idle"
    BY <1>6 DEF WriteFails, elector, EndTry, Lawful, TypeOK
  <2>3. \A d \in Clients \ {c} : pc'[d] = pc[d] /\ phase'[d] = phase[d]
    BY <1>6 DEF WriteFails, elector, EndTry, Lawful, TypeOK
  <2>4. \A r \in late' : r.holder # NoOne => lease.holder \in {NoOne, r.holder} \/ Expired
    BY <2>1, ApplicableIs, RequestMade DEF Lawful, Justified
  <2> QED BY <2>2, <2>3, <2>4 DEF Lawful, Justified, Trying, Expired
<1>7. ASSUME NEW c \in Clients, TrySucceeds(c)
      PROVE  Justified'
  BY <1>7, Constants DEF TrySucceeds, EndTry, Lawful, TypeOK, Justified, Expired,
     Trying, Record, Times
<1>8. ASSUME NEW c \in Clients, EndRenew(c)
      PROVE  Justified'
  <2>1. \A r \in late' : r \in late \/ (Applicable(c) /\ r = Request(c))
    BY <1>8, AbandonedIs DEF EndRenew, elector
  <2>2. UNCHANGED <<now, lease>> /\ fresh' \subseteq fresh /\ pc'[c] = "idle"
    BY <1>8 DEF EndRenew, elector, EndTry, Lawful, TypeOK
  <2>3. \A d \in Clients \ {c} : pc'[d] = pc[d] /\ phase'[d] = phase[d]
    BY <1>8 DEF EndRenew, elector, EndTry, Lawful, TypeOK
  <2>4. \A r \in late' : r.holder # NoOne => lease.holder \in {NoOne, r.holder} \/ Expired
    BY <2>1, ApplicableIs, RequestMade DEF Lawful, Justified
  <2> QED BY <2>2, <2>3, <2>4 DEF Lawful, Justified, Trying, Expired
<1>9. ASSUME NEW c \in Clients, Release(c)
      PROVE  Justified'
  BY <1>9 DEF Release, server, elector, IsLeader, Lawful, TypeOK, Informed, Justified,
     Expired, Trying
<1>10. ASSUME NEW c \in Clients, Stop(c)
      PROVE  Justified'
  <2>1. \A r \in late' : r \in late \/ (Applicable(c) /\ r = Request(c))
    BY <1>10, AbandonedIs DEF Stop
  <2>2. UNCHANGED <<now, lease>> /\ fresh' \subseteq fresh /\ pc'[c] = "idle"
    BY <1>10 DEF Stop, EndTry, Lawful, TypeOK
  <2>3. \A d \in Clients \ {c} : pc'[d] = pc[d] /\ phase'[d] = phase[d]
    BY <1>10 DEF Stop, EndTry, Lawful, TypeOK
  <2>4. \A r \in late' : r.holder # NoOne => lease.holder \in {NoOne, r.holder} \/ Expired
    BY <2>1, ApplicableIs, RequestMade DEF Lawful, Justified
  <2> QED BY <2>2, <2>3, <2>4 DEF Lawful, Justified, Trying, Expired
<1>11. ASSUME NEW c \in Clients, Restart(c)
      PROVE  Justified'
  BY <1>11, Constants DEF Restart, server, elector, Lawful, TypeOK, Justified,
     Expired, Trying, Record, Times
<1>12. ASSUME NEW record \in late, ServeLate(record)
      PROVE  Justified'
  BY <1>12, Constants DEF ServeLate, Write, elector, Lawful, TypeOK, Justified,
     Expired, Trying, Record, Times
<1>13. CASE Tick
  BY <1>13, Constants DEF Tick, server, elector, Lawful, TypeOK, Justified, Expired,
     Trying, Record, Times
<1>14. CASE UNCHANGED vars
  BY <1>14, Constants DEF vars, Lawful, TypeOK, Justified, Expired, Trying, Record, Times
<1> QED
  BY <1>1, <1>2, <1>3, <1>4, <1>5, <1>6, <1>7, <1>8, <1>9, <1>10, <1>11, <1>12, <1>13,
     <1>14 DEF Next

\* Nobody else's request is carried out while the holder of the lease leads.
LEMMA NextKeepsLeader ==
  ASSUME LeaseOutlastsLead, Election, TypeOK', [Next]_vars
  PROVE  HolderLeads'
<1>1. ASSUME NEW c \in Clients, Try(c)
      PROVE  HolderLeads'
  BY <1>1, Constants DEF Try, server, elector, Election, Lawful, TypeOK, HolderLeads, Leads,
     Claimed, Until, Request, Justified, InTime, Trying, Record, Times
<1>2. ASSUME NEW c \in Clients, GetFails(c)
      PROVE  HolderLeads'
  BY <1>2, Constants DEF GetFails, EndTry, server, elector, Election, Lawful, TypeOK,
     HolderLeads, Leads, Claimed, Until, Request, Justified, InTime, Trying, Record,
     Times
<1>3. ASSUME NEW c \in Clients, GetNotFound(c)
      PROVE  HolderLeads'
  BY <1>3, Constants DEF GetNotFound, server, elector, Election, Lawful, TypeOK, HolderLeads,
     Leads, Claimed, Until, Request, Justified, InTime, Trying, Record, Times
<1>4. ASSUME NEW c \in Clients, GetReturns(c)
      PROVE  HolderLeads'
  BY <1>4, Constants DEF GetReturns, EndTry, elector, Election, Lawful, TypeOK, HolderLeads,
     Leads, Claimed, Until, Request, Justified, InTime, Trying, Record, Times
<1>5. ASSUME NEW c \in Clients, ServeWrite(c)
      PROVE  HolderLeads'
  <2>1. lease' = Request(c) /\ late' = {} /\ UNCHANGED <<now, phase, start, rest, deadline>>
    BY <1>5 DEF ServeWrite, Write
  <2>2. pc'[c] = "done" /\ \A d \in Clients \ {c} : pc'[d] = pc[d]
    BY <1>5 DEF ServeWrite, Election, Lawful, TypeOK
  <2>3. Request(c)' = Request(c)
    BY <2>1 DEF Request
  <2>4. ASSUME NEW d \in Clients, Leads(d)
        PROVE  d = c /\ Trying(c) /\ lease.renew <= Request(c).renew
    <3>1. d = c /\ Trying(c) /\ Applicable(c)
      BY <1>5, <2>4, OnlyLeaderWrites DEF ServeWrite
    <3>2. lease.holder = c
      BY <2>4, <3>1, LeaderUnexpired
    <3>3. Request(c).holder = c
      BY <3>1, RequestMade DEF Election, Lawful, Trying
    <3> QED BY <3>1, <3>2, <3>3, RequestsInOrder, Constants DEF GoodRequest, Election
  <2>5. \A d \in Clients : Leads(d)' => d = c /\ Trying(c)
    BY <2>1, <2>2, <2>4 DEF Leads, Trying
  <2>6. Trying(c) => Request(c).holder = c
    BY RequestMade DEF Election, Lawful, Trying
  <2>7. \A d \in Clients : Claimed(d)' => d = c
    BY <2>1, <2>5 DEF Claimed, Leads, Trying
  <2>8. ASSUME NEW d \in Clients, phase'[d] = "renew"
        PROVE  Until(d)' < Second * lease'.renew + RecordedDuration
    <3>1. d = c /\ lease.renew <= Request(c).renew
      BY <2>1, <2>4, <2>8 DEF Leads
    <3>2. Until(c) < Second * lease.renew + RecordedDuration /\ Until(c)' = Until(c)
      BY <2>1, <2>8, <3>1 DEF Election, Lawful, HolderLeads, Until
    <3>3. lease.renew \in Nat /\ Request(c).renew \in Nat /\ Until(c) \in Nat
      BY RequestMade, Constants DEF Election, Lawful, TypeOK, Record, Until, Times
    <3>4. Second * lease.renew <= Second * Request(c).renew
      BY <3>1, <3>3, Constants
    <3> QED BY <2>1, <3>1, <3>2, <3>3, <3>4, Constants
  <2> QED BY <2>1, <2>3, <2>5, <2>6, <2>7, <2>8 DEF HolderLeads
<1>6. ASSUME NEW c \in Clients, WriteFails(c)
      PROVE  HolderLeads'
  <2>1. \A r \in late' : r \in late \/ (Applicable(c) /\ r = Request(c))
    BY <1>6, AbandonedIs DEF WriteFails, elector
  <2>2. UNCHANGED <<now, lease>> /\ pc'[c] = "idle" /\ (phase'[c] = "renew" => phase[c] = "renew")
    BY <1>6 DEF WriteFails, elector, EndTry, Election, Lawful, TypeOK
  <2>3. \A d \in Clients \ {c} : phase'[d] = phase[d] /\ pc'[d] = pc[d]
          /\ deadline'[d] = deadline[d] /\ rest'[d] = rest[d] /\ start'[d] = start[d]
    BY <1>6 DEF WriteFails, elector, EndTry, Election, Lawful, TypeOK
  <2>4. \A d \in Clients \ {c} : (Leads(d)' <=> Leads(d)) /\ (Claimed(d)' <=> Claimed(d))
          /\ Until(d)' = Until(d) /\ Request(d)' = Request(d)
    BY <2>2, <2>3 DEF Leads, Claimed, Trying, Until, Request
  <2>5. ~Claimed(c)' /\ (Leads(c)' => Leads(c))
    BY <2>2 DEF Claimed, Leads
  <2>6. phase'[c] = "renew" => Until(c)' = Until(c)
    BY <1>6, <2>2 DEF WriteFails, elector, EndTry, Until, Election, Lawful, TypeOK, InTime
  <2>7. ASSUME NEW d \in Clients, Leads(d), NEW r \in late'
        PROVE  r.holder # NoOne
    BY <2>1, <2>7, OnlyLeaderWrites, RequestMade, Constants DEF Election, Lawful, HolderLeads,
       Trying
  <2>8. ASSUME NEW d \in Clients \ {c}, Claimed(d)
        PROVE  late' = {}
    <3>1. Leads(d)
      BY <2>8 DEF Claimed, Leads, Trying
    <3>2. late = {} /\ ~Applicable(c)
      BY <2>8, <3>1, OnlyLeaderWrites DEF Election, Lawful, HolderLeads
    <3> QED BY <2>1, <3>2
  <2> QED BY <2>2, <2>3, <2>4, <2>5, <2>6, <2>7, <2>8 DEF Election, Lawful, HolderLeads
<1>7. ASSUME NEW c \in Clients, TrySucceeds(c)
      PROVE  HolderLeads'
  <2>1. UNCHANGED <<now, lease, late>> /\ Leads(c) /\ Claimed(c)
    BY <1>7 DEF TrySucceeds, Leads, Claimed, Trying
  <2>2. phase'[c] = "renew" /\ pc'[c] = "idle" /\ deadline'[c] = NoTime
        /\ rest'[c] \in 0 .. RetryPeriod
    BY <1>7 DEF TrySucceeds, EndTry, Election, Lawful, TypeOK
  <2>3. \A d \in Clients \ {c} : phase'[d] = phase[d] /\ pc'[d] = pc[d]
          /\ deadline'[d] = deadline[d] /\ rest'[d] = rest[d] /\ start'[d] = start[d]
    BY <1>7 DEF TrySucceeds, EndTry, Election, Lawful, TypeOK
  <2>4. lease = Request(c) /\ now <= start[c] + MaxTry
    BY <2>1 DEF Election, Lawful, HolderLeads, InTime, Claimed
  <2>5. start[c] < Second * lease.renew + Second /\ start[c] \in Nat /\ lease.renew \in Nat
        /\ now \in Nat
    BY <2>4, RequestMade, Constants DEF Election, Lawful, TypeOK, Times, Record
  <2>6. Until(c)' < Second * lease.renew + RecordedDuration
    BY <2>1, <2>2, <2>4, <2>5, Constants DEF Until, LeaseOutlastsLead
  <2>7. lease.holder = c /\ \A r \in late : r.holder # NoOne
    BY <2>1 DEF Election, Lawful, HolderLeads
  <2>8. \A d \in Clients \ {c} : (Leads(d)' <=> Leads(d)) /\ (Claimed(d)' <=> Claimed(d))
          /\ Until(d)' = Until(d) /\ Request(d)' = Request(d)
    BY <2>1, <2>3 DEF Leads, Claimed, Trying, Until, Request
  <2>9. ~Claimed(c)'
    BY <2>2 DEF Claimed
  <2> QED BY <2>1, <2>3, <2>6, <2>7, <2>8, <2>9 DEF Election, Lawful, HolderLeads
<1>8. ASSUME NEW c \in Clients, EndRenew(c)
      PROVE  HolderLeads'
  <2>1. \A r \in late' : r \in late \/ (Applicable(c) /\ r = Request(c))
    BY <1>8, AbandonedIs DEF EndRenew, elector
  <2>2. UNCHANGED <<now, lease>> /\ pc'[c] = "idle" /\ (phase'[c] = "renew" => phase[c] = "renew")
    BY <1>8 DEF EndRenew, elector, EndTry, Election, Lawful, TypeOK
  <2>3. \A d \in Clients \ {c} : phase'[d] = phase[d] /\ pc'[d] = pc[d]
          /\ deadline'[d] = deadline[d] /\ rest'[d] = rest[d] /\ start'[d] = start[d]
    BY <1>8 DEF EndRenew, elector, EndTry, Election, Lawful, TypeOK
  <2>4. \A d \in Clients \ {c} : (Leads(d)' <=> Leads(d)) /\ (Claimed(d)' <=> Claimed(d))
          /\ Until(d)' = Until(d) /\ Request(d)' = Request(d)
    BY <2>2, <2>3 DEF Leads, Claimed, Trying, Until, Request
  <2>5. ~Claimed(c)' /\ (Leads(c)' => Leads(c))
    BY <2>2 DEF Claimed, Leads
  <2>6. phase'[c] = "renew" => Until(c)' = Until(c)
    BY <1>8, <2>2 DEF EndRenew, elector, EndTry, Until, Election, Lawful, TypeOK, InTime
  <2>7. ASSUME NEW d \in Clients, Leads(d), NEW r \in late'
        PROVE  r.holder # NoOne
    BY <2>1, <2>7, OnlyLeaderWrites, RequestMade, Constants DEF Election, Lawful, HolderLeads,
       Trying
  <2>8. ASSUME NEW d \in Clients \ {c}, Claimed(d)
        PROVE  late' = {}
    <3>1. Leads(d)
      BY <2>8 DEF Claimed, Leads, Trying
    <3>2. late = {} /\ ~Applicable(c)
      BY <2>8, <3>1, OnlyLeaderWrites DEF Election, Lawful, HolderLeads
    <3> QED BY <2>1, <3>2
  <2> QED BY <2>2, <2>3, <2>4, <2>5, <2>6, <2>7, <2>8 DEF Election, Lawful, HolderLeads
<1>9. ASSUME NEW c \in Clients, Release(c)
      PROVE  HolderLeads'
  BY <1>9, Constants DEF Release, server, elector, Election, Lawful, TypeOK, HolderLeads,
     Leads, Claimed, Until, Request, Justified, InTime, Trying, Record, Times
<1>10. ASSUME NEW c \in Clients, Stop(c)
      PROVE  HolderLeads'
  <2>1. \A r \in late' : r \in late \/ (Applicable(c) /\ r = Request(c))
    BY <1>10, AbandonedIs DEF Stop
  <2>2. UNCHANGED <<now, lease>> /\ pc'[c] = "idle" /\ (phase'[c] = "renew" => phase[c] = "renew")
    BY <1>10 DEF Stop, EndTry, Election, Lawful, TypeOK
  <2>3. \A d \in Clients \ {c} : phase'[d] = phase[d] /\ pc'[d] = pc[d]
          /\ deadline'[d] = deadline[d] /\ rest'[d] = rest[d] /\ start'[d] = start[d]
    BY <1>10 DEF Stop, EndTry, Election, Lawful, TypeOK
  <2>4. \A d \in Clients \ {c} : (Leads(d)' <=> Leads(d)) /\ (Claimed(d)' <=> Claimed(d))
          /\ Until(d)' = Until(d) /\ Request(d)' = Request(d)
    BY <2>2, <2>3 DEF Leads, Claimed, Trying, Until, Request
  <2>5. ~Claimed(c)' /\ (Leads(c)' => Leads(c))
    BY <2>2 DEF Claimed, Leads
  <2>6. phase'[c] = "renew" => Until(c)' = Until(c)
    BY <1>10, <2>2 DEF Stop, EndTry, Until, Election, Lawful, TypeOK, InTime
  <2>7. ASSUME NEW d \in Clients, Leads(d), NEW r \in late'
        PROVE  r.holder # NoOne
    BY <2>1, <2>7, OnlyLeaderWrites, RequestMade, Constants DEF Election, Lawful, HolderLeads,
       Trying
  <2>8. ASSUME NEW d \in Clients \ {c}, Claimed(d)
        PROVE  late' = {}
    <3>1. Leads(d)
      BY <2>8 DEF Claimed, Leads, Trying
    <3>2. late = {} /\ ~Applicable(c)
      BY <2>8, <3>1, OnlyLeaderWrites DEF Election, Lawful, HolderLeads
    <3> QED BY <2>1, <3>2
  <2> QED BY <2>2, <2>3, <2>4, <2>5, <2>6, <2>7, <2>8 DEF Election, Lawful, HolderLeads
<1>11. ASSUME NEW c \in Clients, Restart(c)
      PROVE  HolderLeads'
  BY <1>11, Constants DEF Restart, server, elector, Election, Lawful, TypeOK, HolderLeads,
     Leads, Claimed, Until, Request, Justified, InTime, Trying, Record, Times
<1>12. ASSUME NEW record \in late, ServeLate(record)
      PROVE  HolderLeads'
  <2>1. lease' = record /\ late' = {} /\ UNCHANGED <<now, phase, pc, start, rest, deadline>>
    BY <1>12 DEF ServeLate, Write
  <2>2. ASSUME NEW d \in Clients, Leads(d)
        PROVE  record.holder = d /\ lease.renew <= record.renew /\ ~Claimed(d)
    BY <1>12, <2>2, OnlyLeaderLate
  <2>3. ASSUME NEW d \in Clients, phase[d] = "renew"
        PROVE  Until(d)' < Second * record.renew + RecordedDuration
    <3>1. lease.renew <= record.renew
      BY <2>2, <2>3 DEF Leads
    <3>2. Until(d) < Second * lease.renew + RecordedDuration /\ Until(d)' = Until(d)
      BY <2>1, <2>3 DEF Election, Lawful, HolderLeads, Until
    <3>3. lease.renew \in Nat /\ record.renew \in Nat /\ Until(d) \in Nat
      BY Constants DEF Election, Lawful, TypeOK, Record, Until, Times
    <3>4. Second * lease.renew <= Second * record.renew
      BY <3>1, <3>3, Constants
    <3> QED BY <3>2, <3>3, <3>4, Constants
  <2> QED BY <2>1, <2>2, <2>3 DEF HolderLeads, Leads, Claimed, Trying
<1>13. CASE Tick
  BY <1>13, Constants DEF Tick, server, elector, Election, Lawful, TypeOK, HolderLeads, Leads,
     Claimed, Until, Request, Justified, InTime, Trying, Record, Times
<1>14. CASE UNCHANGED vars
  BY <1>14, Constants DEF vars, Election, Lawful, TypeOK, HolderLeads, Leads, Claimed, Until,
     Request, Justified, InTime, Trying, Record, Times
<1> QED
  BY <1>1, <1>2, <1>3, <1>4, <1>5, <1>6, <1>7, <1>8, <1>9, <1>10, <1>11, <1>12, <1>13,
     <1>14 DEF Next

-----------------------------------------------------------------------------
(* The theorems *)

LEMMA InitElection == Init => Election
<1> SUFFICES ASSUME Init PROVE Election
  OBVIOUS
<1>1. TypeOK
  BY InitType
<1>2. lease.holder = NoOne /\ lease.renew = 0
  BY WholeSeconds, Constants DEF Init, NewRecord
<1>3. InTime /\ InOrder /\ Informed /\ Unanswered /\ Justified
  BY <1>2, Constants DEF Init, InTime, InOrder, Informed, Unanswered, Claimed, Justified, Trying
<1>4. HolderLeads
  BY Constants DEF Init, HolderLeads, Leads, Claimed
<1> QED BY <1>1, <1>3, <1>4 DEF Election, Lawful

\* The parts of the invariant support each other: every one of them is kept by
\* a step from a state in which all of them hold.
LEMMA NextKeepsLawful == Lawful /\ [Next]_vars => Lawful'
<1> SUFFICES ASSUME Lawful, [Next]_vars PROVE Lawful'
  OBVIOUS
<1>1. TypeOK'
  BY NextKeepsType DEF Lawful
<1> QED
  BY <1>1, NextKeepsInTime, NextKeepsInOrder, NextKeepsInformed, NextKeepsUnanswered,
     NextKeepsJustified DEF Lawful

\* Every claim under way is justified, whatever the number of clients and the
\* durations that NewLeaderElector accepts.
THEOREM LawfulCorrect == Spec => []Lawful
<1>1. Init => Lawful
  BY InitElection DEF Election
<1> QED BY <1>1, NextKeepsLawful, PTL DEF Spec

\* The whole invariant holds in every state, whatever the number of clients and
\* the durations, as long as a lease outlasts the lead it gives.
THEOREM ElectionCorrect ==
  ASSUME LeaseOutlastsLead
  PROVE  Spec => []Election
<1>1. ASSUME Election, [Next]_vars PROVE Election'
  <2>1. Lawful'
    BY <1>1, NextKeepsLawful DEF Election
  <2>2. HolderLeads'
    BY <1>1, <2>1, NextKeepsLeader DEF Lawful
  <2> QED BY <2>1, <2>2 DEF Election
<1>2. Election /\ [Next]_vars => Election'
  BY <1>1
<1> QED BY <1>2, InitElection, PTL DEF Spec

\* There is at most one client in renew: it holds the lease, if a lease outlasts
\* the lead it gives.
THEOREM AtMostOneLeaderCorrect ==
  ASSUME LeaseOutlastsLead
  PROVE  Spec => []AtMostOneLeader
<1>1. Election => AtMostOneLeader
  BY DEF Election, HolderLeads, Leads, AtMostOneLeader
<1> QED BY <1>1, ElectionCorrect, PTL

\* Only ServeWrite and ServeLate write the lease; what they write is a request
\* that the server would carry out.
LEMMA LeaseWrites ==
  ASSUME Lawful, [Next]_vars, lease' # lease
  PROVE  \/ \E c \in Clients : Applicable(c) /\ lease' = Request(c)
         \/ lease' \in late
<1>1. CASE \E c \in Clients : ServeWrite(c)
  BY <1>1 DEF ServeWrite, Write
<1>2. CASE \E record \in late : ServeLate(record)
  BY <1>2 DEF ServeLate, Write
<1>3. ASSUME NEW c \in Clients,
             \/ Try(c) \/ GetFails(c) \/ GetNotFound(c) \/ GetReturns(c) \/ WriteFails(c)
             \/ TrySucceeds(c) \/ EndRenew(c) \/ Release(c) \/ Stop(c) \/ Restart(c)
      PROVE  FALSE
  BY <1>3 DEF Try, GetFails, GetNotFound, GetReturns, WriteFails, TrySucceeds, EndRenew,
     Release, Stop, Restart, server
<1>4. CASE Tick \/ UNCHANGED vars
  BY <1>4 DEF Tick, server, vars
<1> QED BY <1>1, <1>2, <1>3, <1>4 DEF Next

\* A write of the server that changes the holder to another client finds the
\* lease expired, be its sender waiting, given up or dead; this needs nothing of
\* the durations that NewLeaderElector does not check.
THEOREM NoEarlyTakeoverCorrect == Spec => NoEarlyTakeover
<1>1. ASSUME Lawful, [Next]_vars,
             lease.holder \notin {NoOne, lease'.holder}, lease'.holder # NoOne
      PROVE  Expired
  <2>1. CASE \E c \in Clients : Applicable(c) /\ lease' = Request(c)
    BY <1>1, <2>1, ApplicableIs, RequestMade DEF Lawful
  <2>2. CASE lease' \in late
    BY <1>1, <2>2 DEF Lawful, Justified
  <2> QED BY <1>1, <2>1, <2>2, LeaseWrites
<1>2. Lawful /\ [Next]_vars =>
        [lease.holder \notin {NoOne, lease'.holder} /\ lease'.holder # NoOne
           => now >= Second * lease.renew + RecordedDuration]_vars
  BY <1>1 DEF Expired
<1> QED BY <1>2, LawfulCorrect, PTL DEF Spec, NoEarlyTakeover

\* A release that the server carries out, early or late, never meets a lease
\* whose holder leads, if a lease outlasts the lead it gives.
THEOREM ReleaseIsSafeCorrect ==
  ASSUME LeaseOutlastsLead
  PROVE  Spec => ReleaseIsSafe
<1>1. ASSUME Election, [Next]_vars, NEW c \in Clients, phase[c] = "renew", lease.holder = c
      PROVE  lease'.holder # NoOne
  <2>1. Leads(c)
    BY <1>1 DEF Leads
  <2>2. CASE \E d \in Clients : Applicable(d) /\ lease' = Request(d)
    BY <1>1, <2>1, <2>2, OnlyLeaderWrites, RequestMade, Constants
       DEF Election, Lawful, Trying
  <2>3. CASE lease' \in late
    BY <1>1, <2>1, <2>3, OnlyLeaderLate, Constants
  <2> QED BY <1>1, <2>2, <2>3, LeaseWrites, Constants DEF Election
<1>2. Election /\ [Next]_vars =>
        [\A c \in Clients : phase[c] = "renew" /\ lease.holder = c => lease'.holder # NoOne]_vars
  BY <1>1
<1> QED BY <1>2, ElectionCorrect, PTL DEF Spec, ReleaseIsSafe
=============================================================================
