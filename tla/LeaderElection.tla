--------------------------- MODULE LeaderElection ---------------------------
(***************************************************************************)
(* Leader election over a Lease: LeaderElector of                          *)
(* src/tools/leaderelection/leaderelection.go on the LeaseLock of          *)
(* src/tools/leaderelection/resourcelock/leaselock.go.                     *)
(*                                                                         *)
(* A try (tryAcquireOrRenew) is a Get and then a Create or an Update; its  *)
(* requests can be answered late, fail, or be carried out with the answer  *)
(* lost, also after their sender has given up or died.                     *)
(*                                                                         *)
(* The clocks of the clients run at the same rate, timers fire on time,    *)
(* and a try takes at most MaxTry: the assumptions under which the         *)
(* timing of the code can work at all.  Resource versions appear as the    *)
(* sets of those who have the current one.                                 *)
(***************************************************************************)
EXTENDS Naturals, FiniteSets

CONSTANTS Clients,          \* identities of the candidates
          NoOne,            \* the empty identity
          LeaseDuration,    \* of the config, in units of time
          RenewDeadline,
          RetryPeriod,
          ReleaseOnCancel,
          Second,           \* units of time in a second
          MaxTry,           \* bound: duration of a try
          MaxLate,          \* bound: requests without a waiting sender
          MaxTime           \* bound: time

\* LeaseDuration as the record has it, in whole seconds.
RecordedDuration == Second * (LeaseDuration \div Second)

\* What NewLeaderElector asks for, and the bounds of the model.
ASSUME LeaderElectionAssumption ==
  /\ NoOne \notin Clients
  /\ LeaseDuration \in Nat /\ RenewDeadline \in Nat /\ RetryPeriod \in Nat \ {0}
  /\ LeaseDuration > RenewDeadline
  /\ 5 * RenewDeadline > 6 * RetryPeriod
  /\ ReleaseOnCancel \in BOOLEAN
  /\ Second \in Nat \ {0} /\ MaxTry \in Nat \ {0} /\ MaxLate \in Nat /\ MaxTime \in Nat

\* What NewLeaderElector does not ask for, and what makes the lease outlive the
\* last moment of its leader: a record can look unchanged for the rest of its
\* second, its update can be answered MaxTry after its start, and RetryPeriod and
\* RenewDeadline pass before the leader gives up.
LeaseOutlastsLead == RecordedDuration >= Second + MaxTry + RetryPeriod + RenewDeadline

VARIABLES now,           \* the time
          lease,         \* the record in the Lease of the API server
          created,       \* whether the Lease exists
          late,          \* requests whose sender no longer waits
          fresh,         \* clients whose LeaseLock.lease has the current version
          seen,          \* clients whose observedRawRecord equals the record
          phase,         \* where Run is: "acquire", "renew", "release" or "stopped"
          pc,            \* where tryAcquireOrRenew or release is
          start,         \* the variable now of tryAcquireOrRenew
          rest,          \* time until the next try may start
          deadline,      \* end of timeoutCtx, NoTime between the rounds of renew
          observed,      \* observedRecord.HolderIdentity
          observedTime   \* observedTime

server == <<lease, created, late, fresh, seen>>
elector == <<observed, observedTime>>
vars == <<now, lease, created, late, fresh, seen, phase, pc, start, rest, deadline,
          observed, observedTime>>

Times == 0 .. MaxTime
NoTime == MaxTime + RenewDeadline + 1

\* LeaderElectionRecord: HolderIdentity, and RenewTime in seconds, as in the
\* marshalled record that is compared.  AcquireTime and LeaderTransitions change
\* only together with HolderIdentity.
Record == [holder : Clients \cup {NoOne}, renew : Nat]
NewRecord(id, t) == [holder |-> id, renew |-> t \div Second]

TypeOK ==
  /\ now \in Times
  /\ lease \in Record
  /\ created \in BOOLEAN
  /\ late \subseteq Record
  /\ fresh \subseteq Clients
  /\ seen \subseteq Clients
  /\ phase \in [Clients -> {"acquire", "renew", "release", "stopped"}]
  /\ pc \in [Clients -> {"idle", "get", "create", "update", "done"}]
  /\ start \in [Clients -> Times]
  /\ rest \in [Clients -> 0 .. RetryPeriod]
  /\ deadline \in [Clients -> 0 .. NoTime]
  /\ observed \in [Clients -> Clients \cup {NoOne}]
  /\ observedTime \in [Clients -> Times]

Init ==
  /\ now = 0
  /\ lease = NewRecord(NoOne, 0)
  /\ created = FALSE
  /\ late = {}
  /\ fresh = {}
  /\ seen = {}
  /\ phase = [c \in Clients |-> "acquire"]
  /\ pc = [c \in Clients |-> "idle"]
  /\ start = [c \in Clients |-> 0]
  /\ rest = [c \in Clients |-> 0]
  /\ deadline = [c \in Clients |-> NoTime]
  /\ observed = [c \in Clients |-> NoOne]
  /\ observedTime = [c \in Clients |-> 0]

-----------------------------------------------------------------------------
(* Tries and their requests *)

IsLeader(c) == observed[c] = c

Trying(c) == phase[c] \in {"acquire", "renew"}

\* The try of c is over and the next may start after t.
EndTry(c, t) ==
  /\ pc' = [pc EXCEPT ![c] = "idle"]
  /\ start' = [start EXCEPT ![c] = 0]
  /\ rest' = [rest EXCEPT ![c] = t]

\* After a failed try: JitterUntil waits RetryPeriod or longer in acquire, the
\* ticker of PollImmediateUntil can be due sooner than that in renew.
Backoff(c) == IF phase[c] = "acquire" THEN RetryPeriod ELSE 1

\* Mutant: every try of renew has a RenewDeadline of its own.
TryRestartsRound(c) ==
  /\ Trying(c)
  /\ pc[c] = "idle"
  /\ rest[c] = 0
  /\ pc' = [pc EXCEPT ![c] = "get"]
  /\ start' = [start EXCEPT ![c] = now]
  /\ deadline' = [deadline EXCEPT ![c] =
       IF phase[c] = "renew" THEN now + RenewDeadline ELSE @]
  /\ UNCHANGED <<now, server, phase, rest, elector>>

\* A try starts; in renew the first one of a round sets the deadline.
Try(c) ==
  /\ Trying(c)
  /\ pc[c] = "idle"
  /\ rest[c] = 0
  /\ pc' = [pc EXCEPT ![c] = "get"]
  /\ start' = [start EXCEPT ![c] = now]
  /\ deadline' = [deadline EXCEPT ![c] =
       IF phase[c] = "renew" /\ @ = NoTime THEN now + RenewDeadline ELSE @]
  /\ UNCHANGED <<now, server, phase, rest, elector>>

\* Get fails with another error than NotFound.
GetFails(c) ==
  /\ pc[c] = "get"
  /\ EndTry(c, Backoff(c))
  /\ UNCHANGED <<now, server, phase, deadline, elector>>

\* Get finds no Lease: Create is called.
GetNotFound(c) ==
  /\ pc[c] = "get"
  /\ ~created
  /\ pc' = [pc EXCEPT ![c] = "create"]
  /\ UNCHANGED <<now, server, phase, start, rest, deadline, elector>>

\* Mutant: the time of the observation is that of the last change of holder.
ObserveHolder(c) ==
  /\ seen' = seen \cup {c}
  /\ observed' = [observed EXCEPT ![c] = lease.holder]
  /\ observedTime' = [observedTime EXCEPT ![c] = IF observed[c] = lease.holder THEN @ ELSE now]

\* The record is observed, with the time, if it differs from the last one.
Observe(c) ==
  /\ seen' = seen \cup {c}
  /\ IF c \in seen THEN UNCHANGED elector
     ELSE /\ observed' = [observed EXCEPT ![c] = lease.holder]
          /\ observedTime' = [observedTime EXCEPT ![c] = now]

\* The lock is held by another client and has not expired.
Held(c) ==
  /\ lease.holder # NoOne
  /\ observedTime'[c] + RecordedDuration > start[c]
  /\ ~IsLeader(c)'

\* Get returns a record: the try ends if the lock is held, else Update is called.
GetReturns(c) ==
  /\ pc[c] = "get"
  /\ created
  /\ fresh' = fresh \cup {c}
  /\ Observe(c)
  /\ \/ /\ Held(c)
        /\ EndTry(c, Backoff(c))
     \/ /\ ~Held(c)
        /\ pc' = [pc EXCEPT ![c] = "update"]
        /\ UNCHANGED <<start, rest>>
  /\ UNCHANGED <<now, lease, created, late, phase, deadline>>

\* What c asks the server to write: its claim, or the empty record of release.
Request(c) ==
  IF phase[c] = "release" THEN NewRecord(NoOne, start[c]) ELSE NewRecord(c, start[c])

\* Mutant: the Update does not carry the version of the Lease it changes.
ApplicableUnversioned(c) ==
  \/ pc[c] = "create" /\ ~created
  \/ pc[c] = "update"

\* Whether the server would carry out the request of c: a Create only when there
\* is no Lease, an Update only with the current version.
Applicable(c) ==
  \/ pc[c] = "create" /\ ~created
  \/ pc[c] = "update" /\ c \in fresh

\* The server writes a record.  Versions and requests of others are outdated; a
\* renewal within the second of the last one gives an equal raw record.
Write(record) ==
  /\ lease' = record
  /\ created' = TRUE
  /\ late' = {}
  /\ seen' = IF created /\ record = lease THEN seen ELSE {}

\* The server carries out the request that c waits for.
ServeWrite(c) ==
  /\ Applicable(c)
  /\ Write(Request(c))
  /\ fresh' = {}
  /\ pc' = [pc EXCEPT ![c] = "done"]
  /\ UNCHANGED <<now, phase, start, rest, deadline, elector>>

\* The server carries out a request whose sender no longer waits.
ServeLate(record) ==
  /\ record \in late
  /\ Write(record)
  /\ fresh' = {}
  /\ UNCHANGED <<now, phase, pc, start, rest, deadline, elector>>

\* The requests that can be left without a waiting sender once c gives up its
\* own: some get lost.
Abandoned(c) ==
  {s \in SUBSET (IF Applicable(c) THEN late \cup {Request(c)} ELSE late) :
     Cardinality(s) <= MaxLate}

\* Create or Update fails: the version was not the current one, or the request
\* or its answer is lost.
WriteFails(c) ==
  /\ Trying(c)
  /\ pc[c] \in {"create", "update", "done"}
  /\ late' \in Abandoned(c)
  /\ EndTry(c, Backoff(c))
  /\ UNCHANGED <<now, lease, created, fresh, seen, phase, deadline, elector>>

\* The try succeeds.  acquire returns and renew starts its first round at once;
\* in renew the next round starts after RetryPeriod.  The answer brings the
\* version of the write, which another may have outdated since.
TrySucceeds(c) ==
  /\ Trying(c)
  /\ pc[c] = "done"
  /\ observed' = [observed EXCEPT ![c] = c]
  /\ observedTime' = [observedTime EXCEPT ![c] = now]
  /\ fresh' = IF lease = Request(c) THEN fresh \cup {c} ELSE fresh
  /\ EndTry(c, IF phase[c] = "acquire" THEN 0 ELSE RetryPeriod)
  /\ phase' = [phase EXCEPT ![c] = "renew"]
  /\ deadline' = [deadline EXCEPT ![c] = NoTime]
  /\ UNCHANGED <<now, lease, created, late, seen>>

-----------------------------------------------------------------------------
(* The end of Run *)

\* renew ends, because its round reached RenewDeadline or the context was
\* cancelled, and goes on to release; without ReleaseOnCancel see Stop.
EndRenew(c) ==
  /\ phase[c] = "renew"
  /\ ReleaseOnCancel
  /\ late' \in Abandoned(c)
  /\ EndTry(c, 0)
  /\ deadline' = [deadline EXCEPT ![c] = NoTime]
  /\ phase' = [phase EXCEPT ![c] = "release"]
  /\ UNCHANGED <<now, lease, created, fresh, seen, elector>>

\* release of a client that is not the leader does nothing, see Stop; else it
\* sends an Update without a holder.
Release(c) ==
  /\ phase[c] = "release"
  /\ pc[c] = "idle"
  /\ IsLeader(c)
  /\ pc' = [pc EXCEPT ![c] = "update"]
  /\ start' = [start EXCEPT ![c] = now]
  /\ UNCHANGED <<now, server, phase, rest, deadline, elector>>

\* Run returns after release, after renew without ReleaseOnCancel or after a
\* cancelled acquire, or the process dies: its variables are gone.
Stop(c) ==
  /\ phase[c] # "stopped"
  /\ late' \in Abandoned(c)
  /\ EndTry(c, 1)
  /\ deadline' = [deadline EXCEPT ![c] = NoTime]
  /\ phase' = [phase EXCEPT ![c] = "stopped"]
  /\ observed' = [observed EXCEPT ![c] = NoOne]
  /\ observedTime' = [observedTime EXCEPT ![c] = 0]
  /\ fresh' = fresh \ {c}
  /\ seen' = seen \ {c}
  /\ UNCHANGED <<now, lease, created>>

\* A new process with the same identity, a moment later.
Restart(c) ==
  /\ phase[c] = "stopped"
  /\ rest[c] = 0
  /\ phase' = [phase EXCEPT ![c] = "acquire"]
  /\ UNCHANGED <<now, server, pc, start, rest, deadline, elector>>

\* Time passes, but not past a timer of a leader or the end of a try.
Tick ==
  /\ now < MaxTime
  /\ \A c \in Clients :
       /\ deadline[c] # NoTime => now < deadline[c]
       /\ phase[c] = "renew" /\ deadline[c] = NoTime => rest[c] > 0
       /\ Trying(c) /\ pc[c] # "idle" => now < start[c] + MaxTry
  /\ now' = now + 1
  /\ rest' = [c \in Clients |-> IF rest[c] > 0 THEN rest[c] - 1 ELSE 0]
  /\ UNCHANGED <<server, phase, pc, start, deadline, elector>>

Next ==
  \/ \E c \in Clients :
       \/ Try(c) \/ GetFails(c) \/ GetNotFound(c) \/ GetReturns(c)
       \/ ServeWrite(c) \/ WriteFails(c) \/ TrySucceeds(c)
       \/ EndRenew(c) \/ Release(c) \/ Stop(c) \/ Restart(c)
  \/ \E record \in late : ServeLate(record)
  \/ Tick

Spec == Init /\ [][Next]_vars

-----------------------------------------------------------------------------
(* Safety *)

\* OnStartedLeading's context is open for at most one client at a time (a
\* client that gives the lease up by release is no longer counted: the comment
\* on ReleaseOnCancel makes its work the caller's business).
AtMostOneLeader == \A c, d \in Clients : phase[c] = "renew" /\ phase[d] = "renew" => c = d

\* A lease is taken from its holder by another client only after the lease
\* duration has passed since the second in which the holder renewed it.
NoEarlyTakeover ==
  [][lease.holder \notin {NoOne, lease'.holder} /\ lease'.holder # NoOne
       => now >= Second * lease.renew + RecordedDuration]_vars

\* A release, which may reach the server late, never frees the lease of a
\* client that leads.
ReleaseIsSafe ==
  [][\A c \in Clients : phase[c] = "renew" /\ lease.holder = c => lease'.holder # NoOne]_vars
=============================================================================
