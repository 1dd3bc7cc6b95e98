----------------------------- MODULE PravahProofs -----------------------------
(***************************************************************************)
(* Proofs about PravahPipeline, for any entities, events, pipelines and    *)
(* number of hops: ledger, entity states and audit trail agree.            *)
(* Events that differ share neither an id nor an idempotency key here;     *)
(* without that the agreement fails.                                       *)
(***************************************************************************)
EXTENDS PravahPipeline, TLAPS

EventsApart ==
  \A e, f \in Events :
    \/ e.event_id = f.event_id
    \/ e.idempotency_key # NoKey /\ e.idempotency_key = f.idempotency_key
    => e = f

IsSeq(s) == \E S : s \in Seq(S)

IsHop(e) ==
  /\ e.entity_id \in Entities /\ e.idempotency_key = NoKey
  /\ \E n \in 1..minted : e.event_id = MintedId(n)

(* An event that was posted or made by a pipeline.                         *)
Posted(e) == e \in Events \/ IsHop(e)

Positions == 1..Len(ledger)

RecordedEvents == {ledger[i].event : i \in Positions}

LedgerSound ==
  /\ IsSeq(ledger) /\ minted \in 0..MaxMinted
  /\ \A i \in Positions :
       /\ ledger[i] = [event |-> ledger[i].event, status |-> ledger[i].status]
       /\ Posted(ledger[i].event)
  /\ \A i, j \in Positions : ledger[i].event.event_id = ledger[j].event.event_id => i = j

(* What StatesAreExplained says of the state of entity n, with the events  *)
(* R that are recorded.                                                    *)
IsEventOf(e, state, k) == e.event_id = state.applied[k].event_id

AppliedSound(state, n, R) ==
  LET last == Len(state.applied) IN
    /\ \A k \in 1..last : \E e \in R : IsEventOf(e, state, k) /\ e.entity_id = n
    /\ \A j, k \in 1..last : state.applied[j].event_id = state.applied[k].event_id => j = k
    /\ \A k \in 1..last, e, f \in R :
         k > 1 /\ IsEventOf(e, state, k) /\ IsEventOf(f, state, k - 1)
           => Target(e) \in LifecycleGraph[Target(f)] \cup {Target(f)}
    /\ \A e \in R : last > 0 /\ IsEventOf(e, state, last) => state.status = Target(e)

LogSound(state, R) ==
  /\ \A k \in 1..Len(state.applied), e \in R :
       IsEventOf(e, state, k) =>
         (e.payload.mappable <=> \E i \in 1..Len(state.log) : state.log[i].version = k + 1)
  /\ \A i \in 1..Len(state.log) :
       \E k \in 1..Len(state.applied) :
         /\ state.log[i].version = k + 1 /\ state.log[i].event_id = state.applied[k].event_id
         /\ \A e \in R : IsEventOf(e, state, k) => state.log[i].to_status = Target(e)
         /\ \A e \in R : k > 1 /\ IsEventOf(e, state, k - 1) => state.log[i].from_status = Target(e)
  /\ \A i \in 1..Len(state.log) : i > 1 => state.log[i - 1].version < state.log[i].version

StateSound(state, n, R) ==
  /\ state = [status |-> state.status, applied |-> state.applied, log |-> state.log,
              hashable |-> state.hashable]
  /\ IsSeq(state.applied) /\ IsSeq(state.log)
  /\ AppliedSound(state, n, R)
  /\ LogSound(state, R)

StatesSound ==
  /\ states = [n \in Entities |-> states[n]]
  /\ \A n \in Entities : StateSound(states[n], n, RecordedEvents)

PipelineSound ==
  pipeline # NoPipeline =>
    /\ pipeline.entity_id \in Entities
    /\ pipeline = [at |-> "hops", entity_id |-> pipeline.entity_id, context |-> pipeline.context,
                   path |-> pipeline.path]

(* The event a handler is about is the one of the entry it settles, and is *)
(* not applied then; what it emits is what the entry says.                 *)
SettleSound ==
  task.at = "settle" =>
    /\ task.position \in Positions /\ ledger[task.position].event = task.event
    /\ task.event.event_id \notin Applied(states[task.event.entity_id])

Outcome(i) == IF ledger[i].status = "COMMITTED" THEN "committed" ELSE "failed"

EmitSound ==
  task.at = "emit" =>
    \A i \in Positions : ledger[i].event.event_id = task.event.event_id => task.outcome = Outcome(i)

ReplaySound ==
  task.at = "replay" =>
    /\ task = [at |-> "replay", entries |-> task.entries]
    /\ task.entries \subseteq Positions

TaskSound == SettleSound /\ EmitSound /\ ReplaySound

(* LedgerAgreesWithStates, of one entry.                                   *)
Agree(entry, state) ==
  LET e == entry.event
      applied == e.event_id \in Applied(state)
  IN /\ entry.status = "COMMITTED" /\ Target(e) # "none" => applied
     /\ applied => \/ entry.status = "COMMITTED"
                   \/ e.event_id \in AppliedBy(state, "replay")
                   \/ ~e.payload.mappable
                   \/ ~state.hashable

Agrees(i) == Agree(ledger[i], states[ledger[i].event.entity_id])

IsAudited(i) ==
  ledger[i].status # "PENDING" =>
    \/ task.at = "emit" /\ task.event = ledger[i].event /\ task.outcome = Outcome(i)
    \/ /\ ledger[i].event.event_id \in DOMAIN trail
       /\ trail[ledger[i].event.event_id] \in {Outcome(i), "lost"}

IInv ==
  /\ LedgerSound /\ StatesSound /\ PipelineSound /\ TaskSound
  /\ \A i \in Positions : Agrees(i) /\ IsAudited(i)

-----------------------------------------------------------------------------
LEMMA Apart ==
  /\ Nobody.at = "nobody" /\ NoPipeline.at = "none"
  /\ \A s : /\ NewState(s).log = << >> /\ NewState(s).applied = << >> /\ NewState(s).hashable
            /\ NewState(s).status = s
  BY DEF Nobody, NewState, NoPipeline

LEMMA Appended ==
  ASSUME NEW s, IsSeq(s), NEW x
  PROVE  /\ IsSeq(Append(s, x)) /\ Len(s) \in Nat /\ Len(Append(s, x)) = Len(s) + 1
         /\ Append(s, x)[Len(s) + 1] = x /\ \A i \in 1..Len(s) : Append(s, x)[i] = s[i]
<1>1. PICK S : s \in Seq(S)
  BY DEF IsSeq
<1>2. s \in Seq(S \cup {x}) /\ x \in S \cup {x}
  BY <1>1
<1>3. Append(s, x) \in Seq(S \cup {x})
  BY <1>2
<1> QED
  BY <1>2, <1>3 DEF IsSeq

LEMMA Replaced ==
  ASSUME NEW s, IsSeq(s), NEW x, NEW j \in 1..Len(s), NEW r, r = [s EXCEPT ![j] = x]
  PROVE  /\ IsSeq(r) /\ Len(r) = Len(s) /\ r[j] = x
         /\ \A i \in 1..Len(s) : i # j => r[i] = s[i]
<1>1. PICK S : s \in Seq(S)
  BY DEF IsSeq
<1>2. s \in Seq(S \cup {x}) /\ x \in S \cup {x}
  BY <1>1
<1>3. r \in Seq(S \cup {x})
  BY <1>2
<1> QED
  BY <1>2, <1>3 DEF IsSeq

LEMMA EmptyIsSeq == IsSeq(<< >>) /\ Len(<< >>) = 0
<1>1. << >> \in Seq({})
  OBVIOUS
<1> QED
  BY <1>1 DEF IsSeq

-----------------------------------------------------------------------------
(* States, one at a time                                                   *)

LEMMA NewSound ==
  ASSUME NEW s, NEW n, NEW R
  PROVE  /\ StateSound(NewState(s), n, R) /\ Applied(NewState(s)) = {}
         /\ \A by : AppliedBy(NewState(s), by) = {}
<1>1. NewState(s) = [status |-> s, applied |-> << >>, log |-> << >>, hashable |-> TRUE]
  BY DEF NewState
<1>2. AppliedSound(NewState(s), n, R) /\ LogSound(NewState(s), R)
  BY Apart, EmptyIsSeq DEF AppliedSound, LogSound
<1>3. Applied(NewState(s)) = {} /\ \A by : AppliedBy(NewState(s), by) = {}
  BY Apart, EmptyIsSeq DEF Applied, AppliedBy
<1>4. StateSound(NewState(s), n, R)
  BY <1>1, <1>2, Apart, EmptyIsSeq DEF StateSound
<1> QED
  BY <1>3, <1>4

(* More recorded events change nothing when they are not applied.          *)
LEMMA GrownSound ==
  ASSUME NEW state, NEW n, NEW R, NEW S, StateSound(state, n, R), R \subseteq S,
         \A e \in S : e \in R \/ e.event_id \notin Applied(state)
  PROVE  StateSound(state, n, S)
<1>0. Len(state.applied) \in Nat
  BY Appended DEF StateSound
<1>1. \A e \in S, k \in 1..Len(state.applied) : IsEventOf(e, state, k) => e \in R
  BY DEF IsEventOf, Applied
<1>2. \A k \in 1..Len(state.applied) : k > 1 => k - 1 \in 1..Len(state.applied)
  BY <1>0
<1>3. Len(state.applied) > 0 => Len(state.applied) \in 1..Len(state.applied)
  BY <1>0
<1>4. AppliedSound(state, n, S)
  BY <1>1, <1>2, <1>3 DEF StateSound, AppliedSound
<1>5. LogSound(state, S)
  BY <1>1, <1>2 DEF StateSound, LogSound
<1> QED
  BY <1>4, <1>5 DEF StateSound

(* get_or_create_state changes neither log nor applied events, and the     *)
(* metadata of a request only what can be sorted.                          *)
LEMMA KnownSound ==
  ASSUME NEW n \in Entities, NEW initial, NEW R, StateSound(states[n], n, R)
  PROVE  LET known == Known(n, initial) IN
         /\ StateSound(known, n, R) /\ Applied(known) = Applied(states[n])
         /\ \A by : AppliedBy(known, by) = AppliedBy(states[n], by)
         /\ known.hashable = states[n].hashable
<1>1. CASE states[n] = Unknown
  BY <1>1, NewSound, Apart DEF Known, Unknown
<1>2. CASE states[n] # Unknown
  BY <1>2 DEF Known
<1> QED
  BY <1>1, <1>2

LEMMA RehashedSound ==
  ASSUME NEW state, NEW n, NEW R, StateSound(state, n, R),
         NEW hashable, hashable => state.hashable,
         NEW new, new = [state EXCEPT !.hashable = hashable]
  PROVE  /\ StateSound(new, n, R) /\ Applied(new) = Applied(state)
         /\ \A by : AppliedBy(new, by) = AppliedBy(state, by)
         /\ new.hashable => state.hashable
<1>1. PICK s, a, l, h : state = [status |-> s, applied |-> a, log |-> l, hashable |-> h]
  BY DEF StateSound
<1>2. new = [status |-> s, applied |-> a, log |-> l, hashable |-> hashable]
  BY <1>1
<1>3. /\ new.status = state.status /\ new.applied = state.applied /\ new.log = state.log
      /\ new.hashable = hashable
      /\ new = [status |-> new.status, applied |-> new.applied, log |-> new.log, hashable |-> new.hashable]
  BY <1>1, <1>2
<1>4. IsSeq(new.applied) /\ IsSeq(new.log)
  BY <1>3 DEF StateSound
<1>5. AppliedSound(new, n, R)
  BY <1>3 DEF StateSound, AppliedSound, IsEventOf
<1>6. LogSound(new, R)
  BY <1>3 DEF StateSound, LogSound, IsEventOf
<1>7. Applied(new) = Applied(state) /\ \A by : AppliedBy(new, by) = AppliedBy(state, by)
  BY <1>3 DEF Applied, AppliedBy
<1> QED
  BY <1>3, <1>4, <1>5, <1>6, <1>7 DEF StateSound

(* transition() adds an event to the walk, and tells so in the log unless  *)
(* it raises.                                                              *)
LEMMA TransitionedSound ==
  ASSUME NEW state, NEW n, NEW R, StateSound(state, n, R),
         NEW e \in R, e.entity_id = n, \A f \in R : f.event_id = e.event_id => f = e,
         NEW by, Moves(state, e, Target(e)), e.event_id \notin Applied(state)
  PROVE  LET new == Transitioned(state, e, Target(e), by) IN
         /\ StateSound(new, n, R) /\ Applied(new) = Applied(state) \cup {e.event_id}
         /\ \A b : AppliedBy(state, b) \subseteq AppliedBy(new, b)
         /\ e.event_id \in AppliedBy(new, by)
         /\ new.hashable => state.hashable
<1> DEFINE last == Len(state.applied)
           one == [event_id |-> e.event_id, by |-> by]
           line == [event_id |-> e.event_id, from_status |-> state.status,
                    to_status |-> Target(e), version |-> last + 2]
           new == Transitioned(state, e, Target(e), by)
<1>1. /\ new.status = Target(e) /\ new.applied = Append(state.applied, one)
      /\ new.log = IF ~e.payload.mappable THEN state.log ELSE Append(state.log, line)
      /\ new.hashable = (state.hashable /\ e.payload.sortable)
      /\ new = [status |-> new.status, applied |-> new.applied, log |-> new.log, hashable |-> new.hashable]
  BY DEF Transitioned
<1>2. /\ one.event_id = e.event_id /\ one.by = by /\ line.event_id = e.event_id
      /\ line.from_status = state.status /\ line.to_status = Target(e) /\ line.version = last + 2
  OBVIOUS
<1>3. Target(e) \in LifecycleGraph[state.status] \cup {state.status}
  BY DEF Moves
<1> HIDE DEF one, line, new
<1>4. /\ IsSeq(new.applied) /\ last \in Nat /\ Len(new.applied) = last + 1
      /\ new.applied[last + 1] = one /\ \A k \in 1..last : new.applied[k] = state.applied[k]
  BY <1>1, Appended DEF StateSound
<1>5. \A k \in 1..last : state.applied[k].event_id # e.event_id
  BY DEF Applied
<1>6. /\ \A f : IsEventOf(f, new, last + 1) <=> f.event_id = e.event_id
      /\ \A f : \A k \in 1..last : IsEventOf(f, new, k) <=> IsEventOf(f, state, k)
      /\ \A k \in 1..last : ~IsEventOf(e, state, k)
  BY <1>2, <1>4, <1>5 DEF IsEventOf
<1>7. \A k \in 1..last + 1 : k = last + 1 \/ k \in 1..last
  BY <1>4
<1>8. AppliedSound(new, n, R)
  <2>1. ASSUME NEW k \in 1..last + 1 PROVE \E f \in R : IsEventOf(f, new, k) /\ f.entity_id = n
    BY <1>6, <1>7 DEF StateSound, AppliedSound
  <2>2. ASSUME NEW j \in 1..last + 1, NEW k \in 1..last + 1,
               new.applied[j].event_id = new.applied[k].event_id
        PROVE  j = k
    <3>1. CASE j \in 1..last /\ k \in 1..last
      BY <1>4, <2>2, <3>1 DEF StateSound, AppliedSound
    <3>2. CASE j \in 1..last /\ k = last + 1
      BY <1>2, <1>4, <1>5, <2>2, <3>2
    <3>3. CASE j = last + 1 /\ k \in 1..last
      BY <1>2, <1>4, <1>5, <2>2, <3>3
    <3> QED
      BY <1>7, <3>1, <3>2, <3>3
  <2>3. ASSUME NEW k \in 1..last + 1, NEW f \in R, NEW g \in R,
               k > 1, IsEventOf(f, new, k), IsEventOf(g, new, k - 1)
        PROVE  Target(f) \in LifecycleGraph[Target(g)] \cup {Target(g)}
    <3>1. k - 1 \in 1..last
      BY <1>4, <2>3
    <3>2. IsEventOf(g, state, k - 1)
      BY <1>6, <2>3, <3>1
    <3>3. CASE k \in 1..last
      BY <1>6, <2>3, <3>2, <3>3 DEF StateSound, AppliedSound
    <3>4. CASE k = last + 1
      <4>1. f = e /\ k - 1 = last
        BY <1>4, <1>6, <2>3, <3>4
      <4>2. last > 0 /\ IsEventOf(g, state, last)
        BY <2>3, <3>2, <3>4, <4>1, <1>4
      <4>3. state.status = Target(g)
        BY <4>2 DEF StateSound, AppliedSound
      <4> QED
        BY <1>3, <4>1, <4>3
    <3> QED
      BY <1>7, <3>3, <3>4
  <2>4. ASSUME NEW f \in R, IsEventOf(f, new, last + 1) PROVE new.status = Target(f)
    BY <1>1, <1>6, <2>4
  <2> QED
    BY <1>4, <2>1, <2>2, <2>3, <2>4 DEF AppliedSound
<1>9. IsSeq(new.log) /\ LogSound(new, R)
  <2>1. CASE ~e.payload.mappable
    <3>1. new.log = state.log
      BY <1>1, <2>1
    <3>2. \A i \in 1..Len(state.log) : state.log[i].version # last + 1 + 1
      <4>1. \A i \in 1..Len(state.log) : \E k \in 1..last : state.log[i].version = k + 1
        BY DEF StateSound, LogSound
      <4>2. \A k \in 1..last : k + 1 # last + 1 + 1
        BY <1>4
      <4> QED
        BY <4>1, <4>2
    <3>3. ASSUME NEW k \in 1..last + 1, NEW f \in R, IsEventOf(f, new, k)
          PROVE  f.payload.mappable <=> \E i \in 1..Len(new.log) : new.log[i].version = k + 1
      <4>1. CASE k \in 1..last
        BY <1>6, <3>1, <3>3, <4>1 DEF StateSound, LogSound
      <4>2. CASE k = last + 1
        BY <1>6, <2>1, <3>1, <3>2, <3>3, <4>2
      <4> QED
        BY <1>7, <4>1, <4>2
    <3>4. ASSUME NEW i \in 1..Len(new.log)
          PROVE  \E k \in 1..last + 1 :
                   /\ new.log[i].version = k + 1 /\ new.log[i].event_id = new.applied[k].event_id
                   /\ \A f \in R : IsEventOf(f, new, k) => new.log[i].to_status = Target(f)
                   /\ \A f \in R : k > 1 /\ IsEventOf(f, new, k - 1) => new.log[i].from_status = Target(f)
      <4>1. PICK k \in 1..last :
              /\ state.log[i].version = k + 1 /\ state.log[i].event_id = state.applied[k].event_id
              /\ \A f \in R : IsEventOf(f, state, k) => state.log[i].to_status = Target(f)
              /\ \A f \in R : k > 1 /\ IsEventOf(f, state, k - 1) => state.log[i].from_status = Target(f)
        BY <3>1 DEF StateSound, LogSound
      <4>2. k \in 1..last + 1 /\ (k > 1 => k - 1 \in 1..last)
        BY <1>4
      <4> QED
        BY <1>4, <1>6, <3>1, <4>1, <4>2
    <3> QED
      BY <1>4, <3>1, <3>3, <3>4 DEF StateSound, LogSound
  <2>2. CASE e.payload.mappable
    <3> DEFINE lines == Len(state.log)
    <3>1. new.log = Append(state.log, line)
      BY <1>1, <2>2
    <3>2. /\ IsSeq(new.log) /\ lines \in Nat /\ Len(new.log) = lines + 1
          /\ new.log[lines + 1] = line /\ \A i \in 1..lines : new.log[i] = state.log[i]
      BY <3>1, Appended DEF StateSound
    <3>3. \A i \in 1..lines : \E k \in 1..last : state.log[i].version = k + 1
      BY DEF StateSound, LogSound
    <3>4. \A i \in 1..lines + 1 : i = lines + 1 \/ i \in 1..lines
      BY <3>2
    <3> HIDE DEF lines
    <3>5. ASSUME NEW k \in 1..last + 1, NEW f \in R, IsEventOf(f, new, k)
          PROVE  f.payload.mappable <=> \E i \in 1..lines + 1 : new.log[i].version = k + 1
      <4>1. CASE k \in 1..last
        <5>1. k + 1 # last + 2
          BY <1>4, <4>1
        <5>2. f.payload.mappable <=> \E i \in 1..lines : state.log[i].version = k + 1
          BY <1>6, <3>5, <4>1 DEF StateSound, LogSound, lines
        <5>3. \A i \in 1..lines : i \in 1..lines + 1 /\ new.log[i].version = state.log[i].version
          BY <3>2
        <5>4. new.log[lines + 1].version # k + 1
          BY <1>2, <3>2, <5>1
        <5> QED
          BY <3>4, <5>2, <5>3, <5>4
      <4>2. CASE k = last + 1
        <5>1. f = e
          BY <1>6, <3>5, <4>2
        <5>2. lines + 1 \in 1..lines + 1 /\ new.log[lines + 1].version = k + 1
          BY <1>2, <1>4, <3>2, <4>2
        <5> QED
          BY <2>2, <5>1, <5>2
      <4> QED
        BY <1>7, <4>1, <4>2
    <3>6. ASSUME NEW i \in 1..lines + 1
          PROVE  \E k \in 1..last + 1 :
                   /\ new.log[i].version = k + 1 /\ new.log[i].event_id = new.applied[k].event_id
                   /\ \A f \in R : IsEventOf(f, new, k) => new.log[i].to_status = Target(f)
                   /\ \A f \in R : k > 1 /\ IsEventOf(f, new, k - 1) => new.log[i].from_status = Target(f)
      <4>1. CASE i \in 1..lines
        <5>1. PICK k \in 1..last :
                /\ state.log[i].version = k + 1 /\ state.log[i].event_id = state.applied[k].event_id
                /\ \A f \in R : IsEventOf(f, state, k) => state.log[i].to_status = Target(f)
                /\ \A f \in R : k > 1 /\ IsEventOf(f, state, k - 1) => state.log[i].from_status = Target(f)
          BY <4>1 DEF StateSound, LogSound, lines
        <5>2. k \in 1..last + 1 /\ (k > 1 => k - 1 \in 1..last)
          BY <1>4
        <5> QED
          BY <1>4, <1>6, <3>2, <4>1, <5>1, <5>2
      <4>2. CASE i = lines + 1
        <5>1. /\ last + 1 \in 1..last + 1 /\ new.log[i].version = (last + 1) + 1
              /\ new.log[i].event_id = new.applied[last + 1].event_id
          BY <1>2, <1>4, <3>2, <4>2
        <5>2. \A f \in R : IsEventOf(f, new, last + 1) => new.log[i].to_status = Target(f)
          BY <1>2, <1>6, <3>2, <4>2
        <5>3. ASSUME NEW f \in R, last + 1 > 1, IsEventOf(f, new, (last + 1) - 1)
              PROVE  new.log[i].from_status = Target(f)
          <6>1. (last + 1) - 1 = last /\ last \in 1..last /\ last > 0
            BY <1>4, <5>3
          <6>2. IsEventOf(f, state, last)
            BY <1>6, <5>3, <6>1
          <6>3. state.status = Target(f)
            BY <6>1, <6>2 DEF StateSound, AppliedSound
          <6> QED
            BY <1>2, <3>2, <4>2, <6>3
        <5> QED
          BY <5>1, <5>2, <5>3
      <4> QED
        BY <3>4, <4>1, <4>2
    <3>7. ASSUME NEW i \in 1..lines + 1, i > 1 PROVE new.log[i - 1].version < new.log[i].version
      <4>1. i - 1 \in 1..lines /\ new.log[i - 1] = state.log[i - 1]
        BY <3>2, <3>7
      <4>2. CASE i \in 1..lines
        BY <3>2, <3>7, <4>1, <4>2 DEF StateSound, LogSound, lines
      <4>3. CASE i = lines + 1
        <5>1. PICK k \in 1..last : state.log[i - 1].version = k + 1
          BY <3>3, <4>1
        <5>2. k + 1 < last + 2
          BY <1>4
        <5> QED
          BY <1>2, <3>2, <4>1, <4>3, <5>1, <5>2
      <4> QED
        BY <3>4, <4>2, <4>3
    <3> QED
      BY <1>4, <3>2, <3>5, <3>6, <3>7 DEF LogSound
  <2> QED
    BY <2>1, <2>2
<1>10. Applied(new) = Applied(state) \cup {e.event_id}
  <2>1. \A id : id \in Applied(new) <=> id \in Applied(state) \/ id = e.event_id
    <3>1. \A k : k \in 1..last + 1 <=> k \in 1..last \/ k = last + 1
      BY <1>4
    <3> QED
      BY <1>2, <1>4, <3>1 DEF Applied
  <2> QED
    BY <2>1
<1>11. \A b : AppliedBy(state, b) \subseteq AppliedBy(new, b)
  BY <1>4 DEF AppliedBy
<1>12. e.event_id \in AppliedBy(new, by)
  BY <1>2, <1>4 DEF AppliedBy
<1>13. new.hashable => state.hashable
  BY <1>1
<1> QED
  BY <1>1, <1>4, <1>8, <1>9, <1>10, <1>11, <1>12, <1>13 DEF StateSound, new

LEMMA InitIInv == ASSUME Init PROVE IInv
<1>1. Positions = {}
  BY DEF Init, Positions
<1>2. LedgerSound
  BY <1>1, MintedIdsAreNew, EmptyIsSeq DEF Init, LedgerSound
<1>3. StatesSound
  BY NewSound DEF Init, StatesSound, Unknown
<1>4. PipelineSound
  BY DEF Init, PipelineSound
<1>5. TaskSound
  BY Apart DEF Init, TaskSound, SettleSound, EmitSound, ReplaySound
<1> QED
  BY <1>1, <1>2, <1>3, <1>4, <1>5 DEF IInv

-----------------------------------------------------------------------------
(* The entries an event finds are its own.                                 *)
LEMMA FoundIsOwn ==
  ASSUME IInv, EventsApart, NEW e,
         e \in Events \/ (e.idempotency_key = NoKey /\ minted < MaxMinted /\ e.event_id = MintedId(minted + 1))
  PROVE  /\ \A i \in Positions : i \in Found(e) => ledger[i].event = e
         /\ Found(e) = {} => \A i \in Positions : ledger[i].event.event_id # e.event_id
         /\ Found(e) \subseteq Positions
<1>1. Found(e) \subseteq Positions
  BY DEF Found, SameId, SameKey, Positions
<1>2. Found(e) = {} => \A i \in Positions : ledger[i].event.event_id # e.event_id
  BY DEF Found, SameId, Positions
<1>3. \A i \in Found(e) :
        /\ ledger[i].event.event_id = e.event_id
           \/ (e.idempotency_key # NoKey /\ ledger[i].event.idempotency_key = e.idempotency_key)
        /\ Posted(ledger[i].event)
  BY <1>1 DEF Found, SameId, SameKey, IInv, LedgerSound
<1>4. minted \in Nat /\ MaxMinted \in Nat /\ minted <= MaxMinted
  BY MintedIdsAreNew DEF IInv, LedgerSound
<1>5. CASE e \in Events
  <2>1. ASSUME NEW i \in Found(e) PROVE ledger[i].event \in Events
    <3>1. CASE IsHop(ledger[i].event)
      <4>1. PICK n \in 1..minted : ledger[i].event.event_id = MintedId(n)
        BY <3>1 DEF IsHop
      <4>2. n \in 1..MaxMinted
        BY <1>4
      <4> QED
        BY <1>3, <1>5, <3>1, <4>1, <4>2, MintedIdsAreNew DEF IsHop
    <3> QED
      BY <1>3, <3>1 DEF Posted
  <2> QED
    BY <1>1, <1>2, <1>3, <1>5, <2>1 DEF EventsApart
<1>6. CASE e.idempotency_key = NoKey /\ minted < MaxMinted /\ e.event_id = MintedId(minted + 1)
  <2>1. minted + 1 \in 1..MaxMinted /\ minted + 1 \notin 1..minted
    BY <1>4, <1>6
  <2>2. \A n \in 1..minted : MintedId(n) # MintedId(minted + 1)
    BY <2>1 DEF MintedId
  <2>3. Found(e) = {}
    BY <1>3, <1>6, <2>1, <2>2, MintedIdsAreNew DEF Posted, IsHop
  <2> QED
    BY <1>1, <1>2, <2>3
<1> QED
  BY <1>5, <1>6

(* What an entry says of its event stays true while nothing changes that   *)
(* it speaks of.                                                           *)
LEMMA PostedStays ==
  ASSUME minted \in Nat, minted' \in Nat, minted <= minted', NEW e, Posted(e)
  PROVE  Posted(e)'
<1>1. 1..minted \subseteq 1..minted'
  OBVIOUS
<1> QED
  BY <1>1 DEF Posted, IsHop

LEMMA RecordKeeps ==
  ASSUME IInv, EventsApart, NEW e, Record(e), e.entity_id \in Entities,
         \/ e \in Events /\ minted' = minted
         \/ e.idempotency_key = NoKey /\ minted < MaxMinted /\ e.event_id = MintedId(minted + 1)
            /\ minted' = minted + 1,
         PipelineSound'
  PROVE  IInv'
<1> DEFINE state == Known(e.entity_id, "REGISTERED")
           entry == [event |-> e, status |-> "PENDING"]
<1>1. /\ task = Nobody /\ ledger' = Recorded(e) /\ UNCHANGED trail
      /\ states' = [states EXCEPT ![e.entity_id] = state]
      /\ task' = IF e.event_id \in Applied(state) THEN Nobody
                 ELSE [at |-> "settle", event |-> e, position |-> Position(e)]
  BY DEF Record
<1>2. /\ IsSeq(ledger) /\ minted \in Nat /\ MaxMinted \in Nat /\ minted <= MaxMinted /\ Len(ledger) \in Nat
      /\ minted' \in 0..MaxMinted /\ minted <= minted' /\ minted' \in Nat
  BY MintedIdsAreNew, Appended DEF IInv, LedgerSound
<1>3. /\ \A i \in Positions : i \in Found(e) => ledger[i].event = e
      /\ Found(e) = {} => \A i \in Positions : ledger[i].event.event_id # e.event_id
      /\ Found(e) \subseteq Positions
  BY FoundIsOwn
<1>4. Posted(e)'
  <2>1. CASE e \in Events
    BY <2>1 DEF Posted
  <2>2. CASE e.idempotency_key = NoKey /\ e.event_id = MintedId(minted + 1) /\ minted' = minted + 1
    <3>1. minted + 1 \in 1..minted'
      BY <1>2, <2>2
    <3> QED
      BY <2>2, <3>1 DEF Posted, IsHop
  <2> QED
    BY <2>1, <2>2
<1>5. /\ StateSound(state, e.entity_id, RecordedEvents) /\ Applied(state) = Applied(states[e.entity_id])
      /\ \A by : AppliedBy(state, by) = AppliedBy(states[e.entity_id], by)
      /\ state.hashable = states[e.entity_id].hashable
  BY KnownSound DEF IInv, StatesSound
<1> HIDE DEF state, entry
<1>6. /\ states' = [n \in Entities |-> states'[n]]
      /\ \A n \in Entities : /\ StateSound(states'[n], n, RecordedEvents)
                             /\ Applied(states'[n]) = Applied(states[n])
                             /\ \A by : AppliedBy(states'[n], by) = AppliedBy(states[n], by)
                             /\ states'[n].hashable = states[n].hashable
  BY <1>1, <1>5 DEF IInv, StatesSound
<1>7. /\ Positions \subseteq Positions' /\ IsSeq(ledger') /\ Len(ledger) <= Len(ledger')
      /\ \A i \in Positions : ledger'[i] = ledger[i]
      /\ \A i \in Positions' : i \notin Positions =>
           ledger'[i] = [event |-> e, status |-> "PENDING"]
           /\ i = Len(ledger) + 1 /\ \A j \in Positions : ledger[j].event.event_id # e.event_id
      /\ Position(e) \in Positions' /\ ledger'[Position(e)].event = e
  <2>1. CASE Found(e) = {}
    <3>1. Position(e) = Len(ledger) + 1
      BY <2>1 DEF Position
    <3>2. ledger' = Append(ledger, [event |-> e, status |-> "PENDING"])
      BY <1>1, <1>2, <3>1 DEF Recorded
    <3>3. /\ IsSeq(ledger') /\ Len(ledger') = Len(ledger) + 1
          /\ ledger'[Len(ledger) + 1] = [event |-> e, status |-> "PENDING"]
          /\ \A i \in 1..Len(ledger) : ledger'[i] = ledger[i]
      BY <1>2, <3>2, Appended
    <3>4. \A i \in Positions' : i \notin Positions => i = Len(ledger) + 1
      BY <1>2, <3>3 DEF Positions
    <3> QED
      BY <1>2, <1>3, <2>1, <3>1, <3>3, <3>4 DEF Positions
  <2>2. CASE Found(e) # {}
    <3>1. Position(e) \in Found(e)
      BY <2>2 DEF Position
    <3>2. Position(e) \in 1..Len(ledger)
      BY <1>3, <3>1 DEF Positions
    <3>3. ledger' = ledger
      BY <1>1, <1>2, <3>2 DEF Recorded
    <3> QED
      BY <1>2, <1>3, <3>1, <3>2, <3>3 DEF Positions
  <2> QED
    BY <2>1, <2>2
<1>8. LedgerSound'
  <2>1. ASSUME NEW i \in Positions'
        PROVE  /\ ledger'[i] = [event |-> ledger'[i].event, status |-> ledger'[i].status]
               /\ Posted(ledger[i].event)'
    <3>1. CASE i \in Positions
      <4>1. Posted(ledger[i].event) /\ ledger'[i] = ledger[i]
        BY <1>7, <3>1 DEF IInv, LedgerSound
      <4>2. PICK f : f = ledger[i].event
        OBVIOUS
      <4>3. Posted(f)'
        BY <1>2, <4>1, <4>2, PostedStays
      <4> QED
        BY <3>1, <4>1, <4>2, <4>3 DEF IInv, LedgerSound
    <3>2. CASE i \notin Positions
      BY <1>4, <1>7, <3>2
    <3> QED
      BY <3>1, <3>2
  <2>2. ASSUME NEW i \in Positions', NEW j \in Positions',
               ledger'[i].event.event_id = ledger'[j].event.event_id
        PROVE  i = j
    <3>1. CASE i \in Positions /\ j \in Positions
      BY <1>7, <2>2, <3>1 DEF IInv, LedgerSound
    <3>2. CASE i \notin Positions /\ j \in Positions
      BY <1>7, <2>2, <3>2
    <3>3. CASE i \in Positions /\ j \notin Positions
      BY <1>7, <2>2, <3>3
    <3>4. CASE i \notin Positions /\ j \notin Positions
      BY <1>7, <3>4
    <3> QED
      BY <3>1, <3>2, <3>3, <3>4
  <2> QED
    BY <1>2, <1>7, <2>1, <2>2 DEF LedgerSound
<1>9. StatesSound'
  <2>1. RecordedEvents \subseteq RecordedEvents'
    BY <1>7 DEF RecordedEvents
  <2>2. ASSUME NEW n \in Entities, NEW f \in RecordedEvents'
        PROVE  f \in RecordedEvents \/ f.event_id \notin Applied(states'[n])
    <3>1. PICK i \in Positions' : f = ledger'[i].event
      BY <2>2 DEF RecordedEvents
    <3>2. CASE i \in Positions
      BY <1>7, <3>1, <3>2 DEF RecordedEvents
    <3>3. CASE i \notin Positions
      <4>1. f = e /\ \A j \in Positions : ledger[j].event.event_id # f.event_id
        BY <1>7, <3>1, <3>3
      <4>2. ASSUME NEW k \in 1..Len(states'[n].applied) PROVE states'[n].applied[k].event_id # f.event_id
        <5>1. PICK g \in RecordedEvents : g.event_id = states'[n].applied[k].event_id
          BY <1>6 DEF StateSound, AppliedSound, IsEventOf
        <5> QED
          BY <4>1, <5>1 DEF RecordedEvents
      <4> QED
        BY <4>2 DEF Applied
    <3> QED
      BY <3>2, <3>3
  <2>3. ASSUME NEW n \in Entities PROVE StateSound(states'[n], n, RecordedEvents')
    BY <1>6, <2>1, <2>2, GrownSound
  <2> QED
    BY <1>6, <2>3 DEF StatesSound
<1>10. TaskSound'
  <2>1. CASE e.event_id \in Applied(state)
    BY <1>1, <2>1, Apart DEF TaskSound, SettleSound, EmitSound, ReplaySound
  <2>2. CASE e.event_id \notin Applied(state)
    <3>1. task' = [at |-> "settle", event |-> e, position |-> Position(e)]
      BY <1>1, <2>2
    <3>2. e.event_id \notin Applied(states'[e.entity_id])
      BY <1>5, <1>6, <2>2
    <3> QED
      BY <1>7, <3>1, <3>2 DEF TaskSound, SettleSound, EmitSound, ReplaySound
  <2> QED
    BY <2>1, <2>2
<1>11. ASSUME NEW i \in Positions' PROVE Agrees(i)' /\ IsAudited(i)'
  <2>1. CASE i \in Positions
    <3>1. Agrees(i) /\ IsAudited(i) /\ ledger'[i] = ledger[i] /\ ledger[i].event.entity_id \in Entities
      BY <1>7, <2>1, EventsAreEvents DEF IInv, LedgerSound, Posted, IsHop, IsEvent
    <3>2. Agrees(i)'
      BY <1>1, <1>6, <3>1 DEF Agrees, Agree
    <3>3. IsAudited(i)'
      BY <1>1, <3>1, Apart DEF IsAudited, Outcome
    <3> QED
      BY <3>2, <3>3
  <2>2. CASE i \notin Positions
    <3>1. ledger'[i].status = "PENDING" /\ ledger'[i].event = e
      BY <1>7, <2>2
    <3>2. e.event_id \notin Applied(states[e.entity_id])
      <4>1. \A j \in Positions : ledger[j].event.event_id # e.event_id
        BY <1>7, <2>2
      <4>2. ASSUME NEW k \in 1..Len(states[e.entity_id].applied)
            PROVE  states[e.entity_id].applied[k].event_id # e.event_id
        <5>1. PICK g \in RecordedEvents : g.event_id = states[e.entity_id].applied[k].event_id
          BY DEF IInv, StatesSound, StateSound, AppliedSound, IsEventOf
        <5> QED
          BY <4>1, <5>1 DEF RecordedEvents
      <4> QED
        BY <4>2 DEF Applied
    <3> QED
      BY <1>6, <3>1, <3>2 DEF Agrees, Agree, IsAudited
  <2> QED
    BY <2>1, <2>2
<1> QED
  BY <1>8, <1>9, <1>10, <1>11 DEF IInv

LEMMA IngestEventKeeps ==
  ASSUME IInv, EventsApart, NEW e \in Events, IngestEvent(e)
  PROVE  IInv'
<1>1. Record(e) /\ pipeline' = pipeline /\ minted' = minted /\ pipeline = NoPipeline
  BY DEF IngestEvent
<1>2. e.entity_id \in Entities
  BY EventsAreEvents DEF IsEvent
<1>3. PipelineSound'
  BY <1>1 DEF PipelineSound
<1> QED
  BY <1>1, <1>2, <1>3, RecordKeeps

LEMMA HopKeeps ==
  ASSUME IInv, EventsApart, Hop
  PROVE  IInv'
<1>1. PICK e : e = HopEvent(pipeline, Head(pipeline.path))
  OBVIOUS
<1>2. /\ pipeline # NoPipeline /\ minted < MaxMinted /\ minted' = minted + 1 /\ Record(e)
      /\ pipeline' = [pipeline EXCEPT !.path = Tail(@)]
  BY <1>1 DEF Hop
<1>3. /\ pipeline.entity_id \in Entities
      /\ pipeline = [at |-> "hops", entity_id |-> pipeline.entity_id, context |-> pipeline.context,
                     path |-> pipeline.path]
  BY <1>2 DEF IInv, PipelineSound
<1>4. e.entity_id \in Entities /\ e.idempotency_key = NoKey /\ e.event_id = MintedId(minted + 1)
  BY <1>1, <1>3 DEF HopEvent
<1>5. PipelineSound'
  <2>1. PICK n, context, path :
          n \in Entities /\ pipeline = [at |-> "hops", entity_id |-> n, context |-> context, path |-> path]
    BY <1>3
  <2>2. pipeline' = [at |-> "hops", entity_id |-> n, context |-> context, path |-> Tail(path)]
    BY <1>2, <2>1
  <2> QED
    BY <2>1, <2>2 DEF PipelineSound
<1> QED
  BY <1>2, <1>4, <1>5, RecordKeeps

(* What transition() does to the state of the event a handler is about.    *)
LEMMA SettledSound ==
  ASSUME IInv, task.at = "settle", NEW e, e = task.event, Accepts(e)
  PROVE  /\ e.entity_id \in Entities /\ StateSound(Settled(e), e.entity_id, RecordedEvents)
         /\ Applied(Settled(e)) = Applied(states[e.entity_id])
              \cup (IF Target(e) = "none" THEN {} ELSE {e.event_id})
         /\ \A by : AppliedBy(states[e.entity_id], by) \subseteq AppliedBy(Settled(e), by)
         /\ Settled(e).hashable => states[e.entity_id].hashable
<1>1. /\ task.position \in Positions /\ ledger[task.position].event = e
      /\ e.event_id \notin Applied(states[e.entity_id])
  BY DEF IInv, TaskSound, SettleSound
<1>2. e \in RecordedEvents /\ Posted(e)
  BY <1>1 DEF RecordedEvents, IInv, LedgerSound
<1>3. e.entity_id \in Entities
  BY <1>2, EventsAreEvents DEF Posted, IsHop, IsEvent
<1>4. \A f \in RecordedEvents : f.event_id = e.event_id => f = e
  BY <1>1 DEF RecordedEvents, IInv, LedgerSound
<1>5. PICK n \in Entities : n = e.entity_id
  BY <1>3
<1>6. StateSound(states[n], n, RecordedEvents)
  BY DEF IInv, StatesSound
<1>7. CASE Target(e) = "none"
  BY <1>5, <1>6, <1>7 DEF Settled
<1>8. CASE Target(e) # "none"
  <2>1. Moves(states[n], e, Target(e)) /\ Settled(e) = Transitioned(states[n], e, Target(e), "event")
    BY <1>5, <1>8 DEF Accepts, Settled
  <2>2. /\ StateSound(Settled(e), n, RecordedEvents)
        /\ Applied(Settled(e)) = Applied(states[n]) \cup {e.event_id}
        /\ \A by : AppliedBy(states[n], by) \subseteq AppliedBy(Settled(e), by)
        /\ Settled(e).hashable => states[n].hashable
    BY <1>1, <1>2, <1>4, <1>5, <1>6, <2>1, TransitionedSound
  <2> QED
    BY <1>5, <1>8, <2>2
<1> QED
  BY <1>7, <1>8

(* The status of one entry changes, and nothing else in the ledger.        *)
LEMMA EntryChanged ==
  ASSUME IInv, NEW p \in Positions, NEW status, minted' = minted,
         ledger' = [ledger EXCEPT ![p].status = status]
  PROVE  /\ Positions' = Positions /\ RecordedEvents' = RecordedEvents /\ LedgerSound'
         /\ \A i \in Positions : ledger'[i].event = ledger[i].event
         /\ ledger'[p].status = status
         /\ \A i \in Positions : i # p => ledger'[i] = ledger[i]
<1>1. IsSeq(ledger) /\ p \in 1..Len(ledger)
  BY DEF IInv, LedgerSound, Positions
<1>2. PICK e, s : ledger[p] = [event |-> e, status |-> s]
  BY DEF IInv, LedgerSound
<1>3. PICK entry : entry = [event |-> e, status |-> status]
  OBVIOUS
<1>4. ledger' = [ledger EXCEPT ![p] = entry]
  <2>1. [ledger[p] EXCEPT !.status = status] = entry
    BY <1>2, <1>3
  <2>2. ledger' = [ledger EXCEPT ![p] = [ledger[p] EXCEPT !.status = status]]
    OBVIOUS
  <2> QED
    BY <2>1, <2>2
<1>5. /\ IsSeq(ledger') /\ Len(ledger') = Len(ledger) /\ ledger'[p] = entry
      /\ \A i \in 1..Len(ledger) : i # p => ledger'[i] = ledger[i]
  <2>1. PICK s0, r : s0 = ledger /\ r = ledger'
    OBVIOUS
  <2>2. IsSeq(s0) /\ p \in 1..Len(s0) /\ r = [s0 EXCEPT ![p] = entry]
    BY <1>1, <1>4, <2>1
  <2>3. /\ IsSeq(r) /\ Len(r) = Len(s0) /\ r[p] = entry
        /\ \A i \in 1..Len(s0) : i # p => r[i] = s0[i]
    <3>1. PICK S : s0 \in Seq(S)
      BY <2>2 DEF IsSeq
    <3>2. s0 \in Seq(S \cup {entry}) /\ entry \in S \cup {entry}
      BY <3>1
    <3>3. r \in Seq(S \cup {entry})
      BY <2>2, <3>2
    <3> QED
      BY <2>2, <3>2, <3>3 DEF IsSeq
  <2> QED
    BY <2>1, <2>3
<1>6. Positions' = Positions
  BY <1>5 DEF Positions
<1>7. /\ \A i \in Positions : ledger'[i].event = ledger[i].event
      /\ ledger'[p].status = status
      /\ \A i \in Positions : i # p => ledger'[i] = ledger[i]
  BY <1>2, <1>3, <1>5 DEF Positions
<1>8. RecordedEvents' = RecordedEvents
  BY <1>6, <1>7 DEF RecordedEvents
<1>9. LedgerSound'
  <2>1. ASSUME NEW i \in Positions
        PROVE  /\ ledger'[i] = [event |-> ledger'[i].event, status |-> ledger'[i].status]
               /\ Posted(ledger[i].event)'
    <3>1. PICK f : f = ledger[i].event
      OBVIOUS
    <3>2. Posted(f)'
      BY <3>1 DEF IInv, LedgerSound, Posted, IsHop
    <3>3. ledger'[i] = [event |-> ledger'[i].event, status |-> ledger'[i].status]
      <4>1. CASE i = p
        BY <1>3, <1>5, <4>1
      <4>2. CASE i # p
        BY <1>7, <4>2 DEF IInv, LedgerSound
      <4> QED
        BY <4>1, <4>2
    <3> QED
      BY <1>7, <3>1, <3>2, <3>3
  <2> QED
    BY <1>5, <1>6, <1>7, <2>1 DEF IInv, LedgerSound
<1> QED
  BY <1>6, <1>7, <1>8, <1>9

(* An accepted event changes the state of its entity only, and takes no    *)
(* other entry out of agreement with it.                                   *)
LEMMA SettledKeepsOthers ==
  ASSUME IInv, task.at = "settle", Accepts(task.event),
         states' = [states EXCEPT ![task.event.entity_id] = Settled(task.event)]
  PROVE  /\ states' = [n \in Entities |-> states'[n]]
         /\ \A n \in Entities : StateSound(states'[n], n, RecordedEvents)
         /\ states'[task.event.entity_id] = Settled(task.event)
         /\ \A i \in Positions : i # task.position =>
              Agree(ledger[i], states'[ledger[i].event.entity_id])
<1>1. PICK e, p : e = task.event /\ p = task.position
  OBVIOUS
<1>2. /\ e.entity_id \in Entities /\ StateSound(Settled(e), e.entity_id, RecordedEvents)
      /\ Applied(Settled(e)) \subseteq Applied(states[e.entity_id]) \cup {e.event_id}
      /\ Applied(states[e.entity_id]) \subseteq Applied(Settled(e))
      /\ \A by : AppliedBy(states[e.entity_id], by) \subseteq AppliedBy(Settled(e), by)
      /\ Settled(e).hashable => states[e.entity_id].hashable
  BY <1>1, SettledSound
<1>3. PICK n \in Entities : n = e.entity_id
  BY <1>2
<1>4. /\ states' = [m \in Entities |-> states'[m]]
      /\ \A m \in Entities : m # n => states'[m] = states[m]
      /\ states'[n] = Settled(e)
  BY <1>1, <1>3 DEF IInv, StatesSound
<1>5. \A m \in Entities : StateSound(states'[m], m, RecordedEvents)
  BY <1>2, <1>3, <1>4 DEF IInv, StatesSound
<1>6. ASSUME NEW i \in Positions, i # p
      PROVE  Agree(ledger[i], states'[ledger[i].event.entity_id])
  <2>1. PICK f : f = ledger[i].event
    OBVIOUS
  <2>2. p \in Positions /\ ledger[p].event = e /\ f.event_id # e.event_id /\ Posted(f)
        /\ Agree(ledger[i], states[f.entity_id])
    BY <1>1, <1>6, <2>1 DEF IInv, TaskSound, SettleSound, LedgerSound, Agrees
  <2>3. f.entity_id \in Entities
    BY <2>2, EventsAreEvents DEF Posted, IsHop, IsEvent
  <2>4. CASE f.entity_id = n
    BY <1>2, <1>3, <1>4, <2>1, <2>2, <2>4 DEF Agree
  <2>5. CASE f.entity_id # n
    BY <1>4, <2>1, <2>2, <2>3, <2>5
  <2> QED
    BY <2>1, <2>4, <2>5
<1> QED
  BY <1>1, <1>3, <1>4, <1>5, <1>6

(* The outcome that will be emitted is the one the entry has now, and the  *)
(* records about the other entries stay.                                   *)
LEMMA OutcomeSound ==
  ASSUME IInv, task.at = "settle", NEW status \in {"COMMITTED", "FAILED"},
         ledger' = [ledger EXCEPT ![task.position].status = status],
         task' = [at |-> "emit", event |-> task.event,
                  outcome |-> IF status = "COMMITTED" THEN "committed" ELSE "failed"],
         UNCHANGED <<minted, trail>>
  PROVE  TaskSound' /\ \A i \in Positions : IsAudited(i)'
<1>1. PICK e, p : e = task.event /\ p = task.position
  OBVIOUS
<1>2. p \in Positions /\ ledger[p].event = e
  BY <1>1 DEF IInv, TaskSound, SettleSound
<1>3. /\ Positions' = Positions /\ ledger'[p].status = status /\ ledger'[p].event = e
      /\ \A i \in Positions : ledger'[i].event = ledger[i].event
      /\ \A i \in Positions : i # p => ledger'[i] = ledger[i]
  BY <1>1, <1>2, EntryChanged
<1> DEFINE outcome == IF status = "COMMITTED" THEN "committed" ELSE "failed"
<1>4. task'.at = "emit" /\ task'.event = e /\ task'.outcome = outcome
  BY <1>1
<1>5. Outcome(p)' = outcome
  BY <1>3 DEF Outcome
<1> HIDE DEF outcome
<1>6. TaskSound'
  <2>1. \A i \in Positions : ledger'[i].event.event_id = e.event_id => i = p
    BY <1>2, <1>3 DEF IInv, LedgerSound
  <2>2. EmitSound'
    BY <1>3, <1>4, <1>5, <2>1 DEF EmitSound
  <2> QED
    BY <1>4, <2>2 DEF TaskSound, SettleSound, ReplaySound
<1>7. ASSUME NEW i \in Positions PROVE IsAudited(i)'
  <2>1. CASE i = p
    BY <1>3, <1>4, <1>5, <2>1 DEF IsAudited
  <2>2. CASE i # p
    <3>1. IsAudited(i) /\ ledger'[i] = ledger[i] /\ trail' = trail
      BY <1>3, <2>2 DEF IInv
    <3> QED
      BY <3>1 DEF IsAudited, Outcome
  <2> QED
    BY <2>1, <2>2
<1> QED
  BY <1>6, <1>7

LEMMA CommitKeeps ==
  ASSUME IInv, Commit
  PROVE  IInv'
<1>1. PICK e, p : e = task.event /\ p = task.position
  OBVIOUS
<1>2. /\ task.at = "settle" /\ Accepts(task.event) /\ UNCHANGED <<pipeline, minted, trail>>
      /\ states' = [states EXCEPT ![task.event.entity_id] = Settled(task.event)]
      /\ ledger' = [ledger EXCEPT ![task.position].status = "COMMITTED"]
      /\ task' = [at |-> "emit", event |-> task.event, outcome |-> "committed"]
  BY DEF Commit
<1>3. p \in Positions /\ ledger[p].event = e
  BY <1>1, <1>2 DEF IInv, TaskSound, SettleSound
<1>4. /\ Positions' = Positions /\ RecordedEvents' = RecordedEvents /\ LedgerSound'
      /\ ledger'[p].status = "COMMITTED" /\ ledger'[p].event = e
      /\ \A i \in Positions : i # p => ledger'[i] = ledger[i]
  BY <1>1, <1>2, <1>3, EntryChanged
<1>5. TaskSound' /\ \A i \in Positions : IsAudited(i)'
  BY <1>2, OutcomeSound
<1>6. StatesSound' /\ PipelineSound'
  BY <1>2, <1>4, SettledKeepsOthers DEF IInv, StatesSound, PipelineSound
<1>7. ASSUME NEW i \in Positions PROVE Agrees(i)'
  <2>1. CASE i = p
    <3>1. Applied(Settled(e)) = Applied(states[e.entity_id])
              \cup (IF Target(e) = "none" THEN {} ELSE {e.event_id})
      BY <1>1, <1>2, SettledSound
    <3>2. states'[e.entity_id] = Settled(e)
      BY <1>1, <1>2, SettledKeepsOthers
    <3>3. Target(e) # "none" => e.event_id \in Applied(states'[e.entity_id])
      BY <3>1, <3>2
    <3>4. Agree(ledger'[p], states'[e.entity_id])
      BY <1>4, <3>3 DEF Agree
    <3> QED
      BY <1>4, <2>1, <3>4 DEF Agrees
  <2>2. CASE i # p
    <3>1. Agree(ledger[i], states'[ledger[i].event.entity_id]) /\ ledger'[i] = ledger[i]
      BY <1>1, <1>2, <1>4, <2>2, SettledKeepsOthers
    <3> QED
      BY <3>1 DEF Agrees
  <2> QED
    BY <2>1, <2>2
<1> QED
  BY <1>4, <1>5, <1>6, <1>7 DEF IInv

LEMMA RejectKeeps ==
  ASSUME IInv, Reject
  PROVE  IInv'
<1>1. PICK e, p : e = task.event /\ p = task.position
  OBVIOUS
<1>2. /\ task.at = "settle" /\ ~Accepts(task.event) /\ UNCHANGED <<states, pipeline, minted, trail>>
      /\ ledger' = [ledger EXCEPT ![task.position].status = "FAILED"]
      /\ task' = [at |-> "emit", event |-> task.event, outcome |-> "failed"]
  BY DEF Reject
<1>3. p \in Positions /\ ledger[p].event = e /\ e.event_id \notin Applied(states[e.entity_id])
  BY <1>1, <1>2 DEF IInv, TaskSound, SettleSound
<1>4. /\ Positions' = Positions /\ RecordedEvents' = RecordedEvents /\ LedgerSound'
      /\ ledger'[p].status = "FAILED" /\ ledger'[p].event = e
      /\ \A i \in Positions : i # p => ledger'[i] = ledger[i]
  BY <1>1, <1>2, <1>3, EntryChanged
<1>5. TaskSound' /\ \A i \in Positions : IsAudited(i)'
  BY <1>2, OutcomeSound
<1>6. StatesSound' /\ PipelineSound'
  BY <1>2, <1>4 DEF IInv, StatesSound, PipelineSound
<1>7. ASSUME NEW i \in Positions PROVE Agrees(i)'
  <2>1. CASE i = p
    BY <1>2, <1>3, <1>4, <2>1 DEF Agrees, Agree
  <2>2. CASE i # p
    BY <1>2, <1>4, <2>2 DEF IInv, Agrees
  <2> QED
    BY <2>1, <2>2
<1> QED
  BY <1>4, <1>5, <1>6, <1>7 DEF IInv

(* A handler that breaks off has applied its event to a state with no      *)
(* sortable keys, or its event has no usable metadata.                     *)
LEMMA BreakOffKeeps ==
  ASSUME IInv, BreakOff
  PROVE  IInv'
<1>1. PICK e, p : e = task.event /\ p = task.position
  OBVIOUS
<1>2. /\ task.at = "settle" /\ Accepts(task.event) /\ Breaks(task.event)
      /\ UNCHANGED <<ledger, minted, trail>> /\ task' = Nobody /\ pipeline' = NoPipeline
      /\ states' = [states EXCEPT ![task.event.entity_id] = Settled(task.event)]
  BY DEF BreakOff
<1>3. p \in Positions /\ ledger[p].event = e /\ e.event_id \notin Applied(states[e.entity_id])
  BY <1>1, <1>2 DEF IInv, TaskSound, SettleSound
<1>4. Positions' = Positions /\ RecordedEvents' = RecordedEvents
  BY <1>2 DEF Positions, RecordedEvents
<1>5. LedgerSound'
  BY <1>2, <1>4 DEF IInv, LedgerSound, Posted, IsHop
<1>6. StatesSound' /\ PipelineSound'
  BY <1>2, <1>4, SettledKeepsOthers DEF StatesSound, PipelineSound
<1>7. TaskSound'
  BY <1>2, Apart DEF TaskSound, SettleSound, EmitSound, ReplaySound
<1>8. ASSUME NEW i \in Positions PROVE Agrees(i)' /\ IsAudited(i)'
  <2>1. IsAudited(i)'
    BY <1>2 DEF IInv, IsAudited, Outcome
  <2>2. CASE i = p
    <3>1. /\ Applied(Settled(e)) = Applied(states[e.entity_id])
               \cup (IF Target(e) = "none" THEN {} ELSE {e.event_id})
          /\ states'[e.entity_id] = Settled(e)
      BY <1>1, <1>2, SettledSound, SettledKeepsOthers
    <3>2. ~Settled(e).hashable \/ ~e.payload.mappable
      BY <1>1, <1>2 DEF Breaks
    <3>3. Target(e) # "none" => e.event_id \in Applied(Settled(e))
      BY <3>1
    <3>4. Agree(ledger[p], Settled(e))
      BY <1>3, <3>2, <3>3 DEF Agree
    <3> QED
      BY <1>2, <1>3, <2>1, <2>2, <3>1, <3>4 DEF Agrees
  <2>3. CASE i # p
    <3>1. Agree(ledger[i], states'[ledger[i].event.entity_id])
      BY <1>1, <1>2, <2>3, SettledKeepsOthers
    <3> QED
      BY <1>2, <2>1, <3>1 DEF Agrees
  <2> QED
    BY <2>2, <2>3
<1> QED
  BY <1>4, <1>5, <1>6, <1>7, <1>8 DEF IInv

(* The steps of a handler that leave ledger and states alone.              *)
LEMMA QuietKeeps ==
  ASSUME IInv, UNCHANGED <<ledger, states, minted, trail>>, task.at # "emit",
         PipelineSound', TaskSound'
  PROVE  IInv'
<1>1. Positions' = Positions
  BY DEF Positions
<1>2. LedgerSound'
  BY <1>1 DEF IInv, LedgerSound, Posted, IsHop
<1>3. StatesSound'
  BY <1>1 DEF IInv, StatesSound, RecordedEvents
<1>4. \A i \in Positions : Agrees(i)' /\ IsAudited(i)'
  BY DEF IInv, Agrees, IsAudited, Outcome
<1> QED
  BY <1>1, <1>2, <1>3, <1>4 DEF IInv

(* An audit record, or its loss, replaces only the one about its event.    *)
LEMMA EmitKeeps ==
  ASSUME IInv, Emit \/ EmitRaises
  PROVE  IInv'
<1>1. PICK outcome \in {task.outcome, "lost"} : trail' = Audited(task.event, outcome)
  BY DEF Emit, EmitRaises
<1>2. /\ task.at = "emit" /\ task' = Nobody /\ UNCHANGED <<ledger, states, minted>>
      /\ pipeline' = pipeline \/ pipeline' = NoPipeline
  BY DEF Emit, EmitRaises
<1>3. Positions' = Positions
  BY <1>2 DEF Positions
<1>4. LedgerSound'
  BY <1>2, <1>3 DEF IInv, LedgerSound, Posted, IsHop
<1>5. StatesSound'
  BY <1>2, <1>3 DEF IInv, StatesSound, RecordedEvents
<1>6. PipelineSound'
  BY <1>2 DEF IInv, PipelineSound
<1>7. TaskSound'
  BY <1>2, Apart DEF TaskSound, SettleSound, EmitSound, ReplaySound
<1>8. ASSUME NEW i \in Positions PROVE IsAudited(i)'
  <2> DEFINE id == ledger[i].event.event_id
  <2>1. IsAudited(i) /\ (id = task.event.event_id => task.outcome = Outcome(i))
    BY <1>2 DEF IInv, TaskSound, EmitSound
  <2>2. DOMAIN trail' = DOMAIN trail \cup {task.event.event_id}
        /\ \A x \in DOMAIN trail' : trail'[x] = IF x = task.event.event_id THEN outcome ELSE trail[x]
    BY <1>1 DEF Audited
  <2>3. CASE id = task.event.event_id
    BY <1>2, <2>1, <2>2, <2>3 DEF IsAudited, Outcome
  <2>4. CASE id # task.event.event_id
    BY <1>2, <2>1, <2>2, <2>4 DEF IsAudited, Outcome
  <2> QED
    BY <2>3, <2>4
<1>9. \A i \in Positions : Agrees(i)'
  BY <1>2 DEF IInv, Agrees
<1> QED
  BY <1>3, <1>4, <1>5, <1>6, <1>7, <1>8, <1>9 DEF IInv

(* The pipeline makes a state for its entity or takes the one there is,    *)
(* and puts its metadata into it.                                          *)
LEMMA StartPipelineKeeps ==
  ASSUME IInv, NEW request \in Pipelines, StartPipeline(request)
  PROVE  IInv'
<1>1. PICK n \in Entities : n = request.entity_id
  BY PipelinesAreRequests
<1>2. PICK path :
        pipeline' = [at |-> "hops", entity_id |-> n, context |-> request.context, path |-> path]
  BY <1>1 DEF StartPipeline
<1>3. PICK new :
        /\ new = [Known(n, request.initial_status) EXCEPT !.hashable = @ /\ request.sortable]
        /\ task = Nobody /\ UNCHANGED <<ledger, task, minted, trail>>
        /\ states' = [states EXCEPT ![n] = new]
  BY <1>1 DEF StartPipeline
<1>4. Positions' = Positions /\ RecordedEvents' = RecordedEvents
  BY <1>3 DEF Positions, RecordedEvents
<1>5. /\ StateSound(new, n, RecordedEvents) /\ Applied(new) = Applied(states[n])
      /\ \A by : AppliedBy(new, by) = AppliedBy(states[n], by)
      /\ new.hashable => states[n].hashable
  <2>1. PICK known : known = Known(n, request.initial_status)
    OBVIOUS
  <2>2. /\ StateSound(known, n, RecordedEvents) /\ Applied(known) = Applied(states[n])
        /\ \A by : AppliedBy(known, by) = AppliedBy(states[n], by)
        /\ known.hashable = states[n].hashable
    BY <2>1, KnownSound DEF IInv, StatesSound
  <2>3. new = [known EXCEPT !.hashable = @ /\ request.sortable]
    BY <1>3, <2>1
  <2>4. /\ StateSound(new, n, RecordedEvents) /\ Applied(new) = Applied(known)
        /\ \A by : AppliedBy(new, by) = AppliedBy(known, by)
        /\ new.hashable => known.hashable
    <3>1. PICK hashable : hashable = (known.hashable /\ request.sortable)
      OBVIOUS
    <3>2. new = [known EXCEPT !.hashable = hashable]
      BY <2>3, <3>1
    <3>3. hashable => known.hashable
      BY <3>1
    <3> QED
      BY <2>2, <3>2, <3>3, RehashedSound
  <2> QED
    BY <2>2, <2>4
<1>6. /\ states' = [m \in Entities |-> states'[m]]
      /\ \A m \in Entities : m # n => states'[m] = states[m]
      /\ states'[n] = new
  BY <1>3 DEF IInv, StatesSound
<1>7. LedgerSound'
  BY <1>3, <1>4 DEF IInv, LedgerSound, Posted, IsHop
<1>8. StatesSound'
  BY <1>4, <1>5, <1>6 DEF IInv, StatesSound
<1>9. PipelineSound'
  BY <1>2 DEF PipelineSound
<1>10. TaskSound'
  BY <1>3, Apart DEF TaskSound, SettleSound, EmitSound, ReplaySound
<1>11. ASSUME NEW i \in Positions PROVE Agrees(i)' /\ IsAudited(i)'
  <2>1. PICK m : m = ledger[i].event.entity_id
    OBVIOUS
  <2>2. m \in Entities /\ Agree(ledger[i], states[m])
    BY <2>1, EventsAreEvents DEF IInv, LedgerSound, Posted, IsHop, IsEvent, Agrees
  <2>3. Agree(ledger[i], states'[m])
    <3>1. CASE m = n
      BY <1>5, <1>6, <2>2, <3>1 DEF Agree
    <3>2. CASE m # n
      BY <1>6, <2>2, <3>2
    <3> QED
      BY <3>1, <3>2
  <2> QED
    BY <1>3, <2>1, <2>3 DEF IInv, Agrees, IsAudited, Outcome
<1> QED
  BY <1>4, <1>7, <1>8, <1>9, <1>10, <1>11 DEF IInv

(* A replayed entry applies its event once more at most.                   *)
LEMMA ReplayEntryKeeps ==
  ASSUME IInv, ReplayEntry
  PROVE  IInv'
<1>1. /\ task.at = "replay" /\ UNCHANGED <<ledger, pipeline, minted, trail>>
  BY DEF ReplayEntry
<1>2. task = [at |-> "replay", entries |-> task.entries] /\ task.entries \subseteq Positions
  BY <1>1 DEF IInv, TaskSound, ReplaySound
<1>3. PICK i \in task.entries :
        LET e == ledger[i].event
            state == Known(e.entity_id, "REGISTERED")
            target == e.target_status
            applies == /\ target # "none"
                       /\ e.event_id \notin Applied(state)
                       /\ Moves(state, e, target)
        IN /\ states' = [states EXCEPT ![e.entity_id] =
                           IF applies THEN Transitioned(state, e, target, "replay") ELSE state]
           /\ task' = IF task.entries = {i} THEN Nobody ELSE [task EXCEPT !.entries = @ \ {i}]
  BY DEF ReplayEntry
<1>4. PICK e : e = ledger[i].event
  OBVIOUS
<1>5. i \in Positions /\ Posted(e) /\ e.entity_id \in Entities /\ e \in RecordedEvents
  BY <1>2, <1>4, EventsAreEvents DEF IInv, LedgerSound, Posted, IsHop, IsEvent, RecordedEvents
<1>6. PICK n \in Entities : n = e.entity_id
  BY <1>5
<1> DEFINE state == Known(n, "REGISTERED")
           applies == e.target_status # "none" /\ e.event_id \notin Applied(state)
                      /\ Moves(state, e, e.target_status)
<1>7. /\ states' = [m \in Entities |-> states'[m]]
      /\ \A m \in Entities : m # n => states'[m] = states[m]
      /\ states'[n] = IF applies THEN Transitioned(state, e, e.target_status, "replay") ELSE state
  BY <1>3, <1>4, <1>6 DEF IInv, StatesSound
<1>8. /\ StateSound(state, n, RecordedEvents) /\ Applied(state) = Applied(states[n])
      /\ \A by : AppliedBy(state, by) = AppliedBy(states[n], by)
      /\ state.hashable = states[n].hashable
  BY KnownSound DEF IInv, StatesSound
<1> HIDE DEF state
<1>9. /\ StateSound(states'[n], n, RecordedEvents)
      /\ \A by : AppliedBy(states[n], by) \subseteq AppliedBy(states'[n], by)
      /\ \A id \in Applied(states'[n]) : id \in Applied(states[n]) \/ id \in AppliedBy(states'[n], "replay")
      /\ Applied(states[n]) \subseteq Applied(states'[n])
      /\ states'[n].hashable => states[n].hashable
  <2>1. CASE applies
    <3>1. Target(e) = e.target_status
      BY <2>1 DEF Target
    <3>2. \A f \in RecordedEvents : f.event_id = e.event_id => f = e
      BY <1>4, <1>5 DEF RecordedEvents, IInv, LedgerSound
    <3>3. states'[n] = Transitioned(state, e, Target(e), "replay") /\ Moves(state, e, Target(e))
      BY <1>7, <2>1, <3>1
    <3>4. /\ StateSound(states'[n], n, RecordedEvents)
          /\ Applied(states'[n]) = Applied(state) \cup {e.event_id}
          /\ \A b : AppliedBy(state, b) \subseteq AppliedBy(states'[n], b)
          /\ e.event_id \in AppliedBy(states'[n], "replay")
          /\ states'[n].hashable => state.hashable
      BY <1>5, <1>6, <1>8, <2>1, <3>2, <3>3, TransitionedSound
    <3> QED
      BY <1>8, <3>4
  <2>2. CASE ~applies
    BY <1>7, <1>8, <2>2
  <2> QED
    BY <2>1, <2>2
<1>10. Positions' = Positions /\ RecordedEvents' = RecordedEvents
  BY <1>1 DEF Positions, RecordedEvents
<1>11. LedgerSound'
  BY <1>1, <1>10 DEF IInv, LedgerSound, Posted, IsHop
<1>12. StatesSound'
  BY <1>7, <1>9, <1>10 DEF IInv, StatesSound
<1>13. PipelineSound'
  BY <1>1 DEF IInv, PipelineSound
<1>14. TaskSound'
  <2>1. \/ task' = Nobody
        \/ \E rest \in SUBSET Positions : task' = [at |-> "replay", entries |-> rest]
    <3>1. CASE task.entries = {i}
      BY <1>3, <3>1
    <3>2. CASE task.entries # {i}
      <4>1. PICK entries \in SUBSET Positions : task = [at |-> "replay", entries |-> entries]
        BY <1>2
      <4>2. task' = [at |-> "replay", entries |-> entries \ {i}]
        BY <1>3, <3>2, <4>1
      <4>3. entries \ {i} \in SUBSET Positions
        OBVIOUS
      <4> QED
        BY <4>2, <4>3
    <3> QED
      BY <3>1, <3>2
  <2> QED
    BY <1>10, <2>1, Apart DEF TaskSound, SettleSound, EmitSound, ReplaySound
<1>15. ASSUME NEW j \in Positions PROVE Agrees(j)' /\ IsAudited(j)'
  <2>1. PICK m : m = ledger[j].event.entity_id
    OBVIOUS
  <2>2. m \in Entities /\ Agree(ledger[j], states[m]) /\ IsAudited(j)
    BY <2>1, EventsAreEvents DEF IInv, LedgerSound, Posted, IsHop, IsEvent, Agrees
  <2>3. Agree(ledger[j], states'[m])
    <3>1. CASE m = n
      BY <1>9, <2>2, <3>1 DEF Agree
    <3>2. CASE m # n
      BY <1>7, <2>2, <3>2
    <3> QED
      BY <3>1, <3>2
  <2>4. Agrees(j)'
    BY <1>1, <2>1, <2>3 DEF Agrees
  <2>5. IsAudited(j)'
    BY <1>1, <2>2 DEF IsAudited, Outcome
  <2> QED
    BY <2>4, <2>5
<1> QED
  BY <1>10, <1>11, <1>12, <1>13, <1>14, <1>15 DEF IInv

(* A death leaves an empty ledger and no states.                           *)
LEMMA RestartKeeps ==
  ASSUME IInv, Restart
  PROVE  IInv'
<1>1. /\ states' = [n \in Entities |-> Unknown] /\ task' = Nobody /\ pipeline' = NoPipeline
      /\ minted' = minted /\ ledger' = << >>
  BY DEF Restart
<1>2. Positions' = {}
  BY <1>1 DEF Positions
<1>3. LedgerSound'
  BY <1>1, <1>2, EmptyIsSeq DEF IInv, LedgerSound
<1>4. StatesSound' /\ PipelineSound'
  BY <1>1, NewSound DEF StatesSound, PipelineSound, Unknown
<1>5. TaskSound'
  BY <1>1, Apart DEF TaskSound, SettleSound, EmitSound, ReplaySound
<1> QED
  BY <1>2, <1>3, <1>4, <1>5 DEF IInv

LEMMA NextKeeps ==
  ASSUME IInv, EventsApart, [Next]_vars
  PROVE  IInv'
<1>1. ASSUME NEW e \in Events, IngestEvent(e) PROVE IInv'
  BY <1>1, IngestEventKeeps
<1>2. CASE Commit \/ Reject \/ BreakOff
  BY <1>2, CommitKeeps, RejectKeeps, BreakOffKeeps
<1>3. CASE Emit \/ EmitRaises
  BY <1>3, EmitKeeps
<1>4. ASSUME NEW request \in Pipelines, StartPipeline(request) PROVE IInv'
  BY <1>4, StartPipelineKeeps
<1>5. CASE Hop
  BY <1>5, HopKeeps
<1>6. CASE FinishPipeline
  <2>1. task = Nobody /\ pipeline' = NoPipeline /\ UNCHANGED <<ledger, states, task, minted, trail>>
    BY <1>6 DEF FinishPipeline
  <2>2. PipelineSound'
    BY <2>1 DEF PipelineSound
  <2>3. TaskSound'
    BY <2>1, Apart DEF TaskSound, SettleSound, EmitSound, ReplaySound
  <2> QED
    BY <2>1, <2>2, <2>3, Apart, QuietKeeps
<1>7. ASSUME NEW from, NEW to, NEW topic, NEW entity, StartReplay(from, to, topic, entity) PROVE IInv'
  <2>1. PICK selected \in SUBSET Positions :
          /\ task = Nobody /\ task' = [at |-> "replay", entries |-> selected]
          /\ UNCHANGED <<ledger, states, pipeline, minted, trail>>
    BY <1>7 DEF StartReplay, Positions
  <2>2. PipelineSound' /\ Positions' = Positions
    BY <2>1 DEF IInv, PipelineSound, Positions
  <2>3. TaskSound'
    BY <2>1, <2>2 DEF TaskSound, SettleSound, EmitSound, ReplaySound
  <2> QED
    BY <2>1, <2>2, <2>3, Apart, QuietKeeps
<1>8. CASE ReplayEntry
  BY <1>8, ReplayEntryKeeps
<1>9. CASE Restart
  BY <1>9, RestartKeeps
<1>10. CASE UNCHANGED vars
  <2>1. UNCHANGED <<ledger, states, task, pipeline, minted, trail>> /\ Positions' = Positions
    BY <1>10 DEF vars, Positions
  <2>2. LedgerSound' /\ StatesSound' /\ PipelineSound' /\ TaskSound'
    BY <2>1 DEF IInv, LedgerSound, Posted, IsHop, StatesSound, RecordedEvents, PipelineSound, TaskSound,
                SettleSound, EmitSound, ReplaySound, Outcome
  <2>3. \A i \in Positions : Agrees(i)' /\ IsAudited(i)'
    BY <2>1 DEF IInv, Agrees, IsAudited, Outcome
  <2> QED
    BY <2>1, <2>2, <2>3 DEF IInv
<1> QED
  BY <1>1, <1>2, <1>3, <1>4, <1>5, <1>6, <1>7, <1>8, <1>9, <1>10 DEF Next

(* In every reachable state of process_event, execute_pipeline and         *)
(* replay_ledger (services/event_pipeline.py): entries have ids of their   *)
(* own, the event a handler is about to settle is the one of its entry and *)
(* not applied yet, and entry, state and audit record of an event agree.   *)
THEOREM PravahIInv ==
  ASSUME EventsApart
  PROVE  Spec => []IInv
<1>1. Init => IInv
  BY InitIInv
<1>2. IInv /\ [Next]_vars => IInv'
  BY NextKeeps
<1> QED
  BY <1>1, <1>2, PTL DEF Spec

(* transition() and its callers (services/state_machine.py): the events    *)
(* applied to an entity are recorded for it, each once, and are a walk     *)
(* along the lifecycle graph that ends at its status; the transition log   *)
(* tells the walk but for the events whose metadata made transition() raise. *)
THEOREM StatesExplained ==
  ASSUME EventsApart
  PROVE  Spec => []StatesAreExplained
<1>1. ASSUME IInv PROVE StatesAreExplained
  <2>1. \A e \in RecordedEvents : RecordedEvent(e.event_id) = e
    <3>1. ASSUME NEW i \in Positions PROVE RecordedEvent(ledger[i].event.event_id) = ledger[i].event
      <4>1. \A j \in 1..Len(ledger) : ledger[j].event.event_id = ledger[i].event.event_id => j = i
        BY <1>1 DEF IInv, LedgerSound, Positions
      <4>2. i = CHOOSE j \in 1..Len(ledger) : ledger[j].event.event_id = ledger[i].event.event_id
        BY <4>1 DEF Positions
      <4> QED
        BY <4>2 DEF RecordedEvent
    <3> QED
      BY <3>1 DEF RecordedEvents
  <2>2. ASSUME NEW n \in Entities, NEW state, state = states[n], NEW last, last = Len(state.applied)
        PROVE  /\ \A k \in 1..last :
                    /\ \E i \in 1..Len(ledger) : /\ ledger[i].event.event_id = state.applied[k].event_id
                                                 /\ ledger[i].event.entity_id = n
                    /\ \A j \in 1..last : state.applied[k].event_id = state.applied[j].event_id => k = j
                    /\ k > 1 => Reached(state, k) \in LifecycleGraph[Reached(state, k - 1)]
                                                        \cup {Reached(state, k - 1)}
                    /\ RecordedEvent(state.applied[k].event_id).payload.mappable
                         <=> \E i \in 1..Len(state.log) : state.log[i].version = k + 1
               /\ last > 0 => state.status = Reached(state, last)
               /\ \A i \in 1..Len(state.log) :
                    LET k == state.log[i].version - 1 IN
                      /\ k \in 1..last
                      /\ state.log[i].event_id = state.applied[k].event_id
                      /\ state.log[i].to_status = Reached(state, k)
                      /\ k > 1 => state.log[i].from_status = Reached(state, k - 1)
                      /\ i > 1 => state.log[i - 1].version < state.log[i].version
    <3>1. StateSound(state, n, RecordedEvents) /\ last \in Nat
      BY <1>1, <2>2, Appended DEF IInv, StatesSound, StateSound
    <3>2. AppliedSound(state, n, RecordedEvents) /\ LogSound(state, RecordedEvents)
      BY <3>1 DEF StateSound
    <3>3. ASSUME NEW k \in 1..last
          PROVE  \E e \in RecordedEvents :
                   /\ IsEventOf(e, state, k) /\ e.entity_id = n
                   /\ e = RecordedEvent(state.applied[k].event_id) /\ Reached(state, k) = Target(e)
      <4>1. PICK e \in RecordedEvents : IsEventOf(e, state, k) /\ e.entity_id = n
        BY <2>2, <3>2 DEF AppliedSound
      <4> QED
        BY <2>1, <4>1 DEF IsEventOf, Reached
    <3>4. \A k \in 1..last : k > 1 => k - 1 \in 1..last
      BY <3>1
    <3>5. ASSUME NEW k \in 1..last
          PROVE  /\ \E i \in 1..Len(ledger) : /\ ledger[i].event.event_id = state.applied[k].event_id
                                              /\ ledger[i].event.entity_id = n
                 /\ \A j \in 1..last : state.applied[k].event_id = state.applied[j].event_id => k = j
                 /\ k > 1 => Reached(state, k) \in LifecycleGraph[Reached(state, k - 1)]
                                                     \cup {Reached(state, k - 1)}
                 /\ RecordedEvent(state.applied[k].event_id).payload.mappable
                      <=> \E i \in 1..Len(state.log) : state.log[i].version = k + 1
      <4>1. PICK e \in RecordedEvents :
              /\ IsEventOf(e, state, k) /\ e.entity_id = n
              /\ e = RecordedEvent(state.applied[k].event_id) /\ Reached(state, k) = Target(e)
        BY <3>3
      <4>2. \E i \in 1..Len(ledger) : /\ ledger[i].event.event_id = state.applied[k].event_id
                                      /\ ledger[i].event.entity_id = n
        BY <4>1 DEF RecordedEvents, Positions, IsEventOf
      <4>3. \A j \in 1..last : state.applied[k].event_id = state.applied[j].event_id => k = j
        BY <2>2, <3>2 DEF AppliedSound
      <4>4. ASSUME k > 1
            PROVE  Reached(state, k) \in LifecycleGraph[Reached(state, k - 1)] \cup {Reached(state, k - 1)}
        <5>1. PICK f \in RecordedEvents : IsEventOf(f, state, k - 1) /\ Reached(state, k - 1) = Target(f)
          BY <3>3, <3>4, <4>4
        <5> QED
          BY <2>2, <3>2, <4>1, <4>4, <5>1 DEF AppliedSound
      <4>5. RecordedEvent(state.applied[k].event_id).payload.mappable
              <=> \E i \in 1..Len(state.log) : state.log[i].version = k + 1
        <5>1. e.payload.mappable <=> \E i \in 1..Len(state.log) : state.log[i].version = k + 1
          BY <2>2, <3>2, <4>1 DEF LogSound
        <5> QED
          BY <4>1, <5>1, Zenon
      <4> QED
        BY <4>2, <4>3, <4>4, <4>5
    <3>6. last > 0 => state.status = Reached(state, last)
      <4>1. SUFFICES ASSUME last > 0 PROVE state.status = Reached(state, last)
        OBVIOUS
      <4>2. last \in 1..last
        BY <3>1, <4>1
      <4> QED
        BY <2>2, <3>2, <3>3, <4>1, <4>2 DEF AppliedSound
    <3>7. ASSUME NEW i \in 1..Len(state.log)
          PROVE  LET k == state.log[i].version - 1 IN
                   /\ k \in 1..last
                   /\ state.log[i].event_id = state.applied[k].event_id
                   /\ state.log[i].to_status = Reached(state, k)
                   /\ k > 1 => state.log[i].from_status = Reached(state, k - 1)
                   /\ i > 1 => state.log[i - 1].version < state.log[i].version
      <4>1. PICK k \in 1..last :
              /\ state.log[i].version = k + 1 /\ state.log[i].event_id = state.applied[k].event_id
              /\ \A e \in RecordedEvents : IsEventOf(e, state, k) => state.log[i].to_status = Target(e)
              /\ \A e \in RecordedEvents :
                   k > 1 /\ IsEventOf(e, state, k - 1) => state.log[i].from_status = Target(e)
        BY <2>2, <3>2, Zenon DEF LogSound
      <4>2. state.log[i].version - 1 = k
        BY <3>1, <4>1
      <4>3. state.log[i].to_status = Reached(state, k)
        BY <3>3, <4>1
      <4>4. k > 1 => state.log[i].from_status = Reached(state, k - 1)
        BY <3>3, <3>4, <4>1
      <4>5. i > 1 => state.log[i - 1].version < state.log[i].version
        BY <3>2 DEF LogSound
      <4> QED
        BY <4>1, <4>2, <4>3, <4>4, <4>5
    <3> QED
      BY <3>5, <3>6, <3>7
  <2> QED
    BY <2>2 DEF StatesAreExplained
<1>2. Spec => []IInv
  BY PravahIInv
<1> QED
  BY <1>1, <1>2, PTL

(* process_event and replay_ledger: a COMMITTED entry's event reached the  *)
(* status it asked for, and what was applied is COMMITTED unless a replay  *)
(* applied it or its metadata, or its entity's, broke the handler off.     *)
THEOREM LedgerAgrees ==
  ASSUME EventsApart
  PROVE  Spec => []LedgerAgreesWithStates
<1>1. IInv => LedgerAgreesWithStates
  BY DEF IInv, Agrees, Agree, Positions, LedgerAgreesWithStates
<1>2. Spec => []IInv
  BY PravahIInv
<1> QED
  BY <1>1, <1>2, PTL

(* process_event: the outcome of an entry is the one its last audit record *)
(* tells, unless the record is about to be emitted or was lost.            *)
THEOREM OutcomesAudited ==
  ASSUME EventsApart
  PROVE  Spec => []OutcomesAreAudited
<1>1. IInv => OutcomesAreAudited
  BY DEF IInv, IsAudited, Outcome, Positions, OutcomesAreAudited
<1>2. Spec => []IInv
  BY PravahIInv
<1> QED
  BY <1>1, <1>2, PTL

(* PravahReplayLedger: until a restart an entry keeps its place and its    *)
(* event, and a COMMITTED one stays COMMITTED.                             *)
THEOREM CommitmentsStay ==
  ASSUME EventsApart
  PROVE  Spec => CommittedStays
<1>1. ASSUME IInv, [Next]_vars, ledger' # << >>, NEW i \in Positions
      PROVE  /\ i <= Len(ledger') /\ ledger'[i].event = ledger[i].event
             /\ ledger[i].status = "COMMITTED" => ledger'[i].status = "COMMITTED"
  <2>1. IsSeq(ledger) /\ Len(ledger) \in Nat /\ i \in 1..Len(ledger)
    BY <1>1, Appended DEF IInv, LedgerSound, Positions
  <2>2. CASE UNCHANGED ledger
    BY <2>1, <2>2
  <2>3. CASE \E e : Record(e)
    <3>1. PICK e : Record(e)
      BY <2>3
    <3>2. CASE ledger' = ledger
      BY <2>1, <3>2
    <3>3. CASE ledger' = Append(ledger, [event |-> e, status |-> "PENDING"])
      <4>1. Len(ledger') = Len(ledger) + 1 /\ ledger'[i] = ledger[i]
        BY <2>1, <3>3, Appended
      <4> QED
        BY <2>1, <4>1
    <3> QED
      BY <3>1, <3>2, <3>3 DEF Record, Recorded
  <2>4. CASE Commit \/ Reject
    <3>1. PICK e, p : e = task.event /\ p = task.position
      OBVIOUS
    <3>2. /\ p \in Positions /\ ledger[p].event = e
          /\ e.event_id \notin Applied(states[e.entity_id])
      BY <1>1, <2>4, <3>1 DEF IInv, TaskSound, SettleSound, Commit, Reject
    <3>3. Reject => ledger[p].status # "COMMITTED"
      <4>1. Reject => Target(e) # "none"
        BY <3>1 DEF Reject, Accepts
      <4> QED
        BY <1>1, <3>2, <4>1 DEF IInv, Agrees, Agree
    <3>4. PICK status \in {"COMMITTED", "FAILED"} :
            /\ ledger' = [ledger EXCEPT ![task.position].status = status] /\ minted' = minted
            /\ status = "FAILED" => Reject
      BY <2>4 DEF Commit, Reject
    <3>5. /\ Positions' = Positions /\ ledger'[i].event = ledger[i].event
          /\ ledger'[p].status = status /\ (i # p => ledger'[i] = ledger[i])
      BY <1>1, <3>1, <3>2, <3>4, EntryChanged
    <3>6. i <= Len(ledger')
      <4>1. i \in 1..Len(ledger')
        BY <1>1, <3>5 DEF Positions
      <4>2. IsSeq(ledger')
        BY <1>1, <3>1, <3>2, <3>4, EntryChanged DEF LedgerSound
      <4>3. Len(ledger') \in Nat
        <5>1. PICK r : r = ledger'
          OBVIOUS
        <5>2. IsSeq(r)
          BY <4>2, <5>1
        <5>3. Len(r) \in Nat
          BY <5>2, Appended
        <5> QED
          BY <5>1, <5>3
      <4> QED
        BY <4>1, <4>3
    <3>7. CASE i = p
      BY <3>3, <3>4, <3>5, <3>6, <3>7
    <3>8. CASE i # p
      BY <3>5, <3>6, <3>8
    <3> QED
      BY <3>7, <3>8
  <2>5. CASE ledger' = << >>
    BY <1>1, <2>5
  <2> QED
    BY <1>1, <2>2, <2>3, <2>4, <2>5 DEF Next, vars, IngestEvent, Hop, BreakOff, Emit, EmitRaises, StartPipeline,
       FinishPipeline, StartReplay, ReplayEntry, Restart
<1>2. IInv /\ [Next]_vars =>
        [ledger' # << >> =>
           \A i \in 1..Len(ledger) :
             /\ i <= Len(ledger')
             /\ ledger'[i].event = ledger[i].event
             /\ ledger[i].status = "COMMITTED" => ledger'[i].status = "COMMITTED"]_vars
  BY <1>1 DEF Positions
<1>3. Spec => []IInv
  BY PravahIInv
<1> QED
  BY <1>2, <1>3, PTL DEF Spec, CommittedStays
=============================================================================
