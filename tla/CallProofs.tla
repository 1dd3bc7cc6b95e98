------------------------------ MODULE CallProofs ------------------------------
(* Proofs about the calls the service receives (InboundRequests), for any   *)
(* actors, passwords, workers, sizes and times, and about those it makes of *)
(* OpenSky (OutboundCalls), for any threads, flights, boxes and times.      *)
EXTENDS InboundRequests, OutboundCalls, WellFoundedInduction, TLAPS

(* Roles that are not an administrator's by password are never privileged.  *)
LEMMA UnearnedRoles ==
  ASSUME NEW actor
  PROVE  ResolveRoles(actor, FALSE) \cap Privileged = {}
<1>1. OperatorRoles \cap Privileged = {} /\ ViewerRoles \cap Privileged = {}
  BY DEF OperatorRoles, ViewerRoles, Privileged
<1>2. MappedRoles(actor) \cap Privileged = {}
  BY DEF MappedRoles
<1> QED
  BY <1>1, <1>2 DEF ResolveRoles

(* A token with a privileged role was earned with the administrators'       *)
(* password, by one of them (auth/service.py, authenticate).                *)
THEOREM PrivilegesAreEarned == Spec => []PrivilegeIsEarned
<1>1. InboundInit => PrivilegeIsEarned
  BY DEF InboundInit, AuthInit, PrivilegeIsEarned
<1>2. PrivilegeIsEarned /\ [Next]_inboundVars => PrivilegeIsEarned'
  <2> SUFFICES ASSUME PrivilegeIsEarned, [Next]_inboundVars
               PROVE  PrivilegeIsEarned'
    OBVIOUS
  <2>1. CASE issued' = issued
    BY <2>1 DEF PrivilegeIsEarned, Privileged
  <2>2. ASSUME NEW w \in Workers, NEW actor \in Actors, NEW password \in Passwords,
               Authenticate(w, actor, password)
        PROVE  PrivilegeIsEarned'
    <3> DEFINE given == [actor |-> actor, exp |-> now + Lifetime, secret |-> SecretOf(w),
                         for |-> password,
                         roles |-> ResolveRoles(actor, TakenAsAdmins(actor, password))]
    <3>1. issued' = issued \cup {given}
      BY <2>2 DEF Authenticate
    <3>2. given.roles \cap Privileged # {} => TakenAsAdmins(actor, password)
      BY UnearnedRoles DEF TakenAsAdmins
    <3>3. TakenAsAdmins(actor, password) => given.actor \in Admins /\ given.for = "ADMIN_PASSWORD"
      BY DEF TakenAsAdmins
    <3> QED
      BY <3>1, <3>2, <3>3 DEF PrivilegeIsEarned, Privileged
  <2>3. issued' = issued \/ \E w \in Workers, actor \in Actors, password \in Passwords :
                              Authenticate(w, actor, password)
    BY DEF Next, inboundVars, authVars, LogIn, Refuse, Visit, VisitProduction, Tick, Restart
  <2> QED
    BY <2>1, <2>2, <2>3
<1> QED
  BY <1>1, <1>2, PTL DEF Spec

------------------------------------------------------------------------------
(* What a worker let through is still in its table, was dropped from a full *)
(* table, or has run out; what it has verified had not run out then.        *)
Remembered ==
  \A w \in Workers : \A jti \in used[w] :
    jti \in table[w] \/ jti \in dropped[w] \/ ExpiryOf[jti] < now

CheckedInTime ==
  \A w \in Workers : \A check \in checked[w] :
    check.jti \in Jtis /\ check.at < ExpiryOf[check.jti]

TablesOfWorkers ==
  /\ now \in Nat
  /\ used \in [Workers -> SUBSET Jtis]
  /\ table = [w \in Workers |-> table[w]]
  /\ replayed = [w \in Workers |-> replayed[w]]
  /\ dropped = [w \in Workers |-> dropped[w]]
  /\ checked = [w \in Workers |-> checked[w]]
  /\ outran = [w \in Workers |-> outran[w]]

ReplayInv == TablesOfWorkers /\ Remembered /\ CheckedInTime /\ ReplaysAreExplained

(* A token that is let through once more has lost its entry to a full table *)
(* or to the clock, and had not run out when it was verified.               *)
LEMMA LetThroughKeepsReplayInv ==
  ASSUME ReplayInv, NEW w \in Workers, NEW check \in checked[w], NEW address,
         LetThrough(w, check.jti, check.at, address),
         checked' = [checked EXCEPT ![w] = {}], now' = now
  PROVE  ReplayInv'
<1> DEFINE jti == check.jti
<1>1. PICK half \in HalfDropped(Current(table[w]) \cup {jti}) :
        /\ table' = [table EXCEPT ![w] = (Current(table[w]) \cup {jti}) \ half]
        /\ dropped' = [dropped EXCEPT ![w] = @ \cup half]
  BY DEF LetThrough
<1>2. /\ used' = [used EXCEPT ![w] = @ \cup {jti}]
      /\ replayed' = [replayed EXCEPT ![w] = IF jti \in used[w] THEN @ \cup {jti} ELSE @]
      /\ outran' = [outran EXCEPT ![w] = IF RunsOutSince(check.at, jti) THEN @ \cup {jti} ELSE @]
  BY DEF LetThrough
<1>3. (\A j \in Jtis : ExpiryOf[j] \in Nat) /\ jti \in Jtis /\ check.at < ExpiryOf[jti]
  BY LimitsAssumption DEF ReplayInv, CheckedInTime
<1>4. jti \notin Current(table[w])
  BY DEF LetThrough
<1> HIDE DEF jti
<1>5. TablesOfWorkers'
  BY <1>1, <1>2, <1>3 DEF ReplayInv, TablesOfWorkers
<1>6. jti \in used[w] => jti \in dropped[w] \/ RunsOutSince(check.at, jti)
  <2>1. jti \in table[w] => ExpiryOf[jti] < now
    BY <1>3, <1>4 DEF Current, ReplayInv, TablesOfWorkers
  <2> QED
    BY <1>3, <2>1 DEF RunsOutSince, ReplayInv, Remembered
<1>7. Remembered'
  <2> SUFFICES ASSUME NEW v \in Workers, NEW j \in used'[v]
               PROVE  j \in table'[v] \/ j \in dropped'[v] \/ ExpiryOf[j] < now
    BY DEF Remembered
  <2>1. CASE v # w
    BY <2>1, <1>1, <1>2 DEF ReplayInv, TablesOfWorkers, Remembered
  <2>2. CASE v = w
    <3>1. /\ table'[w] = (Current(table[w]) \cup {jti}) \ half
          /\ dropped'[w] = dropped[w] \cup half
          /\ used'[w] = used[w] \cup {jti}
      BY <1>1, <1>2 DEF ReplayInv, TablesOfWorkers
    <3>2. j \in Jtis
      BY <2>2, <1>5 DEF TablesOfWorkers
    <3>3. j \in table[w] => j \in Current(table[w]) \/ ExpiryOf[j] < now
      BY <3>2, <1>3 DEF Current, ReplayInv, TablesOfWorkers
    <3> QED
      BY <2>2, <3>1, <3>3 DEF ReplayInv, Remembered
  <2> QED
    BY <2>1, <2>2
<1>8. ReplaysAreExplained'
  BY <1>1, <1>2, <1>6 DEF ReplayInv, TablesOfWorkers, ReplaysAreExplained
<1>9. CheckedInTime'
  BY DEF ReplayInv, TablesOfWorkers, CheckedInTime
<1> QED
  BY <1>5, <1>7, <1>8, <1>9 DEF ReplayInv

(* What a table drops by its own clock has run out.                         *)
LEMMA RefusalKeepsReplayInv ==
  ASSUME ReplayInv, NEW w \in Workers, NEW jti, RefuseReplay(w, jti),
         checked' = [checked EXCEPT ![w] = {}], now' = now
  PROVE  ReplayInv'
<1>1. table' = [table EXCEPT ![w] = Current(table[w])] /\ UNCHANGED <<used, replayed, dropped, outran>>
  BY DEF RefuseReplay
<1>2. \A j \in Jtis : ExpiryOf[j] \in Nat
  BY LimitsAssumption
<1>3. TablesOfWorkers' /\ ReplaysAreExplained'
  BY <1>1 DEF ReplayInv, TablesOfWorkers, ReplaysAreExplained
<1>4. Remembered'
  <2> SUFFICES ASSUME NEW v \in Workers, NEW j \in used[v]
               PROVE  j \in table'[v] \/ j \in dropped[v] \/ ExpiryOf[j] < now
    BY <1>1 DEF Remembered
  <2>1. table'[v] = IF v = w THEN Current(table[w]) ELSE table[v]
    BY <1>1 DEF ReplayInv, TablesOfWorkers
  <2>2. j \in Jtis
    BY DEF ReplayInv, TablesOfWorkers
  <2>3. j \in table[v] => j \in Current(table[v]) \/ ExpiryOf[j] < now
    BY <2>2, <1>2 DEF Current, ReplayInv, TablesOfWorkers
  <2> QED
    BY <2>1, <2>3 DEF ReplayInv, Remembered
<1>5. CheckedInTime'
  BY DEF ReplayInv, TablesOfWorkers, CheckedInTime
<1> QED
  BY <1>3, <1>4, <1>5 DEF ReplayInv

(* A token verifies before it runs out.                                     *)
LEMMA VerifyKeepsReplayInv ==
  ASSUME ReplayInv, NEW w \in Workers, NEW jti \in Jtis, Verify(w, jti), now' = now
  PROVE  ReplayInv'
<1>1. PICK check : check = [jti |-> jti, at |-> now]
  OBVIOUS
<1>2. /\ checked' = [checked EXCEPT ![w] = {check}]
      /\ UNCHANGED <<table, used, replayed, dropped, outran>>
  BY <1>1 DEF Verify
<1>3. check.jti \in Jtis /\ check.at < ExpiryOf[check.jti]
  BY <1>1, LimitsAssumption DEF Verify, Verifies, ReplayInv, TablesOfWorkers
<1>4. CheckedInTime'
  BY <1>2, <1>3 DEF ReplayInv, TablesOfWorkers, CheckedInTime
<1> QED
  BY <1>2, <1>4 DEF ReplayInv, TablesOfWorkers, Remembered, ReplaysAreExplained

(* Time and a restart: what has run out stays so, and a process that starts *)
(* again has let nothing through.                                           *)
LEMMA TimeAndRestartsKeepReplayInv ==
  ASSUME ReplayInv, Tick \/ \E w \in Workers : Restart(w)
  PROVE  ReplayInv'
<1>1. \A j \in Jtis : ExpiryOf[j] \in Nat
  BY LimitsAssumption
<1>2. CASE Tick
  BY <1>1, <1>2 DEF Tick, limitVars, tableVars, ReplayInv, TablesOfWorkers, Remembered,
     CheckedInTime, ReplaysAreExplained
<1>3. ASSUME NEW w \in Workers, Restart(w)
      PROVE  ReplayInv'
  <2>1. /\ now' = now
        /\ table' = [table EXCEPT ![w] = {}] /\ used' = [used EXCEPT ![w] = {}]
        /\ replayed' = [replayed EXCEPT ![w] = {}] /\ dropped' = [dropped EXCEPT ![w] = {}]
        /\ checked' = [checked EXCEPT ![w] = {}] /\ outran' = [outran EXCEPT ![w] = {}]
    BY <1>3 DEF Restart, Forget
  <2>2. TablesOfWorkers'
    BY <2>1 DEF ReplayInv, TablesOfWorkers
  <2>3. Remembered' /\ CheckedInTime'
    BY <2>1 DEF ReplayInv, TablesOfWorkers, Remembered, CheckedInTime
  <2>4. ReplaysAreExplained'
    BY <2>1 DEF ReplayInv, TablesOfWorkers, ReplaysAreExplained
  <2> QED
    BY <2>2, <2>3, <2>4 DEF ReplayInv
<1> QED
  BY <1>2, <1>3

(* Under /production/ a worker lets a token through twice only if its full  *)
(* replay table dropped it in between, or the token ran out after it was    *)
(* verified and before it was registered (security/middleware.py).          *)
THEOREM ReplaysHold == Spec => []ReplaysAreExplained
<1>1. InboundInit => ReplayInv
  <2> SUFFICES ASSUME InboundInit PROVE ReplayInv
    OBVIOUS
  <2>1. /\ now = 0 /\ table = [w \in Workers |-> {}]
        /\ used = table /\ replayed = table /\ dropped = table
        /\ checked = table /\ outran = table
    BY DEF InboundInit, AuthInit, LimitsInit
  <2> QED
    BY <2>1 DEF ReplayInv, TablesOfWorkers, Remembered, CheckedInTime, ReplaysAreExplained
<1>2. ReplayInv /\ [Next]_inboundVars => ReplayInv'
  <2> SUFFICES ASSUME ReplayInv, [Next]_inboundVars
               PROVE  ReplayInv'
    OBVIOUS
  <2>1. CASE UNCHANGED <<now, tableVars>>
    BY <2>1 DEF tableVars, ReplayInv, TablesOfWorkers, Remembered, CheckedInTime, ReplaysAreExplained
  <2>2. ASSUME NEW w \in Workers, NEW address \in Addresses, VisitProduction(w, address)
        PROVE  ReplayInv'
    <3>1. now' = now
      BY <2>2 DEF VisitProduction
    <3>2. CASE \E jti \in Jtis : Verify(w, jti)
      BY <3>1, <3>2, VerifyKeepsReplayInv
    <3>3. CASE Register(w, address)
      <4>1. PICK check \in checked[w] :
              RefuseReplay(w, check.jti) \/ LetThrough(w, check.jti, check.at, address)
        BY <3>3 DEF Register
      <4>2. checked' = [checked EXCEPT ![w] = {}]
        BY <3>3 DEF Register
      <4> QED
        BY <3>1, <4>1, <4>2, LetThroughKeepsReplayInv, RefusalKeepsReplayInv
    <3> QED
      BY <2>2, <3>2, <3>3 DEF VisitProduction
  <2>3. ASSUME NEW w \in Workers, NEW address \in Addresses, LogIn(w, address)
        PROVE  UNCHANGED <<now, tableVars>>
    BY <2>3 DEF LogIn, Refuse, Authenticate
  <2>4. ASSUME NEW w \in Workers, NEW address \in Addresses, Visit(w, address)
        PROVE  UNCHANGED <<now, tableVars>>
    BY <2>4 DEF Visit, Request
  <2>5. CASE UNCHANGED inboundVars
    BY <2>1, <2>5 DEF inboundVars, limitVars
  <2> QED
    BY <2>1, <2>2, <2>3, <2>4, <2>5, TimeAndRestartsKeepReplayInv DEF Next
<1>3. ReplayInv => ReplaysAreExplained
  BY DEF ReplayInv
<1> QED
  BY <1>1, <1>2, <1>3, PTL DEF Spec

------------------------------------------------------------------------------
(* A caller that was refused was told when the oldest request of a full     *)
(* window leaves it, and the window stays full until someone is let in.     *)
WindowsType ==
  /\ now \in Nat
  /\ windows = [w \in Workers |-> [k \in Keys |-> windows[w][k]]]
  /\ due = [w \in Workers |-> [k \in Keys |-> due[w][k]]]
  /\ \A w \in Workers, k \in Keys : windows[w][k] \in Seq(Nat)

WindowsFull ==
  \A w \in Workers, k \in Keys :
    /\ Len(windows[w][k]) <= MaxRequests
    /\ due[w][k] # Never =>
         /\ Len(windows[w][k]) = MaxRequests
         /\ due[w][k] = windows[w][k][1] + Window + 1

WindowInv == WindowsType /\ WindowsFull

LEMMA GreatestIsMax ==
  ASSUME NEW N \in Nat, NEW S \in SUBSET (0..N), 0 \in S
  PROVE  Max(S) \in S /\ \A n \in S : Max(S) >= n
<1> DEFINE G == {N - n : n \in S}
<1>1. G \in SUBSET Nat /\ G # {}
  OBVIOUS
<1>2. PICK g \in G : \A h \in G : ~(<<h, g>> \in OpToRel(<, Nat))
  BY <1>1, NatLessThanWellFounded, WFMin
<1>3. \A h \in G : ~(h < g)
  BY <1>1, <1>2 DEF OpToRel
<1>4. PICK x \in S : g = N - x
  BY <1>2
<1>5. \A y \in S : x >= y
  BY <1>3, <1>4
<1> QED
  BY <1>4, <1>5 DEF Max

LEMMA LeftFirst ==
  ASSUME NEW window \in Seq(Nat), now \in Nat
  PROVE  /\ Recent(window) \in Seq(Nat)
         /\ Len(Recent(window)) <= Len(window)
         /\ Len(Recent(window)) = Len(window) => Recent(window) = window
         /\ window # << >> /\ now - window[1] > Window => Len(Recent(window)) < Len(window)
<1> DEFINE N == Len(window)
           gone == Max(Left(window))
<1>1. N \in Nat /\ Left(window) \in SUBSET (0..N) /\ 0 \in Left(window)
  BY DEF Left
<1>2. gone \in Left(window) /\ \A n \in Left(window) : gone >= n
  BY <1>1, GreatestIsMax
<1> HIDE DEF gone
<1>3. gone \in 0..N
  BY <1>1, <1>2
<1>4. Recent(window) = SubSeq(window, gone + 1, N)
  BY DEF Recent, gone
<1>5. /\ Recent(window) \in Seq(Nat) /\ Len(Recent(window)) = N - gone
      /\ \A i \in 1..(N - gone) : Recent(window)[i] = window[gone + i]
  BY <1>3, <1>4
<1>6. gone = 0 => Recent(window) = window
  BY <1>3, <1>4
<1>7. window # << >> /\ now - window[1] > Window => 1 \in Left(window)
  BY <1>1 DEF Left
<1> QED
  BY <1>1, <1>2, <1>3, <1>5, <1>6, <1>7

LEMMA LimitKeepsWindows ==
  ASSUME WindowInv, NEW w \in Workers, NEW key, Limit(w, key), now' = now
  PROVE  WindowInv'
<1> DEFINE window == windows[w][key]
           recent == Recent(window)
<1>1. MaxRequests \in Nat \ {0} /\ Window \in Nat /\ now \in Nat
  BY LimitsAssumption DEF WindowInv, WindowsType
<1>2. \A v \in Workers, k \in Keys :
        windows[v][k] \in Seq(Nat) /\ Len(windows[v][k]) <= MaxRequests
  BY DEF WindowInv, WindowsType, WindowsFull
<1>3. CASE Allows(w, key)
  <2>1. windows' = [windows EXCEPT ![w][key] = Append(recent, now)] /\ due' = [due EXCEPT ![w][key] = Never]
    BY <1>3 DEF Limit
  <2>2. key \in Keys => Append(recent, now) \in Seq(Nat) /\ Len(Append(recent, now)) <= MaxRequests
    <3> SUFFICES ASSUME key \in Keys PROVE Append(recent, now) \in Seq(Nat) /\ Len(Append(recent, now)) <= MaxRequests
      OBVIOUS
    <3>1. recent \in Seq(Nat) /\ Len(recent) < MaxRequests
      BY <1>1, <1>2, <1>3, LeftFirst DEF Allows
    <3> HIDE DEF recent
    <3> QED
      BY <1>1, <3>1
  <2> HIDE DEF recent
  <2>3. WindowsType'
    BY <1>1, <1>2, <2>1, <2>2 DEF WindowInv, WindowsType
  <2>4. WindowsFull'
    BY <1>1, <1>2, <2>1, <2>2 DEF WindowInv, WindowsType, WindowsFull
  <2> QED
    BY <2>3, <2>4 DEF WindowInv
<1>4. CASE ~Allows(w, key)
  <2>1. /\ windows' = [windows EXCEPT ![w][key] = recent]
        /\ due' = [due EXCEPT ![w][key] = now + RetryAfter(recent)]
    BY <1>4 DEF Limit
  <2>2. key \in Keys => /\ recent \in Seq(Nat) /\ Len(recent) = MaxRequests
                        /\ now + RetryAfter(recent) = recent[1] + Window + 1
    <3> SUFFICES ASSUME key \in Keys
                 PROVE  /\ recent \in Seq(Nat) /\ Len(recent) = MaxRequests
                        /\ now + RetryAfter(recent) = recent[1] + Window + 1
      OBVIOUS
    <3>1. recent \in Seq(Nat) /\ Len(recent) = MaxRequests
      BY <1>1, <1>2, <1>4, LeftFirst DEF Allows
    <3> HIDE DEF recent
    <3> QED
      BY <1>1, <3>1 DEF RetryAfter
  <2> HIDE DEF recent
  <2>3. WindowsType'
    BY <1>1, <1>2, <2>1, <2>2 DEF WindowInv, WindowsType
  <2>4. WindowsFull'
    BY <1>1, <1>2, <2>1, <2>2 DEF WindowInv, WindowsType, WindowsFull
  <2> QED
    BY <2>3, <2>4 DEF WindowInv
<1> QED
  BY <1>3, <1>4

(* A refused caller that stays away for as long as Retry-After says is let  *)
(* in, unless its key was used meanwhile (middleware/rate_limiter.py, and   *)
(* the header of rate_limit_middleware.py).                                 *)
THEOREM RetryAfterSuffices == Spec => []RetryAfterIsEnough
<1>1. InboundInit => WindowInv
  <2> SUFFICES ASSUME InboundInit PROVE WindowInv
    OBVIOUS
  <2>1. /\ now = 0 /\ windows = [w \in Workers |-> [k \in Keys |-> << >>]]
        /\ due = [w \in Workers |-> [k \in Keys |-> Never]]
    BY DEF InboundInit, AuthInit, LimitsInit
  <2>2. << >> \in Seq(Nat) /\ Len(<< >>) = 0 /\ MaxRequests \in Nat
    BY LimitsAssumption
  <2> QED
    BY <2>1, <2>2 DEF WindowInv, WindowsType, WindowsFull
<1>2. WindowInv /\ [Next]_inboundVars => WindowInv'
  <2> SUFFICES ASSUME WindowInv, [Next]_inboundVars
               PROVE  WindowInv'
    OBVIOUS
  <2>1. CASE UNCHANGED <<windows, due>> /\ now' \in Nat
    BY <2>1 DEF WindowInv, WindowsType, WindowsFull
  <2>2. ASSUME NEW w \in Workers, NEW address \in Addresses,
               LogIn(w, address) \/ Visit(w, address) \/ VisitProduction(w, address)
        PROVE  WindowInv'
    <3>1. CASE \E key : Limit(w, key) /\ now' = now
      BY <3>1, LimitKeepsWindows
    <3>2. CASE UNCHANGED <<windows, due, now>>
      BY <2>1, <3>2 DEF WindowInv, WindowsType
    <3> QED
      BY <2>2, <3>1, <3>2 DEF LogIn, Visit, VisitProduction, Request, Verify, Register, RefuseReplay,
         LetThrough, Refuse, Authenticate, authVars
  <2>3. ASSUME NEW w \in Workers, Restart(w)
        PROVE  WindowInv'
    <3>1. /\ now' = now /\ windows' = [windows EXCEPT ![w] = [k \in Keys |-> << >>]]
          /\ due' = [due EXCEPT ![w] = [k \in Keys |-> Never]]
      BY <2>3 DEF Restart, Forget
    <3>2. << >> \in Seq(Nat) /\ Len(<< >>) = 0 /\ MaxRequests \in Nat
      BY LimitsAssumption
    <3>3. WindowsType'
      BY <3>1, <3>2 DEF WindowInv, WindowsType
    <3>4. WindowsFull'
      BY <3>1, <3>2 DEF WindowInv, WindowsType, WindowsFull
    <3> QED
      BY <3>3, <3>4 DEF WindowInv
  <2>4. CASE Tick
    BY <2>1, <2>4 DEF Tick, limitVars, WindowInv, WindowsType
  <2>5. CASE UNCHANGED inboundVars
    BY <2>1, <2>5 DEF inboundVars, limitVars, WindowInv, WindowsType
  <2> QED
    BY <2>2, <2>3, <2>4, <2>5 DEF Next
<1>3. WindowInv => RetryAfterIsEnough
  <2> SUFFICES ASSUME WindowInv, NEW w \in Workers, NEW k \in Keys, due[w][k] # Never, now >= due[w][k]
               PROVE  Len(Recent(windows[w][k])) < MaxRequests
    BY DEF RetryAfterIsEnough
  <2> DEFINE window == windows[w][k]
  <2>1. /\ window \in Seq(Nat) /\ now \in Nat /\ Window \in Nat /\ MaxRequests \in Nat \ {0}
        /\ Len(window) = MaxRequests /\ due[w][k] = window[1] + Window + 1
    BY LimitsAssumption DEF WindowInv, WindowsType, WindowsFull
  <2> HIDE DEF window
  <2>2. window[1] \in Nat /\ window # << >>
    BY <2>1
  <2>3. now - window[1] > Window
    BY <2>1, <2>2
  <2>4. Len(Recent(window)) < Len(window)
    BY <2>1, <2>2, <2>3, LeftFirst
  <2> QED
    BY <2>1, <2>4 DEF window
<1> QED
  BY <1>1, <1>2, <1>3, PTL DEF Spec

------------------------------------------------------------------------------
(* The flights of OpenSky.                                                  *)
Phases == {"idle", "label", "mint", "expiry", "get", "fallback", "meta", "answer"}
Labels == {"none", "LIVE", "GOVERNED"}

RowSets == SUBSET (Flights \cup Recorded)

AskState == [phase : Phases, box : Boxes \cup {Everywhere, Nowhere}, age : 0..CallTicks,
             bearer : Nat \cup {Nowhere}, rows : RowSets, label : Labels]
CacheState == [rows : RowSets \cup {Nowhere}, age : Nat,
               box : Boxes \cup {Everywhere, Nowhere}, label : Labels]

SkyType ==
  /\ account \in [live : BOOLEAN, credentials : BOOLEAN]
  /\ cache \in CacheState
  /\ token \in Nat \cup {Nowhere} /\ reuse \in Nat
  /\ asked \in [Askers -> AskState]
  /\ overlapped \in BOOLEAN

(* A token that may be used again outlasts its reuse by Margin less the     *)
(* time a request may take: the request whose expiry is in force may have   *)
(* begun that much before the one whose token is.                           *)
ReuseIsCovered == token # Nowhere /\ reuse > 0 => token >= reuse + Margin - CallTicks

(* While an expiry is to be written, a token is there that was new in the   *)
(* time of the request.                                                     *)
TokenIsNew ==
  /\ reuse <= Life - Margin
  /\ \A c \in Askers : At(c, "expiry") =>
       token # Nowhere /\ token + asked[c].age >= Life - CallTicks

(* What a request carries lasts until the request has to be over.           *)
BearerLasts ==
  \A c \in Askers : asked[c].bearer # Nowhere => asked[c].bearer + asked[c].age > CallTicks

BearerInv == SkyType /\ ReuseIsCovered /\ TokenIsNew /\ BearerLasts

(* Flights under the name of a box and a label.                             *)
Told(rows, box, label) == rows = IF label = "LIVE" THEN FlightsIn(box) ELSE Recorded

RequestIsTold(request) ==
  /\ request.phase = "meta" =>
       cache.rows = request.rows /\ Told(request.rows, request.box, request.label)
  /\ request.phase = "label" =>
       cache.rows = request.rows /\ request.box \in {Everywhere, cache.box} /\ cache.rows # Nowhere
  /\ request.phase = "answer" =>
       \/ Told(request.rows, request.box, request.label)
       \/ request.box = Everywhere /\ request.label = "LIVE"

(* As long as no request began during another, the cache holds the flights  *)
(* it is said to hold, but for the one that is writing it.                  *)
AloneInv ==
  ~overlapped =>
    /\ \A c, d \in Askers : c = d \/ At(c, "idle") \/ At(d, "idle")
    /\ \A c \in Askers : RequestIsTold(asked[c])
    /\ (\A c \in Askers : ~At(c, "meta")) /\ cache.rows # Nowhere =>
         Told(cache.rows, cache.box, cache.label)

LEMMA PhaseNames ==
  /\ "idle" \in Phases /\ "label" \in Phases /\ "mint" \in Phases /\ "expiry" \in Phases
  /\ "get" \in Phases /\ "fallback" \in Phases /\ "meta" \in Phases /\ "answer" \in Phases
  /\ "none" \in Labels /\ "LIVE" \in Labels /\ "GOVERNED" \in Labels
BY DEF Phases, Labels

LEMMA SkyNumbers ==
  /\ Ttl \in Nat /\ CallTicks \in Nat /\ CallTicks > 0 /\ Margin \in Nat /\ Life \in Nat
  /\ Life > Margin + CallTicks /\ Margin >= 2 * CallTicks
  /\ Nowhere \notin Nat /\ Nowhere \notin Boxes /\ Everywhere \notin Boxes /\ Nowhere # Everywhere
BY OpenSkyAssumption DEF OpenSkyAssumption

LEMMA WaitingIsAState ==
  /\ Waiting \in AskState /\ Waiting.bearer = Nowhere /\ Waiting.age = 0
  /\ Waiting.phase = "idle" /\ Waiting.rows = {}
<1>1. {} \in RowSets /\ 0 \in 0..CallTicks /\ Nowhere \in Nat \cup {Nowhere}
  BY SkyNumbers DEF RowSets
<1> QED
  BY <1>1, PhaseNames DEF Waiting, AskState

(* A time that stops is a number.                                           *)
LEMMA UntilIsANumber ==
  ASSUME NEW age \in Nat, NEW end \in Nat
  PROVE  Until(age, end) \in Nat
BY DEF Until

(* An action of a request changes that request.                             *)
LEMMA AskedChanges ==
  ASSUME SkyType, NEW c \in Askers, NEW request \in AskState,
         asked' = [asked EXCEPT ![c] = request]
  PROVE  /\ asked' \in [Askers -> AskState] /\ asked'[c] = request
         /\ \A d \in Askers : d # c => asked'[d] = asked[d]
BY DEF SkyType

(* A request that goes on without a new bearer.                             *)
LEMMA BearerKept ==
  ASSUME BearerInv, NEW c \in Askers, NEW request \in AskState,
         asked' = [asked EXCEPT ![c] = request], UNCHANGED <<token, reuse, account>>,
         cache' \in CacheState, overlapped' \in BOOLEAN,
         request.age = asked[c].age \/ request.bearer = Nowhere,
         request.bearer \in {asked[c].bearer, Nowhere}, request.phase # "expiry"
  PROVE  BearerInv'
<1>1. /\ asked' \in [Askers -> AskState] /\ asked'[c] = request
      /\ \A d \in Askers : d # c => asked'[d] = asked[d]
  BY AskedChanges DEF BearerInv
<1>2. SkyType' /\ ReuseIsCovered'
  BY <1>1 DEF BearerInv, SkyType, ReuseIsCovered
<1>3. TokenIsNew'
  BY <1>1 DEF BearerInv, TokenIsNew, At
<1>4. BearerLasts'
  BY <1>1 DEF BearerInv, BearerLasts
<1> QED
  BY <1>2, <1>3, <1>4 DEF BearerInv

LEMMA AccountBoxes ==
  ASSUME SkyType PROVE BoxesFor(account) \subseteq Boxes \cup {Everywhere}
<1>1. PICK live \in BOOLEAN, credentials \in BOOLEAN :
        account = [live |-> live, credentials |-> credentials]
  BY DEF SkyType
<1> QED
  BY Zenon, <1>1, OpenSkyAssumption DEF OpenSkyAssumption

LEMMA AskKeepsBearers ==
  ASSUME BearerInv, NEW c \in Askers, Ask(c)
  PROVE  BearerInv'
<1>1. PICK box \in BoxesFor(account) : AskAfresh(c, box) \/ AskCache(c, box)
  BY DEF Ask
<1>2. box \in Boxes \cup {Everywhere}
  BY Zenon, AccountBoxes DEF BearerInv
<1>3. UNCHANGED <<token, reuse, account>> /\ cache' = cache /\ overlapped' \in BOOLEAN
  BY <1>1 DEF Ask, AskAfresh, AskCache, BearerInv, SkyType, Busy
<1>4. ASSUME AskCache(c, box) PROVE BearerInv'
  <2>1. PICK request : request = [Waiting EXCEPT !.phase = "label", !.box = box, !.rows = cache.rows]
    OBVIOUS
  <2>2. asked' = [asked EXCEPT ![c] = request]
    BY <1>4, <2>1 DEF AskCache
  <2>3. cache.rows \in RowSets
    <3>1. cache.rows \in RowSets \cup {Nowhere}
      BY DEF CacheState, BearerInv, SkyType
    <3>2. cache.rows # Nowhere
      BY <1>4 DEF AskCache, FreshFor
    <3> QED
      BY <3>1, <3>2
  <2>4. request \in AskState /\ request.bearer = Nowhere /\ request.phase # "expiry"
    BY PhaseNames, <1>2, <2>1, <2>3, WaitingIsAState DEF AskState
  <2> QED
    BY <1>3, <2>2, <2>4, BearerKept DEF BearerInv, SkyType
<1>5. ASSUME AskAfresh(c, box) PROVE BearerInv'
  <2>1. PICK request :
          request = [Waiting EXCEPT !.phase = FirstCall, !.box = box,
                       !.bearer = IF FirstCall = "get" /\ account.credentials THEN token ELSE Nowhere]
    OBVIOUS
  <2>2. asked' = [asked EXCEPT ![c] = request]
    BY <1>5, <2>1 DEF AskAfresh
  <2>3. /\ FirstCall \in Phases /\ FirstCall # "expiry"
        /\ FirstCall = "get" /\ account.credentials => TokenUsable
    BY PhaseNames DEF FirstCall
  <2>4. /\ request \in AskState /\ request.phase # "expiry" /\ request.age = 0
        /\ request.bearer = Nowhere \/ (request.bearer = token /\ TokenUsable)
    BY <1>2, <2>1, <2>3, WaitingIsAState DEF AskState, BearerInv, SkyType
  <2>5. /\ asked' \in [Askers -> AskState] /\ asked'[c] = request
        /\ \A d \in Askers : d # c => asked'[d] = asked[d]
    BY <2>2, <2>4, AskedChanges DEF BearerInv
  <2>6. SkyType' /\ ReuseIsCovered' /\ TokenIsNew'
    BY <1>3, <2>4, <2>5 DEF BearerInv, SkyType, ReuseIsCovered, TokenIsNew, At
  <2>7. TokenUsable => token \in Nat /\ token > CallTicks
    BY OpenSkyAssumption DEF TokenUsable, BearerInv, SkyType, ReuseIsCovered, OpenSkyAssumption
  <2>8. BearerLasts'
    BY <2>4, <2>5, <2>7 DEF BearerInv, BearerLasts
  <2> QED
    BY <2>6, <2>8 DEF BearerInv
<1> QED
  BY <1>1, <1>4, <1>5

LEMMA MintKeepsBearers ==
  ASSUME BearerInv, NEW c \in Askers, MintToken(c)
  PROVE  BearerInv'
<1>1. PICK request : request = [asked[c] EXCEPT !.phase = "expiry"]
  OBVIOUS
<1>2. /\ request \in AskState /\ request.age = asked[c].age /\ request.bearer = asked[c].bearer
      /\ asked[c].age \in 0..CallTicks
  BY PhaseNames, <1>1 DEF AskState, BearerInv, SkyType
<1>3. asked' = [asked EXCEPT ![c] = request]
  BY <1>1 DEF MintToken, To, BearerInv, SkyType
<1>4. /\ asked' \in [Askers -> AskState] /\ asked'[c] = request
      /\ \A d \in Askers : d # c => asked'[d] = asked[d]
  BY <1>2, <1>3, AskedChanges DEF BearerInv
<1>5. /\ token' = Life - asked[c].age /\ token' \in Nat /\ token' >= Life - CallTicks
      /\ token' # Nowhere /\ UNCHANGED <<reuse, account, cache, overlapped>>
  BY <1>2, OpenSkyAssumption DEF MintToken, OpenSkyAssumption
<1>6. SkyType'
  BY <1>4, <1>5 DEF BearerInv, SkyType
<1>7. ReuseIsCovered' /\ reuse' <= Life - Margin
  BY <1>5, OpenSkyAssumption DEF BearerInv, SkyType, TokenIsNew, ReuseIsCovered, OpenSkyAssumption
<1>8. \A d \in Askers : asked'[d].age \in Nat
  BY <1>4, OpenSkyAssumption DEF AskState, OpenSkyAssumption
<1>9. TokenIsNew'
  BY <1>5, <1>7, <1>8, OpenSkyAssumption DEF TokenIsNew, OpenSkyAssumption
<1>10. BearerLasts'
  BY <1>2, <1>4 DEF BearerInv, BearerLasts
<1> QED
  BY <1>6, <1>7, <1>9, <1>10 DEF BearerInv

LEMMA ExpiryKeepsBearers ==
  ASSUME BearerInv, NEW c \in Askers, SetExpiry(c)
  PROVE  BearerInv'
<1>1. PICK request : request = [asked[c] EXCEPT !.phase = "get", !.bearer = token]
  OBVIOUS
<1>2. /\ request \in AskState /\ request.age = asked[c].age /\ request.bearer = token
      /\ request.phase # "expiry" /\ asked[c].age \in 0..CallTicks
  BY PhaseNames, <1>1 DEF AskState, BearerInv, SkyType
<1>3. asked' = [asked EXCEPT ![c] = request]
  BY <1>1 DEF SetExpiry, BearerInv, SkyType
<1>4. /\ asked' \in [Askers -> AskState] /\ asked'[c] = request
      /\ \A d \in Askers : d # c => asked'[d] = asked[d]
  BY <1>2, <1>3, AskedChanges DEF BearerInv
<1>5. token \in Nat /\ token + asked[c].age >= Life - CallTicks
  BY DEF SetExpiry, BearerInv, SkyType, TokenIsNew
<1>6. /\ reuse' = Life - Margin - asked[c].age /\ reuse' \in Nat /\ reuse' <= Life - Margin
      /\ UNCHANGED <<token, account, cache, overlapped>>
  BY <1>2, OpenSkyAssumption DEF SetExpiry, OpenSkyAssumption
<1>7. SkyType'
  BY <1>4, <1>6 DEF BearerInv, SkyType
<1>8. ReuseIsCovered'
  BY <1>2, <1>5, <1>6, OpenSkyAssumption DEF ReuseIsCovered, OpenSkyAssumption
<1>9. TokenIsNew'
  BY <1>2, <1>4, <1>6 DEF BearerInv, TokenIsNew, At
<1>10. BearerLasts'
  BY <1>2, <1>4, <1>5, OpenSkyAssumption DEF BearerInv, BearerLasts, OpenSkyAssumption
<1> QED
  BY <1>7, <1>8, <1>9, <1>10 DEF BearerInv

LEMMA TickKeepsBearers ==
  ASSUME BearerInv, SkyTick
  PROVE  BearerInv'
<1>1. \A life \in Nat \cup {Nowhere} :
        /\ Less(life) \in Nat \cup {Nowhere}
        /\ Less(life) = Nowhere <=> life = Nowhere
        /\ life \in Nat => Less(life) \in Nat /\ (life > 0 => Less(life) = life - 1) /\ (life = 0 => Less(life) = 0)
  BY OpenSkyAssumption DEF Less, OpenSkyAssumption
<1>2. ASSUME NEW d \in Askers
      PROVE  /\ asked'[d] \in AskState /\ asked'[d].phase = asked[d].phase
             /\ (At(d, "idle") /\ asked'[d] = asked[d])
                \/ /\ asked'[d].age = asked[d].age + 1 /\ asked[d].age < CallTicks
                   /\ asked'[d].bearer = Less(asked[d].bearer) /\ ~At(d, "idle")
  <2>1. asked[d] \in AskState
    BY DEF BearerInv, SkyType
  <2>2. CASE At(d, "idle")
    BY <2>1, <2>2 DEF SkyTick
  <2>3. CASE ~At(d, "idle")
    <3>1. PICK request : request = [asked[d] EXCEPT !.age = @ + 1, !.bearer = Less(@)]
      OBVIOUS
    <3>2. asked'[d] = request /\ asked[d].age < CallTicks
      BY <2>3, <3>1 DEF SkyTick
    <3>3. Less(asked[d].bearer) \in Nat \cup {Nowhere}
      BY <1>1, <2>1 DEF AskState
    <3> QED
      <4>1. asked[d].age + 1 \in 0..CallTicks
        BY <2>1, <3>2, SkyNumbers DEF AskState
      <4>2. /\ request \in AskState /\ request.phase = asked[d].phase
            /\ request.age = asked[d].age + 1 /\ request.bearer = Less(asked[d].bearer)
        BY <2>1, <3>1, <3>3, <4>1 DEF AskState
      <4> QED
        BY <2>3, <3>2, <4>2
  <2> QED
    BY <2>2, <2>3
<1>3. asked' \in [Askers -> AskState]
  BY <1>2 DEF SkyTick
<1>4. cache' \in CacheState
  <2>1. cache \in CacheState /\ cache.age + 1 \in Nat
    BY DEF BearerInv, SkyType, CacheState
  <2>2. PICK age \in Nat : age = Until(cache.age + 1, Ttl)
    BY <2>1, UntilIsANumber, SkyNumbers
  <2>3. cache' = [cache EXCEPT !.age = age]
    BY <2>1, <2>2 DEF SkyTick, CacheState
  <2> QED
    BY <2>1, <2>3 DEF CacheState
<1>5. token' = Less(token) /\ reuse' = Less(reuse) /\ UNCHANGED <<account, overlapped>>
  BY DEF SkyTick
<1>6. SkyType'
  BY <1>1, <1>3, <1>4, <1>5 DEF BearerInv, SkyType
<1>7. ReuseIsCovered'
  BY <1>1, <1>5, OpenSkyAssumption DEF BearerInv, SkyType, ReuseIsCovered, OpenSkyAssumption
<1>8. reuse' <= Life - Margin
  BY <1>1, <1>5, OpenSkyAssumption DEF BearerInv, SkyType, TokenIsNew, OpenSkyAssumption
<1>9. ASSUME NEW d \in Askers, At(d, "expiry")'
      PROVE  token' # Nowhere /\ token' + asked'[d].age >= Life - CallTicks
  <2>1. At(d, "expiry") /\ ~At(d, "idle")
    BY <1>2, <1>9 DEF At
  <2>2. token \in Nat /\ token # Nowhere /\ token + asked[d].age >= Life - CallTicks
    BY <2>1 DEF BearerInv, SkyType, TokenIsNew
  <2>3. asked'[d].age = asked[d].age + 1 /\ asked[d].age < CallTicks /\ asked[d].age \in Nat
    <3>1. asked[d] \in AskState
      BY DEF BearerInv, SkyType
    <3>2. asked[d].age \in Nat
      BY <3>1, SkyNumbers DEF AskState
    <3> QED
      BY <1>2, <2>1, <3>2
  <2> QED
    BY <1>1, <1>5, <2>2, <2>3, OpenSkyAssumption DEF OpenSkyAssumption
<1>10. BearerLasts'
  <2> SUFFICES ASSUME NEW d \in Askers, asked'[d].bearer # Nowhere
               PROVE  asked'[d].bearer + asked'[d].age > CallTicks
    BY DEF BearerLasts
  <2>1. asked[d].bearer \in Nat \cup {Nowhere} /\ asked[d].age \in Nat
    BY OpenSkyAssumption DEF BearerInv, SkyType, AskState, OpenSkyAssumption
  <2>2. asked[d].bearer # Nowhere
    BY <1>1, <1>2, <2>1
  <2>3. asked[d].bearer + asked[d].age > CallTicks
    BY <2>2 DEF BearerInv, BearerLasts
  <2> QED
    BY <1>1, <1>2, <2>1, <2>2, <2>3, OpenSkyAssumption DEF OpenSkyAssumption
<1> QED
  BY <1>6, <1>7, <1>8, <1>9, <1>10 DEF BearerInv, TokenIsNew

LEMMA StepKeepsBearers ==
  ASSUME BearerInv, NEW c \in Askers, Step(c)
  PROVE  BearerInv'
<1> DEFINE Gone(request) ==
             /\ request \in AskState /\ asked' = [asked EXCEPT ![c] = request]
             /\ request.age = asked[c].age \/ request.bearer = Nowhere
             /\ request.bearer \in {asked[c].bearer, Nowhere} /\ request.phase # "expiry"
<1>1. asked[c] \in AskState /\ asked \in [Askers -> AskState] /\ cache \in CacheState
  BY DEF BearerInv, SkyType
<1>2. CASE MintToken(c)
  BY <1>2, MintKeepsBearers
<1>3. CASE SetExpiry(c)
  BY <1>3, ExpiryKeepsBearers
<1>4. ASSUME MintFails(c) \/ GetFlights(c) \/ GetFails(c) \/ Fallback(c) \/ KeepMeta(c) \/ ReadLabel(c) \/ Reply(c)
      PROVE  (\E request : Gone(request)) /\ cache' \in CacheState
  <2>1. CASE MintFails(c)
    <3>1. Gone([asked[c] EXCEPT !.phase = "get"])
      BY PhaseNames, <1>1, <2>1 DEF MintFails, To, AskState
    <3> QED
      BY <1>1, <2>1, <3>1 DEF MintFails
  <2>2. ASSUME NEW rows \in RowSets, NEW label \in Labels, Keep(c, rows, label)
        PROVE  (\E request : Gone(request)) /\ cache' \in CacheState
    <3>1. Gone([asked[c] EXCEPT !.phase = "meta", !.rows = rows, !.label = label, !.bearer = Nowhere])
      BY PhaseNames, <1>1, <2>2 DEF Keep, AskState
    <3> QED
      BY <1>1, <2>2, <3>1 DEF Keep, CacheState
  <2>3. ASSUME GiveUp(c) PROVE \E request : Gone(request)
    <3>1. Gone([asked[c] EXCEPT !.phase = "fallback", !.bearer = Nowhere])
      BY PhaseNames, <1>1, <2>3 DEF GiveUp, AskState
    <3> QED
      BY <3>1
  <2>4. CASE GetFlights(c)
    <3>1. FlightsIn(asked[c].box) \in RowSets 
      BY DEF FlightsIn, RowSets
    <3> QED
      BY PhaseNames, <1>1, <2>2, <2>3, <2>4, <3>1 DEF GetFlights
  <2>5. CASE GetFails(c)
    BY <1>1, <2>3, <2>5 DEF GetFails
  <2>6. CASE Fallback(c)
    <3>1. Recorded \in RowSets 
      BY DEF RowSets
    <3> QED
      BY PhaseNames, <2>2, <2>6, <3>1 DEF Fallback
  <2>7. CASE KeepMeta(c)
    <3>1. Gone([asked[c] EXCEPT !.phase = "answer"])
      BY PhaseNames, <1>1, <2>7 DEF KeepMeta, To, AskState
    <3>2. cache' \in CacheState
      <4>1. asked[c].age \in Nat
        BY <1>1, SkyNumbers DEF AskState
      <4>2. PICK age \in Nat : age = Until(asked[c].age, Ttl)
        BY <4>1, UntilIsANumber, SkyNumbers
      <4>3. cache' = [cache EXCEPT !.age = age, !.box = asked[c].box, !.label = asked[c].label]
        BY <2>7, <4>2 DEF KeepMeta
      <4> QED
        BY <1>1, <4>3 DEF CacheState, AskState
    <3> QED
      BY <3>1, <3>2
  <2>8. CASE ReadLabel(c)
    <3>1. Gone([asked[c] EXCEPT !.phase = "answer", !.label = cache.label])
      BY PhaseNames, <1>1, <2>8 DEF ReadLabel, AskState, CacheState
    <3> QED
      BY <1>1, <2>8, <3>1 DEF ReadLabel
  <2>9. CASE Reply(c)
    <3>1. Gone(Waiting)
      BY <2>9, WaitingIsAState, PhaseNames DEF Reply
    <3> QED
      BY <1>1, <2>9, <3>1 DEF Reply
  <2> QED
    BY <1>4, <2>1, <2>4, <2>5, <2>6, <2>7, <2>8, <2>9
<1>5. CASE MintFails(c) \/ GetFlights(c) \/ GetFails(c) \/ Fallback(c) \/ KeepMeta(c) \/ ReadLabel(c) \/ Reply(c)
  <2>1. PICK request : Gone(request)
    BY <1>4, <1>5
  <2>2. UNCHANGED <<token, reuse, account>> /\ overlapped' \in BOOLEAN /\ cache' \in CacheState
    BY <1>4, <1>5 DEF MintFails, GetFlights, GetFails, Fallback, KeepMeta, ReadLabel, Reply, BearerInv, SkyType
  <2> QED
    BY <2>1, <2>2, BearerKept
<1> QED
  BY <1>2, <1>3, <1>5 DEF Step

LEMMA BearersStayValid == CallsSpec => []BearerInv
<1>1. CallsInit => BearerInv
  <2> SUFFICES ASSUME CallsInit PROVE BearerInv
    OBVIOUS
  <2>1. asked = [c \in Askers |-> Waiting] /\ overlapped = FALSE /\ token = Nowhere /\ reuse = 0
    BY DEF CallsInit, SkyInit
  <2>2. account \in [live : BOOLEAN, credentials : BOOLEAN]
    BY DEF CallsInit, SkyInit
  <2>3. cache \in CacheState
    <3>1. cache = [rows |-> Nowhere, age |-> Ttl, box |-> Nowhere, label |-> "none"]
      BY DEF CallsInit, SkyInit
    <3>2. /\ Nowhere \in RowSets \cup {Nowhere}
          /\ Nowhere \in Boxes \cup {Everywhere, Nowhere}
      OBVIOUS
    <3> QED
      BY <3>1, <3>2, PhaseNames, SkyNumbers DEF CacheState
  <2>4. SkyType
    BY <2>1, <2>2, <2>3, WaitingIsAState DEF SkyType
  <2>5. \A c \in Askers : ~At(c, "expiry") /\ asked[c].bearer = Nowhere
    BY <2>1, WaitingIsAState DEF At
  <2>6. 0 <= Life - Margin
    BY SkyNumbers
  <2> QED
    BY <2>1, <2>4, <2>5, <2>6 DEF BearerInv, ReuseIsCovered, TokenIsNew, BearerLasts
<1>2. BearerInv /\ [CallsNext]_callVars => BearerInv'
  <2> SUFFICES ASSUME BearerInv, [CallsNext]_callVars PROVE BearerInv'
    OBVIOUS
  <2>1. CASE UNCHANGED skyVars
    BY <2>1 DEF skyVars, BearerInv, SkyType, ReuseIsCovered, TokenIsNew, BearerLasts, At
  <2>2. ASSUME SkyNext PROVE BearerInv'
    <3>1. CASE SkyChanges
      BY <3>1 DEF SkyChanges, BearerInv, SkyType, ReuseIsCovered, TokenIsNew, BearerLasts, At
    <3> QED
      BY <2>2, <3>1, AskKeepsBearers, StepKeepsBearers, TickKeepsBearers DEF SkyNext
  <2> QED
    BY <2>1, <2>2 DEF CallsNext, Clients, Flying, callVars
<1> QED
  BY <1>1, <1>2, PTL DEF CallsSpec

(* No request of OpenSky carries a token that has run out, although the     *)
(* token and its expiry are written apart, by threads that overlap, and     *)
(* checked before a call that takes its time (services/opensky_service.py,  *)
(* _get_oauth_token): the margin covers twice what a request may take.      *)
THEOREM BearersHold == CallsSpec => []BearersAreValid
<1>1. BearerInv => BearersAreValid
  <2> SUFFICES ASSUME BearerInv, NEW c \in Askers, asked[c].bearer # Nowhere
               PROVE  asked[c].bearer > 0
    BY DEF BearersAreValid
  <2>1. asked[c] \in AskState
    BY DEF BearerInv, SkyType
  <2>2. asked[c].bearer \in Nat /\ asked[c].age \in Nat /\ asked[c].age <= CallTicks
    BY <2>1, SkyNumbers DEF AskState
  <2>3. asked[c].bearer + asked[c].age > CallTicks
    BY DEF BearerInv, BearerLasts
  <2> QED
    BY <2>2, <2>3, SkyNumbers
<1> QED
  BY <1>1, BearersStayValid, PTL

-----------------------------------------------------------------------------
(* What is to be shown of a step of a request that is alone.                *)
LEMMA AloneStep ==
  ASSUME SkyType, NEW c \in Askers, NEW request,
         \A d \in Askers : d # c => At(d, "idle"),
         asked' = [asked EXCEPT ![c] = request],
         RequestIsTold(request)',
         request.phase = "meta" \/ cache'.rows = Nowhere \/ Told(cache'.rows, cache'.box, cache'.label)
  PROVE  AloneInv'
<1>1. asked'[c] = request /\ \A d \in Askers : d # c => asked'[d] = asked[d] /\ asked'[d].phase = "idle"
  BY DEF SkyType, At
<1>2. \A d, e \in Askers : d = e \/ At(d, "idle")' \/ At(e, "idle")'
  BY <1>1 DEF At
<1>3. ASSUME NEW d \in Askers PROVE RequestIsTold(asked[d])'
  BY <1>1 DEF RequestIsTold
<1>4. (\A d \in Askers : ~At(d, "meta")') /\ cache'.rows # Nowhere =>
        Told(cache'.rows, cache'.box, cache'.label)
  BY <1>1 DEF At
<1> QED
  BY <1>2, <1>3, <1>4 DEF AloneInv, Told, FlightsIn

LEMMA AskAlone ==
  ASSUME SkyType, AloneInv, NEW c \in Askers, Ask(c)
  PROVE  AloneInv'
<1> SUFFICES ASSUME ~overlapped' PROVE AloneInv'
  BY DEF AloneInv
<1>1. ~overlapped /\ ~Busy
  BY DEF Ask
<1>2. \A d \in Askers : At(d, "idle")
  BY <1>1 DEF Busy
<1>3. \A d \in Askers : ~At(d, "meta")
  BY <1>2 DEF At
<1>4. cache.rows # Nowhere => Told(cache.rows, cache.box, cache.label)
  BY <1>1, <1>3 DEF AloneInv
<1>5. PICK box : AskAfresh(c, box) \/ AskCache(c, box)
  BY DEF Ask
<1>6. cache' = cache
  BY <1>5 DEF AskAfresh, AskCache
<1>7. ASSUME AskCache(c, box) PROVE AloneInv'
  <2>1. PICK request : request = [Waiting EXCEPT !.phase = "label", !.box = box, !.rows = cache.rows]
    OBVIOUS
  <2>2. asked' = [asked EXCEPT ![c] = request]
    BY <1>7, <2>1 DEF AskCache
  <2>3. request.phase = "label" /\ request.box = box /\ request.rows = cache.rows
    BY <2>1 DEF Waiting
  <2>4. cache.rows # Nowhere /\ box \in {Everywhere, cache.box}
    BY <1>7 DEF AskCache, FreshFor
  <2>5. RequestIsTold(request)'
    BY <1>6, <2>3, <2>4 DEF RequestIsTold
  <2> QED
    BY <1>2, <1>4, <1>6, <2>2, <2>5, AloneStep
<1>8. ASSUME AskAfresh(c, box) PROVE AloneInv'
  <2>1. PICK request :
          request = [Waiting EXCEPT !.phase = FirstCall, !.box = box,
                       !.bearer = IF FirstCall = "get" /\ account.credentials THEN token ELSE Nowhere]
    OBVIOUS
  <2>2. asked' = [asked EXCEPT ![c] = request]
    BY <1>8, <2>1 DEF AskAfresh
  <2>3. FirstCall \notin {"meta", "label", "answer"}
    BY DEF FirstCall
  <2>4. request.phase = FirstCall
    BY <2>1 DEF Waiting
  <2>5. RequestIsTold(request)'
    BY <2>3, <2>4 DEF RequestIsTold
  <2> QED
    BY <1>2, <1>4, <1>6, <2>2, <2>5, AloneStep
<1> QED
  BY <1>5, <1>7, <1>8

LEMMA StepAlone ==
  ASSUME SkyType, AloneInv, NEW c \in Askers, Step(c)
  PROVE  AloneInv'
<1> SUFFICES ASSUME ~overlapped' PROVE AloneInv'
  BY DEF AloneInv
<1>1. ~overlapped
  BY DEF Step, ReadLabel, MintToken, SetExpiry, MintFails, GetFlights, GetFails, Fallback, KeepMeta, Reply
<1>2. ~At(c, "idle")
  BY DEF Step, ReadLabel, MintToken, SetExpiry, MintFails, GetFlights, GetFails, Fallback, KeepMeta,
         Reply, At
<1>3. \A d \in Askers : d # c => At(d, "idle")
  BY <1>1, <1>2 DEF AloneInv
<1>4. RequestIsTold(asked[c])
  BY <1>1 DEF AloneInv
<1>5. ~At(c, "meta") => (cache.rows = Nowhere \/ Told(cache.rows, cache.box, cache.label))
  <2>1. ~At(c, "meta") => \A d \in Askers : ~At(d, "meta")
    BY <1>3 DEF At
  <2> QED
    BY <1>1, <2>1 DEF AloneInv
<1>6. asked \in [Askers -> AskState] /\ asked[c] \in AskState
  BY DEF SkyType
<1>7. ASSUME NEW request, asked' = [asked EXCEPT ![c] = request], cache' = cache, ~At(c, "meta"),
             request.phase \notin {"meta", "label", "answer"}
      PROVE  AloneInv'
  <2>1. RequestIsTold(request)'
    BY <1>7 DEF RequestIsTold
  <2> QED
    BY <1>3, <1>5, <1>7, <2>1, AloneStep
<1>8. CASE ReadLabel(c)
  <2>1. PICK request : request = [asked[c] EXCEPT !.phase = "answer", !.label = cache.label]
    OBVIOUS
  <2>2. asked' = [asked EXCEPT ![c] = request] /\ cache' = cache
    BY <1>6, <1>8, <2>1 DEF ReadLabel
  <2>3. /\ request.phase = "answer" /\ request.label = cache.label
        /\ request.box = asked[c].box /\ request.rows = asked[c].rows
    BY <1>6, <2>1 DEF AskState
  <2>4. asked[c].phase = "label" /\ ~At(c, "meta")
    BY <1>8 DEF ReadLabel, At
  <2>5. cache.rows = asked[c].rows /\ asked[c].box \in {Everywhere, cache.box} /\ cache.rows # Nowhere
    BY <1>4, <2>4 DEF RequestIsTold
  <2>6. Told(cache.rows, cache.box, cache.label)
    BY <1>5, <2>4, <2>5
  <2>7. \/ Told(request.rows, request.box, request.label)
        \/ request.box = Everywhere /\ request.label = "LIVE"
    BY <2>3, <2>5, <2>6 DEF Told
  <2>8. RequestIsTold(request)'
    BY <2>3, <2>7 DEF RequestIsTold, Told, FlightsIn
  <2> QED
    BY <1>3, <2>2, <2>6, <2>8, AloneStep
<1>9. CASE MintToken(c) \/ SetExpiry(c) \/ MintFails(c)
  <2>1. ASSUME NEW phase \in {"expiry", "get"}, NEW bearer,
               asked' = [asked EXCEPT ![c].phase = phase, ![c].bearer = bearer]
        PROVE  AloneInv'
    <3>1. PICK request : request = [asked[c] EXCEPT !.phase = phase, !.bearer = bearer]
      OBVIOUS
    <3>2. asked' = [asked EXCEPT ![c] = request]
      BY <1>6, <2>1, <3>1
    <3>3. request.phase = phase
      BY <1>6, <3>1 DEF AskState
    <3>4. cache' = cache /\ ~At(c, "meta")
      BY <1>9 DEF MintToken, SetExpiry, MintFails, At
    <3> QED
      BY <1>7, <3>2, <3>3, <3>4
  <2>2. \E phase \in {"expiry", "get"} : To(c, phase) \/ \E bearer : asked' = [asked EXCEPT ![c].phase = phase, ![c].bearer = bearer]
    BY <1>9 DEF MintToken, SetExpiry, MintFails
  <2>3. ASSUME NEW phase \in {"expiry", "get"}, To(c, phase)
        PROVE  asked' = [asked EXCEPT ![c].phase = phase, ![c].bearer = asked[c].bearer]
    BY <1>6, <2>3 DEF To, AskState
  <2> QED
    BY <2>1, <2>2, <2>3
<1>10. ASSUME NEW rows, NEW label, Keep(c, rows, label), Told(rows, asked[c].box, label)
       PROVE  AloneInv'
  <2>1. PICK request : request = [asked[c] EXCEPT !.phase = "meta", !.rows = rows,
                                                  !.label = label, !.bearer = Nowhere]
    OBVIOUS
  <2>2. asked' = [asked EXCEPT ![c] = request] /\ cache' = [cache EXCEPT !.rows = rows]
    BY <1>6, <1>10, <2>1 DEF Keep
  <2>3. request.phase = "meta" /\ request.rows = rows /\ request.label = label /\ request.box = asked[c].box
    BY <1>6, <2>1 DEF AskState
  <2>4. cache'.rows = rows
    BY <2>2 DEF SkyType, CacheState
  <2>5. RequestIsTold(request)'
    BY <1>10, <2>3, <2>4 DEF RequestIsTold, Told, FlightsIn
  <2> QED
    BY <1>3, <2>2, <2>3, <2>5, AloneStep
<1>11. ASSUME GiveUp(c), cache' = cache, ~At(c, "meta") PROVE AloneInv'
  <2>1. PICK request : request = [asked[c] EXCEPT !.phase = "fallback", !.bearer = Nowhere]
    OBVIOUS
  <2>2. asked' = [asked EXCEPT ![c] = request] /\ request.phase = "fallback"
    BY <1>6, <1>11, <2>1 DEF GiveUp, AskState
  <2> QED
    BY <1>7, <1>11, <2>2
<1>12. CASE GetFlights(c)
  <2>1. ~At(c, "meta")
    BY <1>12 DEF GetFlights, At
  <2>2. Told(FlightsIn(asked[c].box), asked[c].box, "LIVE")
    BY DEF Told
  <2> QED
    BY <1>10, <1>11, <1>12, <2>1, <2>2 DEF GetFlights
<1>13. CASE GetFails(c)
  <2>1. ~At(c, "meta")
    BY <1>13 DEF GetFails, At
  <2> QED
    BY <1>11, <1>13, <2>1 DEF GetFails
<1>14. CASE Fallback(c)
  <2>1. Told(Recorded, asked[c].box, "GOVERNED")
    BY DEF Told
  <2> QED
    BY <1>10, <1>14, <2>1 DEF Fallback
<1>15. CASE KeepMeta(c)
  <2>1. PICK request : request = [asked[c] EXCEPT !.phase = "answer"]
    OBVIOUS
  <2>2. asked' = [asked EXCEPT ![c] = request]
    BY <1>6, <1>15, <2>1 DEF KeepMeta, To
  <2>3. /\ request.phase = "answer" /\ request.label = asked[c].label
        /\ request.box = asked[c].box /\ request.rows = asked[c].rows
    BY <1>6, <2>1 DEF AskState
  <2>4. cache.rows = asked[c].rows /\ Told(asked[c].rows, asked[c].box, asked[c].label)
    BY <1>4, <1>15 DEF RequestIsTold, KeepMeta, At
  <2>5. cache'.rows = asked[c].rows /\ cache'.box = asked[c].box /\ cache'.label = asked[c].label
    BY <1>15, <2>4 DEF KeepMeta, SkyType, CacheState
  <2>6. Told(cache'.rows, cache'.box, cache'.label)
    BY Zenon, <2>4, <2>5
  <2>7. RequestIsTold(request)'
    BY <2>3, <2>4 DEF RequestIsTold, Told, FlightsIn
  <2> QED
    BY <1>3, <2>2, <2>6, <2>7, AloneStep
<1>16. CASE Reply(c)
  <2>1. asked' = [asked EXCEPT ![c] = Waiting] /\ cache' = cache /\ ~At(c, "meta")
    BY <1>16 DEF Reply, At
  <2> QED
    BY <1>7, <2>1, WaitingIsAState
<1> QED
  BY <1>8, <1>9, <1>12, <1>13, <1>14, <1>15, <1>16 DEF Step

LEMMA TickAlone ==
  ASSUME SkyType, AloneInv, SkyTick
  PROVE  AloneInv'
<1> SUFFICES ASSUME ~overlapped' PROVE AloneInv'
  BY DEF AloneInv
<1>1. ~overlapped
  BY DEF SkyTick
<1>2. ASSUME NEW d \in Askers
      PROVE  /\ asked'[d].phase = asked[d].phase /\ asked'[d].rows = asked[d].rows
             /\ asked'[d].box = asked[d].box /\ asked'[d].label = asked[d].label
  <2>1. asked[d] \in AskState
    BY DEF SkyType
  <2>2. asked'[d] = asked[d] \/ \E age, bearer : asked'[d] = [asked[d] EXCEPT !.age = age, !.bearer = bearer]
    BY DEF SkyTick
  <2> QED
    BY <2>1, <2>2 DEF AskState
<1>3. cache'.rows = cache.rows /\ cache'.box = cache.box /\ cache'.label = cache.label
  <2>1. \E age : cache' = [cache EXCEPT !.age = age]
    BY DEF SkyTick
  <2> QED
    BY <2>1 DEF SkyType, CacheState
<1>4. \A d, e \in Askers : d = e \/ At(d, "idle")' \/ At(e, "idle")'
  BY <1>1, <1>2 DEF AloneInv, At
<1>5. ASSUME NEW d \in Askers PROVE RequestIsTold(asked[d])'
  <2>1. RequestIsTold(asked[d])
    BY <1>1 DEF AloneInv
  <2> QED
    BY <1>2, <1>3, <2>1 DEF RequestIsTold, Told, FlightsIn
<1>6. (\A d \in Askers : ~At(d, "meta")') /\ cache'.rows # Nowhere =>
        Told(cache'.rows, cache'.box, cache'.label)
  BY <1>1, <1>2, <1>3 DEF AloneInv, At, Told, FlightsIn
<1> QED
  BY <1>4, <1>5, <1>6 DEF AloneInv, Told, FlightsIn

(* As long as requests follow one another, one about a box that is labelled *)
(* live has all the flights of the box, and one that is not has recorded    *)
(* flights only: the cache is said to hold what it holds, since only the    *)
(* request that writes it could see it between its two writes               *)
(* (services/opensky_service.py, get_states).                               *)
THEOREM SequentialAnswersHold == CallsSpec => []SequentialAnswersAreWhole
<1>1. CallsInit => AloneInv
  <2> SUFFICES ASSUME CallsInit PROVE AloneInv
    OBVIOUS
  <2>1. asked = [c \in Askers |-> Waiting] /\ cache.rows = Nowhere
    BY DEF CallsInit, SkyInit
  <2>2. \A c \in Askers : At(c, "idle")
    BY <2>1, WaitingIsAState DEF At
  <2> QED
    BY <2>1, <2>2 DEF AloneInv, At, RequestIsTold
<1>2. BearerInv /\ AloneInv /\ [CallsNext]_callVars => AloneInv'
  <2> SUFFICES ASSUME SkyType, AloneInv, [CallsNext]_callVars PROVE AloneInv'
    BY DEF BearerInv
  <2>1. CASE UNCHANGED skyVars
    BY <2>1 DEF skyVars, AloneInv, RequestIsTold, Told, FlightsIn, At
  <2>2. ASSUME SkyNext PROVE AloneInv'
    <3>1. CASE SkyChanges
      BY <3>1 DEF SkyChanges, AloneInv, RequestIsTold, Told, FlightsIn, At
    <3> QED
      BY <2>2, <3>1, AskAlone, StepAlone, TickAlone DEF SkyNext
  <2> QED
    BY <2>1, <2>2 DEF CallsNext, Clients, Flying, callVars
<1>3. AloneInv => SequentialAnswersAreWhole
  <2> SUFFICES ASSUME AloneInv, NEW c \in Askers, At(c, "answer"), ~overlapped
               PROVE  IF asked[c].label = "LIVE"
                      THEN asked[c].box \in Boxes => Answer(c) = FlightsIn(asked[c].box)
                      ELSE Answer(c) \subseteq Recorded
    BY DEF SequentialAnswersAreWhole
  <2>1. RequestIsTold(asked[c])
    BY DEF AloneInv
  <2>2. \/ Told(asked[c].rows, asked[c].box, asked[c].label)
        \/ asked[c].box = Everywhere /\ asked[c].label = "LIVE"
    BY <2>1 DEF RequestIsTold, At
  <2> QED
    BY <2>2, SkyNumbers DEF Told, Answer
<1> QED
  BY <1>1, <1>2, <1>3, BearersStayValid, PTL DEF CallsSpec
=============================================================================
