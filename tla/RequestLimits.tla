----------------------------- MODULE RequestLimits -----------------------------
(* The middleware every request passes in its worker: SecurityMiddleware,   *)
(* which is added last and so is outermost, and RateLimitMiddleware, which  *)
(* counts by the actor of a token that AuthService decodes, or by address.  *)
(* Both keep their tables in the process.                                   *)
EXTENDS Authentication, Sequences, SequencesExt, FiniteSetsExt

CONSTANTS
  Addresses,
  MaxRequests, Window,  \* of the sliding window
  Jtis, ExpiryOf,       \* the tokens of /production/ and when they run out
  OwnerOf,              \* their actor if AuthService takes them too, or Anyone
  TableSize,            \* of the replay table
  Never, Anyone         \* no time; a request without a token of this service

ASSUME LimitsAssumption ==
  /\ MaxRequests \in Nat \ {0} /\ Window \in Nat /\ TableSize \in Nat \ {0}
  /\ ExpiryOf \in [Jtis -> Nat] /\ OwnerOf \in [Jtis -> Actors \cup {Anyone}]

VARIABLES
  windows,  \* worker -> key -> the times of the requests counted, oldest first
  table,    \* worker -> the jtis in its replay table
  due,      \* worker -> key -> when the caller was told to come back
  used,     \* worker -> the jtis it let through since it was started
  replayed, \* worker -> those it let through twice
  dropped,  \* worker -> those its full table forgot
  checked,  \* worker -> the token it has verified and not yet registered, if any
  outran    \* worker -> those that ran out in between and were let through

tableVars == <<table, used, replayed, dropped, checked, outran>>
limitVars == <<windows, due, tableVars>>

Keys == Actors \cup Addresses

LimitsInit ==
  /\ windows = [w \in Workers |-> [k \in Keys |-> <<>>]]
  /\ table = [w \in Workers |-> {}]
  /\ due = [w \in Workers |-> [k \in Keys |-> Never]]
  /\ used = table /\ replayed = table /\ dropped = table
  /\ checked = table /\ outran = table

(* _extract_key: a token that is not honoured counts for its address. *)
KeyOf(w, token, address) ==
  IF token # Anyone /\ Decodes(w, token) THEN token.actor ELSE address

(* allow forgets, from the oldest on, the requests that have left the window. *)
Left(window) == {n \in 0..Len(window) : \A i \in 1..n : now - window[i] > Window}

Recent(window) == SubSeq(window, Max(Left(window)) + 1, Len(window))

RetryWhenLeft(window) == Window - (now - Head(window)) \* a defect: the body's number

RetryAfter(window) == Window - (now - Head(window)) + 1

Allows(w, key) == Len(Recent(windows[w][key])) < MaxRequests

(* RateLimitMiddleware.dispatch: let a request through or answer it with 429. *)
Limit(w, key) ==
  LET recent == Recent(windows[w][key])
  IN  IF Allows(w, key)
      THEN /\ windows' = [windows EXCEPT ![w][key] = Append(recent, now)]
           /\ due' = [due EXCEPT ![w][key] = Never]
      ELSE /\ windows' = [windows EXCEPT ![w][key] = recent]
           /\ due' = [due EXCEPT ![w][key] = now + RetryAfter(recent)]

(* From the verification of a token to its registration the dispatch awaits *)
(* nothing, so no other request of the worker runs; time does.              *)
Free(w) == checked[w] = {}

Request(w, token, address) ==
  /\ Free(w)
  /\ Limit(w, KeyOf(w, token, address))
  /\ UNCHANGED tableVars

VerifiesLate(jti) == ExpiryOf[jti] + 2 > now \* a defect: with leeway

(* RS256JWTVerifier.verify. *)
Verifies(jti) == ExpiryOf[jti] > now

(* ReplayMitigationTable: _cleanup, and register of a jti that is new.  A   *)
(* full table drops half of what it holds, what runs out first first.       *)
Current(jtis) == {j \in jtis : ExpiryOf[j] >= now}

Overflows(jtis) == Cardinality(jtis) > TableSize
HalfDropped(jtis) ==
  IF Overflows(jtis)
  THEN {half \in kSubset(Cardinality(jtis) \div 2, jtis) :
          \A old \in half, kept \in jtis \ half : ExpiryOf[old] <= ExpiryOf[kept]}
  ELSE {{}}

(* SecurityMiddleware.dispatch under /production/, which reads the clock    *)
(* twice.  A token that does not verify changes nothing; one that is let    *)
(* through may still meet a 429, counted for its actor if decode_token      *)
(* takes it too.                                                            *)
Verify(w, jti) ==
  /\ Free(w) /\ Verifies(jti)
  /\ checked' = [checked EXCEPT ![w] = {[jti |-> jti, at |-> now]}]
  /\ UNCHANGED <<windows, due, table, used, replayed, dropped, outran>>

RefuseReplay(w, jti) ==
  /\ jti \in Current(table[w])
  /\ table' = [table EXCEPT ![w] = Current(@)]
  /\ UNCHANGED <<windows, due, used, replayed, dropped, outran>>

RunsOutSince(at, jti) == at < ExpiryOf[jti] /\ ExpiryOf[jti] < now

LetThrough(w, jti, at, address) ==
  /\ jti \notin Current(table[w])
  /\ LET jtis == Current(table[w]) \cup {jti}
     IN  \E half \in HalfDropped(jtis) :
           /\ table' = [table EXCEPT ![w] = jtis \ half]
           /\ dropped' = [dropped EXCEPT ![w] = @ \cup half]
  /\ used' = [used EXCEPT ![w] = @ \cup {jti}]
  /\ replayed' = [replayed EXCEPT ![w] = IF jti \in used[w] THEN @ \cup {jti} ELSE @]
  /\ outran' = [outran EXCEPT ![w] = IF RunsOutSince(at, jti) THEN @ \cup {jti} ELSE @]
  /\ Limit(w, IF OwnerOf[jti] = Anyone THEN address ELSE OwnerOf[jti])

Register(w, address) ==
  /\ \E check \in checked[w] :
       RefuseReplay(w, check.jti) \/ LetThrough(w, check.jti, check.at, address)
  /\ checked' = [checked EXCEPT ![w] = {}]

Forget(w) ==
  /\ windows' = [windows EXCEPT ![w] = [k \in Keys |-> <<>>]]
  /\ due' = [due EXCEPT ![w] = [k \in Keys |-> Never]]
  /\ table' = [table EXCEPT ![w] = {}]
  /\ used' = [used EXCEPT ![w] = {}]
  /\ replayed' = [replayed EXCEPT ![w] = {}]
  /\ dropped' = [dropped EXCEPT ![w] = {}]
  /\ checked' = [checked EXCEPT ![w] = {}]
  /\ outran' = [outran EXCEPT ![w] = {}]

------------------------------------------------------------------------------
(* A caller that was refused and stays away for as long as Retry-After says *)
(* is let in, unless someone else used up its key meanwhile: allow forgets  *)
(* a request only when it is older than the window, hence the second more.  *)
RetryAfterIsEnough ==
  \A w \in Workers, k \in Keys :
    due[w][k] # Never /\ now >= due[w][k] => Len(Recent(windows[w][k])) < MaxRequests

(* A worker lets a token through a second time only if its table was full   *)
(* in between, or if the token ran out after it was verified and before it  *)
(* was registered: what the table forgets by its own clock, a verification  *)
(* that is later refuses.                                                   *)
ReplaysAreExplained == \A w \in Workers : replayed[w] \subseteq dropped[w] \cup outran[w]
=============================================================================
