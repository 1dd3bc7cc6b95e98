------------------------------ MODULE StoreProofs ------------------------------
(***************************************************************************)
(* Proofs about stores that memory is loaded from.  First AuditChain, for  *)
(* any number of entries and any events: what deaths, failed writes and    *)
(* one lost entry file leave of the chain; once a load has gone on with a  *)
(* corrupt store nothing is claimed.  Then BackupRestore, for any threads, *)
(* documents and registry objects: what overlapping requests, failing      *)
(* saves, deaths and restores leave of memory and store.                   *)
(***************************************************************************)
EXTENDS AuditChain, BackupRestore, WellFoundedInduction, TLAPS

Calls == [at : {"entry", "entry opened", "manifest", "manifest opened", "return"},
          index : 0..(MaxEntries - 1), entry : Entry]

(* A file's hash is as long as its place in the chain.                     *)
AuditType ==
  /\ entries \in [Indexes -> Entry \cup Marks]
  /\ \A i \in Indexes : Readable(entries[i]) => Len(entries[i].previous_hash) = i
  /\ manifest \in Manifest \cup Marks
  /\ running \in BOOLEAN /\ is_corrupt = FALSE
  /\ chain \in Seq(Entry) /\ Len(chain) <= MaxEntries
  /\ \A i \in 1..Len(chain) : Len(chain[i].previous_hash) = i - 1
  /\ call \in {Idle} \cup Calls
  /\ returned \subseteq Seq(Events)

(* Writing its entry, an emit has the chain it began with under its feet.  *)
CallSound ==
  call # Idle =>
    /\ running /\ call.index = Len(chain) /\ call.entry.previous_hash = LastHash(chain)
    /\ call.at = "entry opened" => entries[call.index] = Partial
    /\ call.at \in {"manifest", "manifest opened", "return"} =>
         \/ entries[call.index] = call.entry
         \/ entries[call.index] = Absent /\ damage # "none"
    /\ call.at = "manifest opened" => manifest = Partial
    /\ call.at = "return" => manifest = ManifestFor(call.index, call.entry)

(* The running service holds all that was returned, and the files hold     *)
(* what it holds.                                                          *)
ChainSound ==
  running =>
    /\ \A i \in 1..Len(chain) :
         \/ entries[i - 1] = chain[i]
         \/ entries[i - 1] = Absent /\ damage # "none"
    /\ \A h \in returned : Len(h) \in 1..Len(chain) /\ Hash(chain[Len(h)]) = h
    /\ Readable(manifest) =>
         manifest.count = IF call.at = "return" THEN Len(chain) + 1 ELSE Len(chain)

(* So the files under the manifest hold all that was returned.             *)
StoreSound ==
  /\ manifest = Absent => returned = {}
  /\ Readable(manifest) =>
       \A h \in returned :
         /\ Len(h) \in 1..manifest.count
         /\ Readable(entries[Len(h) - 1]) => Hash(entries[Len(h) - 1]) = h

(* Nothing was lost: every file follows the one before, the manifest is of *)
(* the last but at most one, and so is the chain in memory.                *)
Undamaged ==
  /\ \A i, j \in Indexes : j < i /\ entries[i] # Absent => Readable(entries[j])
  /\ \A i \in Indexes :
       Readable(entries[i]) =>
         entries[i].previous_hash = IF i = 0 THEN Zeros ELSE Hash(entries[i - 1])
  /\ Readable(manifest) =>
       /\ Readable(entries[manifest.count - 1])
       /\ manifest.last_hash = Hash(entries[manifest.count - 1])
       /\ \A j \in Indexes : j > manifest.count => entries[j] = Absent
  /\ running => \A j \in Indexes : j > Len(chain) => entries[j] = Absent
  /\ entries[MaxEntries] = Absent

Kept ==
  /\ AuditType /\ CallSound /\ ChainSound /\ StoreSound
  /\ damage = "none" => Undamaged

IInv == damage # "tolerated" => Kept

------------------------------------------------------------------------------
(* Hashes grow by one event.                                               *)
LEMMA HashIs ==
  ASSUME NEW entry \in Entry
  PROVE  Hash(entry) \in Seq(Events) /\ Len(Hash(entry)) = Len(entry.previous_hash) + 1
  BY DEF Hash, Entry

LEMMA LastHashIs ==
  ASSUME AuditType
  PROVE  LastHash(chain) \in Seq(Events) /\ Len(LastHash(chain)) = Len(chain)
<1>1. CASE chain = << >>
  BY <1>1 DEF LastHash, Zeros
<1>2. CASE chain # << >>
  <2>1. Len(chain) \in Nat \ {0} /\ chain[Len(chain)] \in Entry
        /\ Len(chain[Len(chain)].previous_hash) = Len(chain) - 1
    BY <1>2 DEF AuditType
  <2> QED
    BY <2>1, <1>2, HashIs DEF LastHash
<1> QED
  BY <1>1, <1>2

(* A record is readable and the marks are not.                             *)
LEMMA EntriesAreReadable ==
  /\ \A entry \in Entry : Readable(entry)
  /\ \A m \in Manifest : Readable(m)
  /\ ~Readable(Absent) /\ ~Readable(Partial)
  BY NeitherIsAMark DEF Readable, Marks

LEMMA BusyCall ==
  ASSUME AuditType, call # Idle
  PROVE  call \in Calls /\ call.index \in Indexes /\ call.index + 1 \in Indexes
<1>1. call \in Calls
  BY DEF AuditType
<1>2. call.index \in 0..(MaxEntries - 1)
  BY <1>1 DEF Calls
<1> QED
  BY <1>1, <1>2, MaxEntriesIsNat DEF Indexes

LEMMA IdleIsNoCall == Idle \notin Calls /\ Idle.at = "idle"
  BY DEF Idle, Calls

(* The walk over the entries stops at the first one it cannot get past.    *)
LEMMA LoadedCountIs ==
  ASSUME AuditType
  PROVE  /\ Expected \in Indexes /\ LoadedCount \in Indexes /\ LoadedCount <= Expected
         /\ \A i \in Indexes : i < LoadedCount => Readable(entries[i])
         /\ LoadedCount = Expected \/ ~Readable(entries[LoadedCount])
<1> DEFINE Stops == {i \in Indexes : i = Expected \/ ~Readable(entries[i])}
<1>1. Expected \in Indexes
  BY MaxEntriesIsNat DEF AuditType, Expected, Indexes, Manifest, Readable
<1>2. Stops \in SUBSET Nat /\ Expected \in Stops
  BY <1>1, MaxEntriesIsNat DEF Indexes
<1>3. \E x \in Stops : \A y \in Stops : x <= y
  <2> DEFINE less == OpToRel(<, Nat)
  <2>1. IsWellFoundedOn(less, Nat)
    BY NatLessThanWellFounded
  <2>2. \A x, y \in Nat : <<y, x>> \in less <=> y < x
    BY DEF OpToRel
  <2> HIDE DEF Stops, less
  <2>3. PICK x \in Stops : \A y \in Stops : ~(<<y, x>> \in less)
    BY <1>2, <2>1, WFMin
  <2>4. x \in Nat /\ \A y \in Stops : y \in Nat /\ ~(y < x)
    BY <1>2, <2>2, <2>3
  <2>5. \A y \in Stops : x <= y
    BY <2>4
  <2> QED
    BY <2>5
<1>4. LoadedCount \in Stops /\ \A y \in Stops : LoadedCount <= y
  BY <1>3 DEF LoadedCount, Min
<1>5. \A i \in Indexes : i < LoadedCount => i \notin Stops
  BY <1>4, MaxEntriesIsNat DEF Indexes
<1> QED
  BY <1>1, <1>2, <1>4, <1>5

LEMMA LoadedIs ==
  ASSUME AuditType
  PROVE  /\ Loaded \in Seq(Entry) /\ Len(Loaded) = LoadedCount /\ LoadedCount <= MaxEntries
         /\ \A i \in 1..LoadedCount : Loaded[i] = entries[i - 1] /\ Readable(entries[i - 1])
<1>1. LoadedCount \in Nat /\ LoadedCount <= MaxEntries
  BY LoadedCountIs, MaxEntriesIsNat DEF Indexes
<1>2. \A i \in 1..LoadedCount : i - 1 \in Indexes /\ Readable(entries[i - 1])
  BY <1>1, LoadedCountIs, MaxEntriesIsNat DEF Indexes
<1>3. \A i \in 1..LoadedCount : entries[i - 1] \in Entry
  BY <1>2 DEF AuditType, Readable
<1> HIDE DEF LoadedCount
<1> QED
  BY <1>1, <1>2, <1>3 DEF Loaded

------------------------------------------------------------------------------
(* Starting and reloading: what is loaded from a store that is not found   *)
(* corrupt.                                                                *)
LEMMA LoadingKeeps ==
  ASSUME Kept, call = Idle, ~LoadRaises, ~LoadedIsCorrupt,
         chain' = Loaded, running' = TRUE, is_corrupt' = FALSE,
         UNCHANGED <<entries, manifest, call, returned, damage>>
  PROVE  Kept'
<1> USE DEF Kept
<1>1. /\ chain' \in Seq(Entry) /\ Len(chain') = LoadedCount /\ LoadedCount \in Nat
      /\ LoadedCount <= MaxEntries
      /\ \A i \in 1..LoadedCount : chain'[i] = entries[i - 1] /\ Readable(entries[i - 1])
  BY LoadedIs, LoadedCountIs, MaxEntriesIsNat DEF Indexes
<1>2. \A i \in 1..LoadedCount : i - 1 \in Indexes
  BY <1>1, MaxEntriesIsNat DEF Indexes
<1>3. AuditType'
  BY <1>1, <1>2 DEF AuditType
<1>4. CallSound'
  BY DEF CallSound
<1>5. Readable(manifest) => LoadedCount = manifest.count
  BY DEF LoadedIsCorrupt
<1>6. ChainSound'
  <2>1. \A h \in returned : Len(h) \in 1..LoadedCount /\ Hash(chain'[Len(h)]) = h
    <3>1. CASE Readable(manifest)
      BY <3>1, <1>1, <1>5 DEF StoreSound
    <3>2. CASE manifest = Absent
      BY <3>2 DEF StoreSound
    <3> QED
      BY <3>1, <3>2 DEF LoadRaises, Undecodable, Readable, Marks
  <2> QED
    BY <2>1, <1>1, <1>5, IdleIsNoCall DEF ChainSound
<1>7. StoreSound'
  BY DEF StoreSound
<1>8. Undamaged => Undamaged'
  <2> SUFFICES ASSUME Undamaged PROVE Undamaged'
    OBVIOUS
  <2>1. \A j \in Indexes : j > LoadedCount => entries[j] = Absent
    <3>1. CASE Readable(manifest)
      BY <3>1, <1>5 DEF Undamaged
    <3>2. CASE ~Readable(manifest)
      <4>1. LoadedCount < Expected => entries[LoadedCount] = Absent
        <5> SUFFICES ASSUME LoadedCount < Expected PROVE entries[LoadedCount] = Absent
          OBVIOUS
        <5>1. LoadedCount # Expected /\ ~Undecodable(entries[LoadedCount])
          BY LoadedCountIs, MaxEntriesIsNat DEF LoadRaises, Indexes
        <5>2. ~Readable(entries[LoadedCount])
          BY <5>1, LoadedCountIs
        <5> QED
          BY <5>1, <5>2 DEF Undecodable, Readable, Marks
      <4>2. LoadedCount = MaxEntries \/ entries[LoadedCount] = Absent
        BY <3>2, <4>1, LoadedCountIs, MaxEntriesIsNat DEF Expected, Indexes
      <4> QED
        BY <4>2, LoadedCountIs, MaxEntriesIsNat, EntriesAreReadable DEF Undamaged, Indexes
    <3> QED
      BY <3>1, <3>2
  <2> QED
    BY <2>1, <1>1 DEF Undamaged
<1> QED
  BY <1>3, <1>4, <1>6, <1>7, <1>8

LEMMA StartKeeps ==
  ASSUME Kept, NEW strict \in BOOLEAN, Start(strict)
  PROVE  damage' # "tolerated" => Kept'
<1>1. call = Idle
  BY DEF Start, Kept, CallSound
<1>2. CASE LoadedIsCorrupt
  BY <1>2 DEF Start
<1>3. CASE ~LoadedIsCorrupt
  <2>1. is_corrupt' = FALSE
    BY <1>3 DEF Start, LoadedIsCorrupt
  <2>2. /\ ~LoadRaises /\ chain' = Loaded /\ running' = TRUE
        /\ UNCHANGED <<entries, manifest, call, returned, damage>>
    BY <1>3 DEF Start
  <2> QED
    BY <1>1, <1>3, <2>1, <2>2, LoadingKeeps
<1> QED
  BY <1>2, <1>3

(* A reload that raises leaves the chain, and the flag is down anyway.     *)
LEMMA ReloadKeeps ==
  ASSUME Kept, Reload
  PROVE  damage' # "tolerated" => Kept'
<1>1. CASE LoadRaises
  BY <1>1 DEF Reload, Kept, AuditType, CallSound, ChainSound, StoreSound, Undamaged
<1>2. CASE ~LoadRaises /\ ~LoadedIsCorrupt
  <2>1. is_corrupt' = FALSE
    BY <1>2 DEF Reload, LoadedIsCorrupt
  <2>2. /\ call = Idle /\ chain' = Loaded /\ running' = TRUE
        /\ UNCHANGED <<entries, manifest, call, returned, damage>>
    BY <1>2 DEF Reload, Kept, AuditType
  <2> QED
    BY <1>2, <2>1, <2>2, LoadingKeeps
<1>3. CASE ~LoadRaises /\ LoadedIsCorrupt
  BY <1>3 DEF Reload
<1> QED
  BY <1>1, <1>2, <1>3

LEMMA CrashKeeps ==
  ASSUME Kept, Crash
  PROVE  Kept'
<1> USE DEF Crash, Kept
<1>1. AuditType'
  <2>1. << >> \in Seq(Entry) /\ Len(<< >>) = 0 /\ 0 <= MaxEntries
    BY MaxEntriesIsNat
  <2>2. \A i \in 1..Len(<< >>) : FALSE
    OBVIOUS
  <2> QED
    BY <2>1, <2>2 DEF AuditType
<1>2. CallSound' /\ ChainSound' /\ StoreSound'
  BY DEF CallSound, ChainSound, StoreSound
<1>3. Undamaged => Undamaged'
  BY DEF Undamaged
<1> QED
  BY <1>1, <1>2, <1>3

LEMMA EmitKeeps ==
  ASSUME Kept, NEW event \in Events, Emit(event)
  PROVE  Kept'
<1> USE DEF Emit, Kept
<1>1. call' \in Calls /\ call' # Idle /\ call'.at = "entry" /\ call.at = "idle"
  <2>1. Len(chain) \in 0..(MaxEntries - 1)
    BY MaxEntriesIsNat DEF AuditType
  <2>2. [event |-> event, previous_hash |-> LastHash(chain)] \in Entry
    BY LastHashIs DEF Entry
  <2> QED
    <3>1. call' \in Calls /\ call'.at = "entry" /\ call = Idle
      BY <2>1, <2>2 DEF Calls, EntryIndex
    <3> QED
      BY <3>1, IdleIsNoCall
<1>2. AuditType'
  BY <1>1 DEF AuditType
<1>3. CallSound'
  BY <1>1 DEF CallSound, EntryIndex
<1>4. ChainSound' /\ StoreSound'
  BY <1>1 DEF ChainSound, StoreSound
<1>5. Undamaged => Undamaged'
  BY DEF Undamaged
<1> QED
  BY <1>2, <1>3, <1>4, <1>5

------------------------------------------------------------------------------
(* The numbers of the files.                                               *)
LEMMA Places ==
  /\ MaxEntries \in Indexes /\ MaxEntries \in Int /\ MaxEntries > 0
  /\ \A i \in Indexes : i \in Int /\ 0 <= i /\ i <= MaxEntries
  BY MaxEntriesIsNat DEF Indexes

LEMMA PlacesBefore ==
  ASSUME NEW k \in Indexes
  PROVE  /\ k > 0 => k \in 1..k /\ k - 1 \in Indexes
         /\ \A i \in 1..k : i - 1 \in Indexes /\ i - 1 # k
  BY MaxEntriesIsNat DEF Indexes

(* Whatever is written after the chain, if it follows the chain.           *)
LEMMA UndamagedEntry ==
  ASSUME AuditType, Undamaged, running,
         NEW k \in Indexes, k = Len(chain), k + 1 \in Indexes,
         k > 0 => entries[k - 1] = chain[k],
         Readable(manifest) => manifest.count = k,
         NEW contents, Readable(contents) => contents.previous_hash = LastHash(chain),
         entries' = [entries EXCEPT ![k] = contents],
         UNCHANGED <<manifest, running, chain>>
  PROVE  Undamaged'
<1>1. \A i \in Indexes : entries'[i] = IF i = k THEN contents ELSE entries[i]
  BY DEF AuditType
<1>2. \A j \in Indexes : j > k => entries[j] = Absent
  BY DEF Undamaged
<1>3. ASSUME k > 0
      PROVE  Readable(entries[k - 1]) /\ k - 1 \in Indexes /\ chain # << >>
  <2>1. k \in 1..k /\ k - 1 \in Indexes
    BY <1>3, PlacesBefore
  <2>2. chain[k] \in Entry /\ chain # << >>
    BY <1>3, <2>1 DEF AuditType
  <2> QED
    BY <2>1, <2>2, <1>3, EntriesAreReadable
<1>4. LastHash(chain) = IF k = 0 THEN Zeros ELSE Hash(entries[k - 1])
  <2>1. k = 0 => chain = << >>
    BY DEF AuditType
  <2> QED
    BY <2>1, <1>3, Places DEF LastHash
<1>5. ASSUME NEW i \in Indexes, i < k
      PROVE  Readable(entries[i])
  <2>1. k > 0 /\ (i = k - 1 \/ i < k - 1)
    BY <1>5, Places
  <2>2. Readable(entries[k - 1]) /\ k - 1 \in Indexes
    BY <2>1, <1>3
  <2> QED
    BY <2>1, <2>2, EntriesAreReadable DEF Undamaged
<1>6. ASSUME NEW i \in Indexes, NEW j \in Indexes, j < i, entries'[i] # Absent
      PROVE  Readable(entries'[j])
  <2>1. i <= k /\ j < k
    BY <1>1, <1>2, <1>6, Places
  <2> QED
    BY <2>1, <1>1, <1>5, Places
<1>7. ASSUME NEW i \in Indexes, Readable(entries'[i])
      PROVE  entries'[i].previous_hash = IF i = 0 THEN Zeros ELSE Hash(entries'[i - 1])
  <2>1. i <= k
    BY <1>1, <1>2, <1>7, EntriesAreReadable, Places
  <2>2. i > 0 => entries'[i - 1] = entries[i - 1]
    <3>1. i > 0 => i - 1 \in Indexes /\ i - 1 # k
      BY <2>1, Places, PlacesBefore
    <3> QED
      BY <3>1, <1>1
  <2>3. CASE i = k
    BY <2>3, <2>2, <1>1, <1>4, <1>7, Places
  <2>4. CASE i # k
    BY <2>4, <2>2, <1>1, <1>7, Places DEF Undamaged
  <2> QED
    BY <2>3, <2>4
<1>8. ASSUME Readable(manifest)
      PROVE  /\ Readable(entries'[manifest.count - 1])
             /\ manifest.last_hash = Hash(entries'[manifest.count - 1])
             /\ \A j \in Indexes : j > manifest.count => entries'[j] = Absent
  <2>1. manifest.count = k /\ k \in 1..MaxEntries
    BY <1>8 DEF AuditType, Manifest, Readable
  <2>2. k - 1 \in Indexes /\ k - 1 # k
    BY <2>1, Places, PlacesBefore
  <2> QED
    BY <2>1, <2>2, <1>1, <1>2, <1>8, Places DEF Undamaged
<1>9. entries'[MaxEntries] = Absent
  BY <1>1, Places DEF Undamaged
<1>10. \A j \in Indexes : j > Len(chain') => entries'[j] = Absent
  BY <1>1, <1>2, Places
<1> QED
  BY <1>6, <1>7, <1>8, <1>9, <1>10 DEF Undamaged

(* The steps of emit.  Opening and writing the entry touch the first file  *)
(* after the chain, which no returned entry and no manifest is about.      *)
LEMMA EntryStepKeeps ==
  ASSUME Kept, call # Idle, call.at \in {"entry", "entry opened"},
         NEW contents \in {Partial, call.entry},
         NEW at \in {"entry opened", "manifest"},
         contents = IF at = "manifest" THEN call.entry ELSE Partial,
         entries' = [entries EXCEPT ![call.index] = contents],
         call' = [call EXCEPT !.at = at],
         UNCHANGED <<manifest, running, chain, is_corrupt, returned, damage>>
  PROVE  Kept'
<1> USE DEF Kept
<1>0. PICK k : k = Len(chain)
  OBVIOUS
<1>1. call \in Calls /\ call.index = k /\ k \in Indexes /\ k + 1 \in Indexes /\ running
  BY <1>0, BusyCall DEF CallSound
<1>2. /\ call' = [at |-> at, index |-> k, entry |-> call.entry] /\ call.entry \in Entry
      /\ call' \in Calls /\ call' # Idle
  BY <1>1, IdleIsNoCall DEF Calls
<1>3. /\ \A i \in Indexes : entries'[i] = IF i = k THEN contents ELSE entries[i]
      /\ entries' \in [Indexes -> Entry \cup Marks]
  BY <1>1, <1>2 DEF AuditType, Marks
<1>4. call.entry.previous_hash = LastHash(chain) /\ Len(LastHash(chain)) = k
      /\ LastHash(chain) \in Seq(Events)
  BY <1>0, LastHashIs DEF CallSound
<1>5. AuditType'
  BY <1>2, <1>3, <1>4, EntriesAreReadable DEF AuditType
<1>6. CallSound'
  BY <1>0, <1>1, <1>2, <1>3, <1>4 DEF CallSound
<1>7. \A i \in 1..k : i - 1 \in Indexes /\ i - 1 # k
  BY <1>1, PlacesBefore
<1>8. ChainSound'
  BY <1>0, <1>1, <1>2, <1>3, <1>7 DEF ChainSound
<1>9. StoreSound'
  <2> SUFFICES ASSUME Readable(manifest), NEW h \in returned
               PROVE  /\ Len(h) \in 1..manifest.count
                      /\ Readable(entries'[Len(h) - 1]) => Hash(entries'[Len(h) - 1]) = h
    BY DEF StoreSound
  <2>1. Len(h) \in 1..k /\ Len(h) \in 1..manifest.count
    BY <1>0, <1>1 DEF ChainSound, StoreSound
  <2> QED
    BY <2>1, <1>3, <1>7 DEF StoreSound
<1>10. damage = "none" => (k > 0 => entries[k - 1] = chain[k])
  BY <1>0, <1>1, PlacesBefore DEF ChainSound
<1>11. Readable(manifest) => manifest.count = k
  BY <1>0, <1>1 DEF ChainSound
<1>12. Readable(contents) => contents.previous_hash = LastHash(chain)
  BY <1>4, EntriesAreReadable
<1>13. damage = "none" => Undamaged'
  BY <1>0, <1>1, <1>10, <1>11, <1>12, UndamagedEntry
<1> QED
  BY <1>5, <1>6, <1>8, <1>9, <1>13

LEMMA OpenEntryKeeps == ASSUME Kept, OpenEntry PROVE Kept'
<1>1. call # Idle /\ call.at = "entry"
  BY IdleIsNoCall DEF OpenEntry
<1> QED
  BY <1>1, EntryStepKeeps DEF OpenEntry

LEMMA WriteEntryKeeps == ASSUME Kept, WriteEntry PROVE Kept'
<1>1. call # Idle /\ call.at = "entry opened"
  BY IdleIsNoCall DEF WriteEntry
<1> QED
  BY <1>1, EntryStepKeeps DEF WriteEntry

LEMMA EntryFailsKeeps == ASSUME Kept, EntryFails PROVE Kept'
<1> USE DEF Kept, EntryFails
<1>1. call'.at = "idle" /\ call.at # "return"
  BY IdleIsNoCall
<1>2. AuditType' /\ CallSound' /\ StoreSound' /\ (Undamaged => Undamaged')
  BY DEF AuditType, CallSound, StoreSound, Undamaged
<1>3. ChainSound'
  BY <1>1 DEF ChainSound
<1> QED
  BY <1>2, <1>3

------------------------------------------------------------------------------
(* The manifest is torn while it is written, and names the entry then.     *)
LEMMA OpenManifestKeeps == ASSUME Kept, OpenManifest PROVE Kept'
<1> USE DEF Kept
<1>1. /\ call # Idle /\ call.at = "manifest" /\ call' = [call EXCEPT !.at = "manifest opened"]
      /\ manifest' = Partial /\ ~Readable(Partial) /\ Partial # Absent
      /\ UNCHANGED <<entries, running, chain, is_corrupt, returned, damage>>
  BY IdleIsNoCall, EntriesAreReadable, MarksDistinct DEF OpenManifest
<1>2. /\ call' = [at |-> "manifest opened", index |-> call.index, entry |-> call.entry]
      /\ call' \in Calls
  BY <1>1, BusyCall DEF Calls
<1>3. AuditType'
  BY <1>1, <1>2 DEF AuditType, Marks
<1>4. CallSound' /\ ChainSound' /\ StoreSound'
  BY <1>1, <1>2 DEF CallSound, ChainSound, StoreSound
<1>5. Undamaged => Undamaged'
  BY <1>1 DEF Undamaged
<1> QED
  BY <1>1, <1>3, <1>4, <1>5

LEMMA WriteManifestKeeps == ASSUME Kept, WriteManifest PROVE Kept'
<1> USE DEF Kept
<1>0. PICK k : k = Len(chain)
  OBVIOUS
<1>1. /\ call # Idle /\ call.at = "manifest opened" /\ call' = [call EXCEPT !.at = "return"]
      /\ manifest' = ManifestFor(call.index, call.entry)
      /\ UNCHANGED <<entries, running, chain, is_corrupt, returned, damage>>
  BY IdleIsNoCall DEF WriteManifest
<1>2. call \in Calls /\ call.index = k /\ k \in Indexes /\ k + 1 \in Indexes /\ running
  BY <1>0, <1>1, BusyCall DEF CallSound
<1>3. /\ call' = [at |-> "return", index |-> k, entry |-> call.entry] /\ call.entry \in Entry
      /\ call' \in Calls
  BY <1>1, <1>2 DEF Calls
<1>4. /\ manifest'.count = k + 1 /\ manifest'.last_hash = Hash(call.entry)
      /\ manifest' \in Manifest /\ Readable(manifest') /\ manifest' # Absent
  <2>1. k + 1 \in 1..MaxEntries
    BY <1>2, Places
  <2> QED
    BY <2>1, <1>1, <1>2, <1>3, HashIs, EntriesAreReadable DEF ManifestFor, Manifest
<1>5. AuditType'
  BY <1>1, <1>3, <1>4 DEF AuditType
<1>6. CallSound'
  BY <1>1, <1>2, <1>3 DEF CallSound
<1>7. ChainSound'
  BY <1>0, <1>1, <1>3, <1>4 DEF ChainSound
<1>8. StoreSound'
  <2> SUFFICES ASSUME NEW h \in returned
               PROVE  /\ Len(h) \in 1..(k + 1)
                      /\ Readable(entries[Len(h) - 1]) => Hash(entries[Len(h) - 1]) = h
    BY <1>1, <1>4 DEF StoreSound
  <2>1. Len(h) \in 1..k /\ Hash(chain[Len(h)]) = h
    BY <1>0, <1>2 DEF ChainSound
  <2>2. entries[Len(h) - 1] = chain[Len(h)] \/ entries[Len(h) - 1] = Absent
    BY <2>1, <1>0, <1>2 DEF ChainSound
  <2>3. Len(h) \in 1..(k + 1)
    BY <2>1, <1>2, Places
  <2> QED
    BY <2>1, <2>2, <2>3, EntriesAreReadable
<1>9. damage = "none" => entries[k] = call.entry
  BY <1>1, <1>2 DEF CallSound
<1>10. entries[k] = call.entry /\ Undamaged => Undamaged'
  <2> SUFFICES ASSUME entries[k] = call.entry, Undamaged PROVE Undamaged'
    OBVIOUS
  <2>1. /\ Readable(entries[(k + 1) - 1])
        /\ manifest'.last_hash = Hash(entries[(k + 1) - 1])
    <3>1. (k + 1) - 1 = k
      <4>1. k \in Int
        BY <1>2, Places
      <4> QED
        BY <4>1
    <3> QED
      BY <3>1, <1>3, <1>4, EntriesAreReadable
  <2>2. \A j \in Indexes : j > k + 1 => entries[j] = Absent
    BY <1>0, <1>2, Places DEF Undamaged
  <2> QED
    BY <2>1, <2>2, <1>1, <1>4 DEF Undamaged
<1> QED
  BY <1>1, <1>5, <1>6, <1>7, <1>8, <1>9, <1>10

(* A failed manifest may take the entry away again.                        *)
LEMMA ManifestFailsKeeps == ASSUME Kept, ManifestFails PROVE Kept'
<1> USE DEF Kept
<1>0. PICK k : k = Len(chain)
  OBVIOUS
<1>1. /\ call # Idle /\ call.at \in {"manifest", "manifest opened"} /\ call' = Idle
      /\ entries' \in {entries, [entries EXCEPT ![call.index] = Absent]}
      /\ UNCHANGED <<manifest, running, chain, is_corrupt, returned, damage>>
  BY IdleIsNoCall DEF ManifestFails
<1>2. call.index = k /\ k \in Indexes /\ k + 1 \in Indexes /\ running
  BY <1>0, <1>1, BusyCall DEF CallSound
<1>3. Readable(manifest) => manifest.count = k
  BY <1>0, <1>1, <1>2 DEF ChainSound
<1>4. call'.at # "return"
  BY <1>1, IdleIsNoCall
<1>5. CallSound'
  BY <1>1 DEF CallSound
<1>6. CASE entries' = entries
  <2>1. AuditType'
    BY <1>1, <1>6 DEF AuditType
  <2>2. ChainSound' /\ StoreSound'
    BY <1>0, <1>1, <1>3, <1>4, <1>6 DEF ChainSound, StoreSound
  <2>3. Undamaged => Undamaged'
    BY <1>1, <1>6 DEF Undamaged
  <2> QED
    BY <1>1, <1>5, <2>1, <2>2, <2>3
<1>7. CASE entries' = [entries EXCEPT ![k] = Absent]
  <2>1. \A i \in Indexes : entries'[i] = IF i = k THEN Absent ELSE entries[i]
    BY <1>7 DEF AuditType
  <2>2. entries' \in [Indexes -> Entry \cup Marks]
    BY <1>7 DEF AuditType, Marks
  <2>3. AuditType'
    BY <2>1, <2>2, <1>1, EntriesAreReadable DEF AuditType
  <2>4. \A i \in 1..k : i - 1 \in Indexes /\ i - 1 # k
    BY <1>2, PlacesBefore
  <2>5. ChainSound'
    BY <2>1, <2>4, <1>0, <1>1, <1>2, <1>3, <1>4 DEF ChainSound
  <2>6. \A h \in returned : Len(h) \in 1..k
    BY <1>0, <1>2 DEF ChainSound
  <2>7. StoreSound'
    BY <2>1, <2>4, <2>6, <1>1 DEF StoreSound
  <2>8. damage = "none" => (k > 0 => entries[k - 1] = chain[k])
    BY <1>0, <1>2, PlacesBefore DEF ChainSound
  <2>9. damage = "none" => Undamaged'
    BY <2>8, <1>0, <1>1, <1>2, <1>3, <1>7, EntriesAreReadable, UndamagedEntry
  <2> QED
    BY <1>1, <1>5, <2>3, <2>5, <2>7, <2>9
<1> QED
  BY <1>1, <1>2, <1>6, <1>7

LEMMA ReturnKeeps == ASSUME Kept, Return PROVE Kept'
<1> USE DEF Kept
<1>0. PICK k : k = Len(chain)
  OBVIOUS
<1>1. /\ call # Idle /\ call.at = "return" /\ call' = Idle /\ call'.at # "return"
      /\ chain' = Append(chain, call.entry) /\ returned' = returned \cup {Hash(call.entry)}
      /\ UNCHANGED <<entries, manifest, running, is_corrupt, damage>>
  BY IdleIsNoCall DEF Return
<1>2. call \in Calls /\ call.index = k /\ k \in Indexes /\ k + 1 \in Indexes /\ running
  BY <1>0, <1>1, BusyCall DEF CallSound
<1>3. call.entry \in Entry
  BY <1>2 DEF Calls
<1>4. /\ Len(call.entry.previous_hash) = k
      /\ Hash(call.entry) \in Seq(Events) /\ Len(Hash(call.entry)) = k + 1
  BY <1>0, <1>1, <1>3, LastHashIs, HashIs DEF CallSound
<1>5. /\ chain' \in Seq(Entry) /\ Len(chain') = k + 1 /\ chain'[k + 1] = call.entry
      /\ \A i \in 1..k : chain'[i] = chain[i]
  BY <1>0, <1>1, <1>3 DEF AuditType
<1>6. /\ k \in Int /\ 0 <= k /\ k + 1 <= MaxEntries /\ (k + 1) - 1 = k
      /\ \A i \in 1..(k + 1) : i \in 1..k \/ i = k + 1
  BY <1>2, Places
<1>7. AuditType'
  <2>1. \A i \in 1..(k + 1) : Len(chain'[i].previous_hash) = i - 1
    BY <1>0, <1>4, <1>5, <1>6 DEF AuditType
  <2> QED
    BY <2>1, <1>1, <1>4, <1>5, <1>6 DEF AuditType
<1>8. CallSound'
  BY <1>1 DEF CallSound
<1>9. Readable(manifest) /\ manifest.count = k + 1 /\ manifest # Absent
  <2>1. manifest = [count |-> k + 1, last_hash |-> Hash(call.entry)] /\ k + 1 \in 1..MaxEntries
    BY <1>1, <1>2, <1>6 DEF CallSound, ManifestFor
  <2>2. manifest \in Manifest
    BY <2>1, <1>4 DEF Manifest
  <2> QED
    BY <2>1, <2>2, EntriesAreReadable
<1>10. \/ entries[k] = call.entry
       \/ entries[k] = Absent /\ damage # "none"
  BY <1>1, <1>2 DEF CallSound
<1>11. ChainSound'
  <2>1. \A i \in 1..(k + 1) :
          \/ entries[i - 1] = chain'[i]
          \/ entries[i - 1] = Absent /\ damage # "none"
    BY <1>0, <1>2, <1>5, <1>6, <1>10 DEF ChainSound
  <2>2. \A h \in returned' : Len(h) \in 1..(k + 1) /\ Hash(chain'[Len(h)]) = h
    BY <1>0, <1>1, <1>2, <1>4, <1>5, <1>6 DEF ChainSound
  <2> QED
    BY <2>1, <2>2, <1>1, <1>5, <1>9 DEF ChainSound
<1>12. StoreSound'
  <2> SUFFICES ASSUME NEW h \in returned'
               PROVE  /\ Len(h) \in 1..manifest.count
                      /\ Readable(entries[Len(h) - 1]) => Hash(entries[Len(h) - 1]) = h
    BY <1>1, <1>9 DEF StoreSound
  <2>1. CASE h \in returned
    BY <2>1, <1>9 DEF StoreSound
  <2>2. CASE h = Hash(call.entry)
    BY <2>2, <1>4, <1>6, <1>9, <1>10, EntriesAreReadable
  <2> QED
    BY <2>1, <2>2, <1>1
<1>13. Undamaged => Undamaged'
  BY <1>1, <1>5, <1>9 DEF Undamaged
<1> QED
  BY <1>1, <1>7, <1>8, <1>11, <1>12, <1>13

(* Losing a file takes nothing from memory, and leaves a hole in the store *)
(* that the next load sees.                                                *)
LEMMA LoseEntryKeeps == ASSUME Kept, NEW i \in Indexes, LoseEntry(i) PROVE Kept'
<1> USE DEF Kept
<1>1. /\ Readable(entries[i]) /\ entries' = [entries EXCEPT ![i] = Absent]
      /\ damage = "none" /\ damage' = "entry lost"
      /\ UNCHANGED <<manifest, running, chain, is_corrupt, call, returned>>
  BY DEF LoseEntry
<1>2. /\ \A j \in Indexes : entries'[j] = IF j = i THEN Absent ELSE entries[j]
      /\ entries' \in [Indexes -> Entry \cup Marks]
  BY <1>1 DEF AuditType, Marks
<1>3. AuditType'
  BY <1>1, <1>2, EntriesAreReadable DEF AuditType
<1>4. CallSound'
  <2>1. call # Idle => call.index \in Indexes
    BY BusyCall
  <2> QED
    BY <2>1, <1>1, <1>2, EntriesAreReadable DEF CallSound
<1>5. \A j \in 1..Len(chain) : j - 1 \in Indexes
  <2>1. Len(chain) \in Indexes
    BY MaxEntriesIsNat DEF AuditType, Indexes
  <2> QED
    BY <2>1, PlacesBefore
<1>6. ChainSound'
  BY <1>1, <1>2, <1>5 DEF ChainSound
<1>7. StoreSound'
  <2> SUFFICES ASSUME Readable(manifest), NEW h \in returned, Readable(entries'[Len(h) - 1])
               PROVE  Hash(entries'[Len(h) - 1]) = h
    BY <1>1 DEF StoreSound
  <2>1. Len(h) - 1 \in Indexes
    <3>1. Len(h) \in 1..manifest.count /\ manifest.count \in 1..MaxEntries
      BY DEF StoreSound, AuditType, Manifest, Readable
    <3> QED
      BY <3>1, MaxEntriesIsNat DEF Indexes
  <2> QED
    BY <2>1, <1>2, EntriesAreReadable DEF StoreSound
<1> QED
  BY <1>1, <1>3, <1>4, <1>6, <1>7

------------------------------------------------------------------------------
(* An empty store.                                                         *)
LEMMA InitKeeps == Init => Kept
<1> SUFFICES ASSUME Init PROVE Kept
  OBVIOUS
<1>1. \A i \in Indexes : entries[i] = Absent
  BY DEF Init
<1>2. AuditType
  <2>1. << >> \in Seq(Entry) /\ Len(<< >>) = 0 /\ 0 <= MaxEntries
    BY MaxEntriesIsNat
  <2>2. \A i \in 1..Len(<< >>) : FALSE
    OBVIOUS
  <2>3. entries \in [Indexes -> Entry \cup Marks]
    BY DEF Init, Marks
  <2> QED
    BY <1>1, <2>1, <2>2, <2>3, EntriesAreReadable DEF Init, AuditType, Marks
<1>3. CallSound /\ ChainSound
  BY DEF Init, CallSound, ChainSound
<1>4. StoreSound
  BY EntriesAreReadable DEF Init, StoreSound
<1>5. Undamaged
  BY <1>1, EntriesAreReadable, Places DEF Init, Undamaged
<1> QED
  BY <1>2, <1>3, <1>4, <1>5 DEF Kept

(* Nothing mends a store that was found corrupt.                           *)
LEMMA ToleratedStays ==
  ASSUME damage = "tolerated", [Next]_vars
  PROVE  damage' = "tolerated"
  BY DEF Next, vars, Start, Reload, Crash, Emit, OpenEntry, WriteEntry, EntryFails,
         OpenManifest, WriteManifest, ManifestFails, Return, LoseEntry

(* The inductive invariant, for all behaviours.                            *)
THEOREM AuditIInv == Spec => []IInv
<1>1. Init => IInv
  BY InitKeeps DEF IInv
<1>2. IInv /\ [Next]_vars => IInv'
  <2> SUFFICES ASSUME IInv, [Next]_vars, damage' # "tolerated"
               PROVE  Kept'
    BY DEF IInv
  <2>1. Kept
    BY ToleratedStays DEF IInv
  <2>2. CASE Next
    <3>2. ASSUME NEW strict \in BOOLEAN, Start(strict) PROVE Kept'
      BY <2>1, <3>2, StartKeeps
    <3>3. ASSUME NEW event \in Events, Emit(event) PROVE Kept'
      BY <2>1, <3>3, EmitKeeps
    <3>4. ASSUME NEW i \in Indexes, LoseEntry(i) PROVE Kept'
      BY <2>1, <3>4, LoseEntryKeeps
    <3>5. Reload \/ Crash \/ EntryFails => Kept'
      BY <2>1, ReloadKeeps, CrashKeeps, EntryFailsKeeps
    <3>6. OpenEntry \/ WriteEntry \/ OpenManifest \/ WriteManifest => Kept'
      BY <2>1, OpenEntryKeeps, WriteEntryKeeps, OpenManifestKeeps, WriteManifestKeeps
    <3>7. ManifestFails \/ Return => Kept'
      BY <2>1, ManifestFailsKeeps, ReturnKeeps
    <3> QED
      BY <2>2, <3>2, <3>3, <3>4, <3>5, <3>6, <3>7 DEF Next
  <2>3. CASE UNCHANGED vars
    BY <2>1, <2>3 DEF vars, Kept, AuditType, CallSound, ChainSound, StoreSound, Undamaged
  <2> QED
    BY <2>2, <2>3
<1> QED
  BY <1>1, <1>2, PTL DEF Spec

(* A returned entry stays in the chain of the running service through      *)
(* deaths at any step of emit, failed writes and the loss of an entry file *)
(* (crypto_audit_emitter.py, emit and _load_from_store).                   *)
THEOREM ReturnedStay == Spec => []ReturnedEntriesStay
<1>1. IInv => ReturnedEntriesStay
  <2> SUFFICES ASSUME IInv, running, damage # "tolerated", NEW h \in returned
               PROVE  Len(h) <= Len(chain) /\ Hash(chain[Len(h)]) = h
    BY DEF ReturnedEntriesStay
  <2>1. Len(h) \in 1..Len(chain) /\ Hash(chain[Len(h)]) = h /\ Len(chain) \in Nat
    BY DEF IInv, Kept, AuditType, ChainSound
  <2> QED
    BY <2>1
<1> QED
  BY <1>1, AuditIInv, PTL

(* Only a loss from outside is ever reported as corruption                 *)
(* (crypto_audit_emitter.py, _load_from_store).                            *)
THEOREM CorruptionIsDamage == Spec => []CorruptOnlyIfDamaged
<1>1. IInv => CorruptOnlyIfDamaged
  <2> SUFFICES ASSUME Kept, Undamaged, ~LoadRaises
               PROVE  ~is_corrupt /\ ~LoadedIsCorrupt
    BY DEF IInv, CorruptOnlyIfDamaged, Kept, AuditType
  <2>1. ~is_corrupt
    BY DEF Kept, AuditType
  <2>2. ASSUME Readable(manifest)
        PROVE  LoadedCount = manifest.count /\ LastHash(Loaded) = manifest.last_hash
    <3>1. AuditType
      BY DEF Kept
    <3>2. Expected = manifest.count /\ manifest.count \in 1..MaxEntries
      BY <2>2, <3>1 DEF Expected, AuditType, Manifest, Readable
    <3>3. manifest.count - 1 \in Indexes /\ Readable(entries[manifest.count - 1])
      BY <2>2, <3>2, MaxEntriesIsNat DEF Undamaged, Indexes
    <3>4. LoadedCount = manifest.count
      <4>1. CASE LoadedCount < manifest.count
        <5>1. /\ LoadedCount \in Indexes /\ ~Readable(entries[LoadedCount])
          BY <4>1, <3>1, <3>2, LoadedCountIs, MaxEntriesIsNat DEF Indexes
        <5>2. LoadedCount = manifest.count - 1 \/ LoadedCount < manifest.count - 1
          BY <4>1, <5>1, <3>2, MaxEntriesIsNat DEF Indexes
        <5> QED
          BY <5>1, <5>2, <3>3, EntriesAreReadable DEF Undamaged
      <4> QED
        BY <4>1, <3>1, <3>2, LoadedCountIs, MaxEntriesIsNat DEF Indexes
    <3>5. /\ Loaded # << >> /\ Len(Loaded) = manifest.count
          /\ Loaded[manifest.count] = entries[manifest.count - 1]
      BY <3>1, <3>2, <3>4, LoadedIs
    <3> QED
      BY <2>2, <3>4, <3>5 DEF LastHash, Undamaged
  <2> QED
    BY <2>1, <2>2 DEF LoadedIsCorrupt
<1> QED
  BY <1>1, AuditIInv, PTL

(* Between calls the chain of an undamaged store verifies                  *)
(* (crypto_audit_emitter.py, verify_chain).                                *)
THEOREM QuietChainsVerify == Spec => []QuietChainVerifies
<1>1. IInv => QuietChainVerifies
  <2> SUFFICES ASSUME Kept, Undamaged, running, call = Idle, damage = "none"
               PROVE  VerifyChain
    BY DEF IInv, QuietChainVerifies, Kept
  <2>1. AuditType /\ ChainSound
    BY DEF Kept
  <2>2. \A i \in 1..Len(chain) :
          i - 1 \in Indexes /\ entries[i - 1] = chain[i] /\ Readable(entries[i - 1])
    <3>1. Len(chain) \in Indexes
      BY <2>1, MaxEntriesIsNat DEF AuditType, Indexes
    <3>2. \A i \in 1..Len(chain) : i - 1 \in Indexes
      BY <3>1, PlacesBefore
    <3>3. \A i \in 1..Len(chain) : chain[i] \in Entry
      BY <2>1 DEF AuditType
    <3> QED
      BY <2>1, <3>2, <3>3, EntriesAreReadable DEF ChainSound
  <2>3. ASSUME NEW i \in 1..Len(chain)
        PROVE  chain[i].previous_hash = IF i = 1 THEN Zeros ELSE Hash(chain[i - 1])
    <3>1. chain[i].previous_hash = IF i - 1 = 0 THEN Zeros ELSE Hash(entries[(i - 1) - 1])
      BY <2>2 DEF Undamaged
    <3>2. i # 1 => i - 1 \in 1..Len(chain) /\ i - 1 # 0
      BY <2>1 DEF AuditType
    <3>3. i # 1 => entries[(i - 1) - 1] = chain[i - 1]
      BY <2>2, <3>2
    <3> QED
      BY <3>1, <3>2, <3>3
  <2>4. ASSUME Readable(manifest)
        PROVE  /\ manifest.count = Len(chain)
               /\ chain # << >> => manifest.last_hash = LastHash(chain)
    <3>1. manifest.count = Len(chain)
      BY <2>1, <2>4, IdleIsNoCall DEF ChainSound
    <3>2. chain # << >> => Len(chain) \in 1..Len(chain)
      BY <2>1 DEF AuditType
    <3> QED
      BY <3>1, <3>2, <2>2, <2>4 DEF LastHash, Undamaged
  <2> QED
    BY <2>1, <2>3, <2>4 DEF VerifyChain, AuditType
<1> QED
  BY <1>1, AuditIInv, PTL
------------------------------------------------------------------------------
(***************************************************************************)
(* The objects of BcaesRegistry, under BackupRestore.                      *)
(***************************************************************************)
Writings == [at : {"insert", "persist"}, obj : Objects, object : RegistryObject]
Removings == [at : {"remove", "unpersist"}, obj : Objects, object : {None}]
Merges == [at : {"merge"}, obj : Objects, object : {None}, fields : SUBSET Dimensions,
           merged : SUBSET Dimensions]
ObjRequests == {ObjIdle} \cup Writings \cup Removings \cup Merges
ObjTables == [Objects -> {None} \cup RegistryObject]
FieldTables == [Objects -> {None} \cup SUBSET Dimensions]

RestoreWellFormed ==
  /\ restore.at = "idle" <=> restore = NoRestore
  /\ restore.at \in {"objects", "documents"} => restore = [at |-> restore.at, todo |-> restore.todo]

ObjType ==
  /\ objects \in ObjTables /\ objFile \in ObjTables
  /\ convergence \in FieldTables
  /\ objReq \in [ObjThreads -> ObjRequests]
  /\ deleted \subseteq Objects
  /\ snapshot # None => snapshot.objects \in ObjTables
  /\ export # None => export \in ObjTables
  /\ restore.at = "objects" =>
       snapshot # None /\ \A o \in restore.todo : o \in Objects /\ snapshot.objects[o] # None
  /\ RestoreWellFormed

WorksOn(t, o) == objReq[t] # ObjIdle /\ objReq[t].obj = o

(* What objOverlaps leaves out: one request at a time, and no restore.      *)
ObjAlone ==
  \A o \in Objects \ objOverlaps :
    /\ \A t, u \in ObjThreads : WorksOn(t, o) /\ WorksOn(u, o) => t = u
    /\ Restoring => \A t \in ObjThreads : ~WorksOn(t, o)

(* Nothing has the id of an object before it is registered.                 *)
UnmadeObj(o) ==
  /\ objects[o] = None /\ objFile[o] = None /\ o \notin deleted
  /\ \A t \in ObjThreads : ~WorksOn(t, o)
  /\ snapshot # None => snapshot.objects[o] = None
  /\ export # None => export[o] = None

FreshObj == \A o \in Objects \ madeObjs : UnmadeObj(o)

(* What a request takes out is there, and what it writes is not deleted.    *)
Working ==
  \A o \in Objects \ objOverlaps : \A t \in ObjThreads : WorksOn(t, o) =>
    /\ objReq[t].at = "remove" => objects[o] # None
    /\ objReq[t].at \in {"insert", "persist"} => o \notin deleted \ objTroubled

Deleting == \A t \in ObjThreads : objReq[t].at = "unpersist" => objReq[t].obj \in deleted \cup objOverlaps

(* An object that is in the store, or about to be.                          *)
HasObj(o) == objFile[o] # None \/ \E t \in ObjThreads : WorksOn(t, o) /\ objReq[t].at = "persist"

NamedBy(object, o) == object # None /\ o \in object.deps

(* Somebody depends on it, in memory, in the store, in the snapshot, in an  *)
(* export or in a request; or it is in memory or exported itself.           *)
Named(o) ==
  \/ \E p \in Objects : NamedBy(objects[p], o) \/ NamedBy(objFile[p], o)
  \/ snapshot # None /\ \E p \in Objects : NamedBy(snapshot.objects[p], o)
  \/ export # None /\ \E p \in Objects : NamedBy(export[p], o)
  \/ \E t \in ObjThreads : objReq[t] # ObjIdle /\ NamedBy(objReq[t].object, o)
  \/ objects[o] # None
  \/ snapshot # None /\ snapshot.objects[o] # None
  \/ export # None /\ export[o] # None

(* A restore has written records that memory has not been reloaded from.    *)
Unloaded ==
  \/ restore.at \in {"objects", "documents"}
  \/ ~Restoring /\ failedRestore

NamesResolve ==
  \A o \in Objects \ (deleted \cup objOverlaps \cup objTroubled) :
    /\ Named(o) => HasObj(o)
    /\ HasObj(o) /\ restore.at # "fill_objects" => objects[o] # None \/ (Unloaded /\ objFile[o] # None)

Changing(o) == \E t \in ObjThreads : WorksOn(t, o) /\ objReq[t].at \in {"persist", "unpersist"}

ObjSynced ==
  \A o \in Objects \ (objOverlaps \cup objTroubled) :
    /\ \A t \in ObjThreads : WorksOn(t, o) =>
         /\ objReq[t].at = "persist" => objects[o] = objReq[t].object
         /\ objReq[t].at = "unpersist" => objects[o] = None
    /\ ~Restoring /\ ~failedRestore /\ ~Changing(o) => objects[o] = objFile[o]
    /\ restore.at = "fill_objects" => objects[o] = None
    /\ restore.at \in {"clear_documents", "fill_documents"} => objects[o] = objFile[o]

ObjInv == ObjType /\ ObjAlone /\ FreshObj /\ Working /\ Deleting /\ DeletionsLast /\ NamesResolve /\ ObjSynced

(* What a request is at tells what it holds.                                *)
LEMMA ObjRequestIs ==
  ASSUME ObjType, NEW t \in ObjThreads
  PROVE  /\ objReq[t].at \in {"insert", "persist"} <=> objReq[t] \in Writings
         /\ objReq[t].at \in {"remove", "unpersist"} <=> objReq[t] \in Removings
         /\ objReq[t].at = "merge" <=> objReq[t] \in Merges
         /\ objReq[t].at = "idle" <=> objReq[t] = ObjIdle
         /\ objReq[t] # ObjIdle => objReq[t].obj \in Objects
<1>1. objReq[t] \in {ObjIdle} \cup Writings \cup Removings \cup Merges
  BY DEF ObjType, ObjRequests
<1>2. ObjIdle.at = "idle"
  BY DEF ObjIdle
<1>3. \A r \in Writings : r.at \in {"insert", "persist"} /\ r.obj \in Objects
  BY DEF Writings
<1>4. \A r \in Removings : r.at \in {"remove", "unpersist"} /\ r.obj \in Objects
  BY DEF Removings
<1>5. \A r \in Merges : r.at = "merge" /\ r.obj \in Objects
  BY DEF Merges
<1> QED
  BY <1>1, <1>2, <1>3, <1>4, <1>5

(* A request that begins has changed nothing.                               *)
LEMMA BeginKeeps ==
  ASSUME ObjInv, NEW t \in ObjThreads, NEW o \in Objects,
         NEW next \in Writings \cup Removings \cup Merges,
         next.obj = o, next.at \in {"insert", "remove", "merge"},
         o \in madeObjs', madeObjs \subseteq madeObjs',
         next.at = "remove" => objects[o] # None,
         next.at = "insert" => o \notin deleted \ (objOverlaps \cup objTroubled),
         \A x \in Objects : NamedBy(next.object, x) => Named(x),
         objReq[t] = ObjIdle, objReq' = [objReq EXCEPT ![t] = next],
         objOverlaps' = objOverlaps \cup ObjOverlap(t, o),
         UNCHANGED <<objects, objFile, convergence, objTroubled, deleted, snapshot, restore, export, failedRestore>>
  PROVE  ObjInv'
<1>1. /\ \A u \in ObjThreads : objReq'[u] = IF u = t THEN next ELSE objReq[u]
      /\ next # ObjIdle /\ objReq' \in [ObjThreads -> ObjRequests] /\ ObjType
  BY DEF ObjInv, ObjType, ObjRequests, ObjIdle
<1>2. ObjType'
  BY <1>1 DEF ObjType, RestoreWellFormed
<1>3. \A x \in Objects : \A u \in ObjThreads :
        WorksOn(u, x)' <=> IF u = t THEN x = o ELSE WorksOn(u, x)
  BY <1>1 DEF WorksOn
<1>4. o \notin objOverlaps' => ~Restoring /\ \A u \in ObjThreads \ {t} : ~WorksOn(u, o)
  BY DEF ObjOverlap, ObjActive, WorksOn
<1>5. ObjAlone'
  BY <1>3, <1>4 DEF ObjInv, ObjAlone, Restoring
<1>6. Deleting'
  BY <1>1 DEF ObjInv, Deleting
<1>13. Working'
  BY <1>1, <1>3 DEF ObjInv, Working
<1>15. FreshObj'
  BY <1>3 DEF ObjInv, FreshObj, UnmadeObj
<1>14. DeletionsLast'
  <2>1. \A x \in Objects : ErasedByRequest(x) => ErasedByRequest(x)'
    BY <1>1 DEF ErasedByRequest, ObjIdle
  <2> QED
    BY <2>1 DEF ObjInv, ObjType, DeletionsLast
<1>7. ~WorksOn(t, o)
  BY DEF WorksOn
<1>8. \A x \in Objects : HasObj(x)' <=> HasObj(x)
  BY <1>1, <1>3, <1>7 DEF HasObj, WorksOn
<1>9. \A x \in Objects : Named(x)' => Named(x)
  BY <1>1 DEF Named
<1>10. NamesResolve'
  BY <1>8, <1>9 DEF ObjInv, NamesResolve, Unloaded, Restoring
<1>11. \A x \in Objects : Changing(x)' <=> Changing(x)
  BY <1>1, <1>3 DEF Changing, WorksOn
<1>12. ObjSynced'
  <2> SUFFICES ASSUME NEW x \in Objects \ (objOverlaps' \cup objTroubled')
               PROVE  /\ \A u \in ObjThreads : WorksOn(u, x)' =>
                           /\ objReq'[u].at = "persist" => objects[x] = objReq'[u].object
                           /\ objReq'[u].at = "unpersist" => objects[x] = None
                      /\ ~Restoring /\ ~failedRestore /\ ~Changing(x)' => objects[x] = objFile[x]
                      /\ restore.at = "fill_objects" => objects[x] = None
                      /\ restore.at \in {"clear_documents", "fill_documents"} => objects[x] = objFile[x]
    BY DEF ObjSynced, Restoring
  <2>1. x \in Objects \ (objOverlaps \cup objTroubled)
    OBVIOUS
  <2> QED
    BY <1>1, <1>3, <1>11, <2>1 DEF ObjInv, ObjSynced
<1> QED
  BY <1>2, <1>5, <1>6, <1>10, <1>12, <1>13, <1>14, <1>15 DEF ObjInv

LEMMA WriteRequestKeeps ==
  ASSUME ObjInv, NEW t \in ObjThreads, NEW o \in Objects, NEW deps \in SUBSET Objects,
         RegisterObject(t, o, deps) \/ UpdateObject(t, o, deps), UNCHANGED <<snapshot, restore, export, failedRestore>>
  PROVE  ObjInv'
<1>1. PICK next : next = [at |-> "insert", obj |-> o, object |-> [deps |-> deps]]
  OBVIOUS
<1>2. next \in Writings /\ next.obj = o /\ next.at = "insert" /\ next.object.deps = deps
  BY <1>1 DEF Writings, RegistryObject
<1>3. /\ objReq[t] = ObjIdle /\ objReq' = [objReq EXCEPT ![t] = next]
      /\ objOverlaps' = objOverlaps \cup ObjOverlap(t, o)
      /\ UNCHANGED <<objects, objFile, convergence, objTroubled, deleted>>
  BY <1>1 DEF RegisterObject, UpdateObject, Begin
<1>4. \A x \in Objects : NamedBy(next.object, x) => Named(x)
  BY <1>2 DEF RegisterObject, UpdateObject, AllExist, Exists, NamedBy, Named
<1>5. o \in madeObjs' /\ madeObjs \subseteq madeObjs'
  BY DEF RegisterObject, UpdateObject, Exists, ObjInv, FreshObj, UnmadeObj
<1>6. o \notin deleted \ (objOverlaps \cup objTroubled)
  BY DEF RegisterObject, UpdateObject, Exists, ObjInv, FreshObj, UnmadeObj, DeletionsLast
<1> QED
  BY <1>2, <1>3, <1>4, <1>5, <1>6, BeginKeeps

LEMMA DeleteRequestKeeps ==
  ASSUME ObjInv, NEW t \in ObjThreads, NEW o \in Objects, DeleteObject(t, o),
         UNCHANGED <<snapshot, restore, export, failedRestore>>
  PROVE  ObjInv'
<1>1. PICK next : next = [at |-> "remove", obj |-> o, object |-> None]
  OBVIOUS
<1>2. next \in Removings /\ next.obj = o /\ next.at = "remove" /\ next.object = None
  BY <1>1 DEF Removings
<1>3. /\ objReq[t] = ObjIdle /\ objReq' = [objReq EXCEPT ![t] = next]
      /\ objOverlaps' = objOverlaps \cup ObjOverlap(t, o)
      /\ UNCHANGED <<objects, objFile, convergence, objTroubled, deleted>>
  BY <1>1 DEF DeleteObject, Begin
<1>4. \A x \in Objects : ~NamedBy(next.object, x)
  BY <1>2 DEF NamedBy
<1>5. objects[o] # None /\ o \in madeObjs' /\ madeObjs' = madeObjs
  BY DEF DeleteObject, Exists, ObjInv, FreshObj, UnmadeObj
<1> QED
  BY <1>2, <1>3, <1>4, <1>5, BeginKeeps

LEMMA UpsertRequestKeeps ==
  ASSUME ObjInv, NEW t \in ObjThreads, NEW o \in Objects, NEW f \in Dimensions, BeginUpsert(t, o, {f}),
         UNCHANGED <<snapshot, restore, export, failedRestore>>
  PROVE  ObjInv'
<1>1. PICK next : next = [at |-> "merge", obj |-> o, object |-> None, fields |-> {f}, merged |-> Merged(o, {f})]
  OBVIOUS
<1>2. Merged(o, {f}) \in SUBSET Dimensions
  BY DEF Merged, FieldsOf, ObjInv, ObjType, FieldTables
<1>3. next \in Merges /\ next.obj = o /\ next.at = "merge" /\ next.object = None
  BY <1>1, <1>2 DEF Merges
<1>4. /\ objReq[t] = ObjIdle /\ objReq' = [objReq EXCEPT ![t] = next]
      /\ objOverlaps' = objOverlaps \cup ObjOverlap(t, o)
      /\ UNCHANGED <<objects, objFile, convergence, objTroubled, deleted>>
  BY <1>1 DEF BeginUpsert
<1>5. \A x \in Objects : ~NamedBy(next.object, x)
  BY <1>3 DEF NamedBy
<1>6. o \in madeObjs' /\ madeObjs' = madeObjs
  BY DEF BeginUpsert, Exists, ObjInv, FreshObj, UnmadeObj
<1> QED
  BY <1>3, <1>4, <1>5, <1>6, BeginKeeps

(* How the request of one thread moves on.                                  *)
LEMMA ObjMove ==
  ASSUME ObjInv, NEW t \in ObjThreads, NEW next \in ObjRequests, objReq' = [objReq EXCEPT ![t] = next]
  PROVE  /\ \A u \in ObjThreads : objReq'[u] = IF u = t THEN next ELSE objReq[u]
         /\ objReq' \in [ObjThreads -> ObjRequests]
BY DEF ObjInv, ObjType

LEMMA InsertObjectKeeps ==
  ASSUME ObjInv, NEW t \in ObjThreads, InsertObject(t), UNCHANGED <<snapshot, restore, export, failedRestore>>
  PROVE  ObjInv'
<1>1. PICK old : old = objReq[t]
  OBVIOUS
<1>2. old \in Writings /\ old.at = "insert" /\ old # ObjIdle /\ objReq[t] = old
  BY <1>1, ObjRequestIs DEF InsertObject, ObjInv, ObjIdle
<1>3. PICK next : next = [old EXCEPT !.at = "persist"]
  OBVIOUS
<1>4. /\ next \in ObjRequests /\ next.at = "persist" /\ next.obj = old.obj /\ next.object = old.object
      /\ next # ObjIdle /\ old.obj \in Objects /\ old.object \in RegistryObject
  BY <1>2, <1>3 DEF Writings, ObjRequests, ObjIdle
<1>5. /\ objReq' = [objReq EXCEPT ![t] = next] /\ objects' = [objects EXCEPT ![old.obj] = old.object]
      /\ UNCHANGED <<objFile, convergence, objOverlaps, objTroubled, deleted>>
  BY <1>1, <1>3 DEF InsertObject
<1>6. /\ \A u \in ObjThreads : objReq'[u] = IF u = t THEN next ELSE objReq[u]
      /\ objReq' \in [ObjThreads -> ObjRequests]
  BY <1>4, <1>5, ObjMove
<1>7. /\ objects' \in ObjTables
      /\ \A x \in Objects : objects'[x] = IF x = old.obj THEN old.object ELSE objects[x]
  BY <1>4, <1>5 DEF ObjInv, ObjType, ObjTables
<1>8. ObjType'
  BY <1>5, <1>6, <1>7 DEF ObjInv, ObjType, RestoreWellFormed
<1>9. \A x \in Objects : \A u \in ObjThreads : WorksOn(u, x)' <=> WorksOn(u, x)
  BY <1>2, <1>4, <1>6 DEF WorksOn
<1>10. ObjAlone'
  BY <1>5, <1>9 DEF ObjInv, ObjAlone, Restoring
<1>11. Deleting'
  BY <1>4, <1>5, <1>6 DEF ObjInv, Deleting
<1>17. Working'
  BY <1>2, <1>4, <1>5, <1>6, <1>7, <1>9, NoneIsNoObject DEF ObjInv, Working, WorksOn
<1>18. old.obj \notin deleted \ (objOverlaps \cup objTroubled)
  BY <1>2, <1>4 DEF ObjInv, Working, WorksOn
<1>19. DeletionsLast'
  <2>1. \A x \in Objects : ErasedByRequest(x) => ErasedByRequest(x)'
    BY <1>2, <1>6 DEF ErasedByRequest
  <2> QED
    BY <1>5, <1>7, <1>18, <2>1 DEF ObjInv, ObjType, DeletionsLast
<1>20. FreshObj'
  <2>1. old.obj \in madeObjs /\ madeObjs' = madeObjs
    BY <1>2, <1>4 DEF ObjInv, FreshObj, UnmadeObj, WorksOn, InsertObject
  <2> QED
    BY <1>5, <1>7, <1>9, <2>1 DEF ObjInv, FreshObj, UnmadeObj
<1>12. \A x \in Objects : HasObj(x)' <=> HasObj(x) \/ x = old.obj
  BY <1>2, <1>4, <1>5, <1>6, <1>9 DEF HasObj, WorksOn
<1>13. \A x \in Objects : Named(x)' => Named(x) \/ x = old.obj
  BY <1>2, <1>4, <1>5, <1>6, <1>7 DEF Named
<1>14. old.object # None
  BY <1>4, NoneIsNoObject
<1>15. NamesResolve'
  <2> SUFFICES ASSUME NEW x \in Objects \ (deleted \cup objOverlaps \cup objTroubled)
               PROVE  /\ Named(x)' => HasObj(x)'
                      /\ HasObj(x)' /\ restore.at # "fill_objects" =>
                           objects'[x] # None \/ (Unloaded /\ objFile[x] # None)
    BY <1>5 DEF NamesResolve, Unloaded, Restoring
  <2> QED
    BY <1>7, <1>12, <1>13, <1>14 DEF ObjInv, NamesResolve
<1>16. ObjSynced'
  <2> SUFFICES ASSUME NEW x \in Objects \ (objOverlaps \cup objTroubled)
               PROVE  /\ \A u \in ObjThreads : WorksOn(u, x)' =>
                           /\ objReq'[u].at = "persist" => objects'[x] = objReq'[u].object
                           /\ objReq'[u].at = "unpersist" => objects'[x] = None
                      /\ ~Restoring /\ ~failedRestore /\ ~Changing(x)' => objects'[x] = objFile[x]
                      /\ restore.at = "fill_objects" => objects'[x] = None
                      /\ restore.at \in {"clear_documents", "fill_documents"} => objects'[x] = objFile[x]
    BY <1>5 DEF ObjSynced, Restoring
  <2>1. CASE x # old.obj
    <3>1. Changing(x)' <=> Changing(x)
      BY <1>2, <1>6, <1>9, <2>1 DEF Changing, WorksOn
    <3> QED
      BY <1>2, <1>6, <1>7, <1>9, <2>1, <3>1 DEF ObjInv, ObjSynced, WorksOn
  <2>2. CASE x = old.obj
    <3>1. WorksOn(t, x)' /\ WorksOn(t, x)
      BY <1>2, <1>4, <1>6, <2>2 DEF WorksOn
    <3>2. ~Restoring /\ \A u \in ObjThreads : WorksOn(u, x) => u = t
      BY <3>1 DEF ObjInv, ObjAlone
    <3>3. Changing(x)' /\ restore.at \notin {"fill_objects", "clear_documents", "fill_documents"}
      BY <1>4, <1>6, <3>1, <3>2 DEF Changing, Restoring, NoRestore
    <3> QED
      BY <1>4, <1>6, <1>7, <1>9, <2>2, <3>2, <3>3
  <2> QED
    BY <2>1, <2>2
<1> QED
  BY <1>8, <1>10, <1>11, <1>15, <1>16, <1>17, <1>19, <1>20 DEF ObjInv

(* A request that is over leaves memory and store agreeing on its object,   *)
(* or trouble.                                                              *)
LEMMA EndKeeps ==
  ASSUME ObjInv, NEW t \in ObjThreads, NEW o \in Objects, WorksOn(t, o),
         objReq' = [objReq EXCEPT ![t] = ObjIdle],
         NEW file \in {None} \cup RegistryObject, objFile' = [objFile EXCEPT ![o] = file],
         convergence' \in FieldTables, objTroubled \subseteq objTroubled', deleted \subseteq deleted',
         \A x \in Objects : NamedBy(file, x) => Named(x),
         o \in objOverlaps \cup objTroubled' \cup deleted' \/ (HasObj(o) <=> file # None),
         o \in objOverlaps \cup objTroubled' \/ failedRestore \/ file = objects[o],
         deleted' \subseteq deleted \cup {o}, madeObjs' = madeObjs,
         o \in deleted' \ (objOverlaps \cup objTroubled') => objects[o] = None /\ file = None,
         UNCHANGED <<objects, objOverlaps, snapshot, restore, export, failedRestore>>
  PROVE  ObjInv'
<1>1. /\ \A u \in ObjThreads : objReq'[u] = IF u = t THEN ObjIdle ELSE objReq[u]
      /\ objReq' \in [ObjThreads -> ObjRequests] /\ ObjType
  BY DEF ObjInv, ObjType, ObjRequests
<1>2. /\ objFile' \in ObjTables
      /\ \A x \in Objects : objFile'[x] = IF x = o THEN file ELSE objFile[x]
  BY <1>1 DEF ObjType, ObjTables
<1>3. ObjType'
  BY <1>1, <1>2 DEF ObjType, RestoreWellFormed
<1>4. \A x \in Objects : \A u \in ObjThreads : WorksOn(u, x)' <=> WorksOn(u, x) /\ u # t
  BY <1>1 DEF WorksOn
<1>5. ObjAlone'
  BY <1>4 DEF ObjInv, ObjAlone, Restoring
<1>6. Deleting'
  BY <1>1 DEF ObjInv, Deleting, ObjIdle
<1>13. Working'
  BY <1>1, <1>4 DEF ObjInv, Working, ObjAlone
<1>14. DeletionsLast'
  <2>1. \A x \in Objects \ {o} : ErasedByRequest(x) => ErasedByRequest(x)'
    BY <1>1 DEF ErasedByRequest, WorksOn
  <2> QED
    BY <1>2, <2>1 DEF ObjInv, ObjType, DeletionsLast
<1>15. FreshObj'
  <2>1. o \in madeObjs
    BY DEF ObjInv, FreshObj, UnmadeObj
  <2> QED
    BY <1>2, <1>4, <2>1 DEF ObjInv, FreshObj, UnmadeObj
<1>7. \A x \in Objects \ {o} : HasObj(x)' <=> HasObj(x)
  BY <1>1, <1>2, <1>4 DEF HasObj, WorksOn
<1>8. \A x \in Objects : Named(x)' => Named(x)
  BY <1>1, <1>2 DEF Named
<1>9. \A x \in Objects : /\ x \notin objTroubled' => x \notin objTroubled
                         /\ x \notin deleted' => x \notin deleted
  OBVIOUS
<1>10. o \notin objOverlaps \cup objTroubled' \cup deleted' => (HasObj(o)' <=> HasObj(o))
  BY <1>9, <1>1, <1>2, <1>4 DEF HasObj, WorksOn
<1>11. NamesResolve'
  <2>1. \A x \in Objects \ {o} : objFile'[x] = objFile[x]
    BY <1>2
  <2>2. o \notin objOverlaps => (HasObj(o)' => objFile'[o] # None)
    BY <1>4 DEF HasObj, ObjInv, ObjAlone
  <2> QED
    BY <1>7, <1>8, <1>9, <1>10, <2>1, <2>2 DEF ObjInv, NamesResolve, Unloaded, Restoring
<1>12. ObjSynced'
  <2> SUFFICES ASSUME NEW x \in Objects \ (objOverlaps \cup objTroubled')
               PROVE  /\ \A u \in ObjThreads : WorksOn(u, x)' =>
                           /\ objReq'[u].at = "persist" => objects[x] = objReq'[u].object
                           /\ objReq'[u].at = "unpersist" => objects[x] = None
                      /\ ~Restoring /\ ~failedRestore /\ ~Changing(x)' => objects[x] = objFile'[x]
                      /\ restore.at = "fill_objects" => objects[x] = None
                      /\ restore.at \in {"clear_documents", "fill_documents"} => objects[x] = objFile'[x]
    BY DEF ObjSynced, Restoring
  <2>1. CASE x # o
    <3>1. Changing(x)' <=> Changing(x)
      BY <1>1, <1>4, <2>1 DEF Changing, WorksOn
    <3> QED
      BY <1>1, <1>2, <1>4, <1>9, <2>1, <3>1 DEF ObjInv, ObjSynced
  <2>2. CASE x = o
    <3>1. ~Restoring /\ \A u \in ObjThreads : WorksOn(u, x) => u = t
      BY <2>2 DEF ObjInv, ObjAlone
    <3>2. restore.at \notin {"fill_objects", "clear_documents", "fill_documents"}
      BY <3>1 DEF Restoring, NoRestore
    <3> QED
      BY <1>2, <1>4, <2>2, <3>1, <3>2
  <2> QED
    BY <2>1, <2>2
<1> QED
  BY <1>3, <1>5, <1>6, <1>11, <1>12, <1>13, <1>14, <1>15 DEF ObjInv

LEMMA PersistObjectKeeps ==
  ASSUME ObjInv, NEW t \in ObjThreads, PersistObject(t), UNCHANGED <<snapshot, restore, export, failedRestore>>
  PROVE  ObjInv'
<1>1. PICK old : old = objReq[t]
  OBVIOUS
<1>2. old \in Writings /\ old.at = "persist" /\ old # ObjIdle /\ objReq[t] = old
  BY <1>1, ObjRequestIs DEF PersistObject, ObjInv, ObjIdle
<1>3. old.obj \in Objects /\ old.object \in RegistryObject /\ WorksOn(t, old.obj)
  BY <1>1, <1>2 DEF Writings, WorksOn
<1>4. /\ objReq' = [objReq EXCEPT ![t] = ObjIdle] /\ objFile' = [objFile EXCEPT ![old.obj] = old.object]
      /\ UNCHANGED <<objects, convergence, objOverlaps, objTroubled, deleted>>
  BY <1>1 DEF PersistObject, Persisted
<1>9. madeObjs' = madeObjs /\ old.obj \notin deleted \ (objOverlaps \cup objTroubled)
  BY <1>1, <1>2, <1>3 DEF PersistObject, ObjInv, Working
<1>5. \A x \in Objects : NamedBy(old.object, x) => Named(x)
  BY <1>1, <1>2 DEF Named
<1>6. HasObj(old.obj) /\ old.object # None
  BY <1>1, <1>2, <1>3, NoneIsNoObject DEF HasObj
<1>7. old.obj \in objOverlaps \cup objTroubled \/ old.object = objects[old.obj]
  BY <1>1, <1>2, <1>3 DEF ObjInv, ObjSynced
<1>8. convergence \in FieldTables
  BY DEF ObjInv, ObjType
<1> QED
  BY <1>3, <1>4, <1>5, <1>6, <1>7, <1>8, <1>9, EndKeeps

LEMMA UnpersistObjectKeeps ==
  ASSUME ObjInv, NEW t \in ObjThreads, UnpersistObject(t), UNCHANGED <<snapshot, restore, export, failedRestore>>
  PROVE  ObjInv'
<1>1. PICK old : old = objReq[t]
  OBVIOUS
<1>2. old \in Removings /\ old.at = "unpersist" /\ old # ObjIdle /\ objReq[t] = old
  BY <1>1, ObjRequestIs DEF UnpersistObject, ObjInv, ObjIdle
<1>3. old.obj \in Objects /\ WorksOn(t, old.obj) /\ old.obj \in deleted \cup objOverlaps
  BY <1>1, <1>2 DEF Removings, WorksOn, ObjInv, Deleting
<1>4. /\ objReq' = [objReq EXCEPT ![t] = ObjIdle] /\ objFile' = [objFile EXCEPT ![old.obj] = None]
      /\ UNCHANGED <<objects, convergence, objOverlaps, objTroubled, deleted>>
  BY <1>1 DEF UnpersistObject, Unpersisted
<1>5. \A x \in Objects : ~NamedBy(None, x)
  BY DEF NamedBy
<1>6. old.obj \in objOverlaps \cup objTroubled \/ None = objects[old.obj]
  BY <1>1, <1>2, <1>3 DEF ObjInv, ObjSynced
<1>7. convergence \in FieldTables /\ madeObjs' = madeObjs
  BY DEF ObjInv, ObjType, UnpersistObject
<1>8. old.obj \in objOverlaps \cup objTroubled \/ objects[old.obj] = None
  BY <1>6
<1> QED
  BY <1>3, <1>4, <1>5, <1>6, <1>7, <1>8, EndKeeps

LEMMA ObjectSaveRaisesKeeps ==
  ASSUME ObjInv, NEW t \in ObjThreads, ObjectSaveRaises(t), UNCHANGED <<snapshot, restore, export, failedRestore>>
  PROVE  ObjInv'
<1>1. PICK o : o = objReq[t].obj
  OBVIOUS
<1>2. o \in Objects /\ WorksOn(t, o)
  BY <1>1, ObjRequestIs DEF ObjectSaveRaises, ObjInv, ObjIdle, WorksOn
<1>3. /\ objReq' = [objReq EXCEPT ![t] = ObjIdle] /\ objFile' = [objFile EXCEPT ![o] = objFile[o]]
      /\ objTroubled' = objTroubled \cup {o}
      /\ UNCHANGED <<objects, convergence, objOverlaps, deleted>>
  BY <1>1 DEF ObjectSaveRaises, ObjInv, ObjType, ObjTables
<1>4. \A x \in Objects : NamedBy(objFile[o], x) => Named(x)
  BY <1>2 DEF Named
<1>5. convergence \in FieldTables /\ objFile[o] \in {None} \cup RegistryObject /\ madeObjs' = madeObjs
  BY <1>2 DEF ObjInv, ObjType, ObjTables, ObjectSaveRaises
<1> QED
  BY <1>2, <1>3, <1>4, <1>5, EndKeeps

(* Nothing has changed for an object whose request is at no store yet.      *)
LEMMA Unstored ==
  ASSUME ObjInv, NEW t \in ObjThreads, NEW o \in Objects \ objOverlaps, WorksOn(t, o),
         objReq[t].at \notin {"persist", "unpersist"}
  PROVE  /\ HasObj(o) <=> objFile[o] # None
         /\ o \in objTroubled \/ failedRestore \/ objFile[o] = objects[o]
<1>1. ~Restoring /\ \A u \in ObjThreads : WorksOn(u, o) => u = t
  BY DEF ObjInv, ObjAlone
<1> QED
  BY <1>1 DEF ObjInv, ObjSynced, Changing, HasObj

LEMMA EndUpsertKeeps ==
  ASSUME ObjInv, NEW t \in ObjThreads, EndUpsert(t), UNCHANGED <<snapshot, restore, export, failedRestore>>
  PROVE  ObjInv'
<1>1. PICK old : old = objReq[t]
  OBVIOUS
<1>2. old \in Merges /\ old.at = "merge" /\ old # ObjIdle /\ objReq[t] = old
  BY <1>1, ObjRequestIs DEF EndUpsert, ObjInv, ObjIdle
<1>3. old.obj \in Objects /\ WorksOn(t, old.obj) /\ old.merged \in SUBSET Dimensions
  BY <1>1, <1>2 DEF Merges, WorksOn
<1>4. /\ objReq' = [objReq EXCEPT ![t] = ObjIdle] /\ objFile' = [objFile EXCEPT ![old.obj] = objFile[old.obj]]
      /\ convergence' = [convergence EXCEPT ![old.obj] = old.merged]
      /\ UNCHANGED <<objects, objOverlaps, objTroubled, deleted>>
  BY <1>1 DEF EndUpsert, ObjInv, ObjType, ObjTables
<1>5. \A x \in Objects : NamedBy(objFile[old.obj], x) => Named(x)
  BY <1>3 DEF Named
<1>6. convergence' \in FieldTables /\ objFile[old.obj] \in {None} \cup RegistryObject /\ madeObjs' = madeObjs
  BY <1>3, <1>4 DEF ObjInv, ObjType, ObjTables, FieldTables, EndUpsert
<1>7. old.obj \in deleted \ (objOverlaps \cup objTroubled) =>
        objects[old.obj] = None /\ objFile[old.obj] = None
  <2>1. old.obj \notin objOverlaps => ~ErasedByRequest(old.obj)
    BY <1>1, <1>2, <1>3 DEF ErasedByRequest, ObjInv, ObjAlone, WorksOn, ObjIdle
  <2> QED
    BY <1>3, <2>1 DEF ObjInv, ObjType, DeletionsLast
<1> QED
  BY <1>1, <1>2, <1>3, <1>4, <1>5, <1>6, <1>7, Unstored, EndKeeps

LEMMA RemoveObjectKeeps ==
  ASSUME ObjInv, NEW t \in ObjThreads, RemoveObject(t), UNCHANGED <<snapshot, restore, export, failedRestore>>
  PROVE  ObjInv'
<1>1. PICK old : old = objReq[t]
  OBVIOUS
<1>2. old \in Removings /\ old.at = "remove" /\ old # ObjIdle /\ objReq[t] = old
  BY <1>1, ObjRequestIs DEF RemoveObject, ObjInv, ObjIdle
<1>3. old.obj \in Objects /\ WorksOn(t, old.obj)
  BY <1>1, <1>2 DEF Removings, WorksOn
<1>4. /\ objects' = [objects EXCEPT ![old.obj] = None] /\ deleted' = deleted \cup {old.obj}
      /\ UNCHANGED <<objFile, convergence, objOverlaps, objTroubled>>
  BY <1>1 DEF RemoveObject
<1>5. CASE ~Exists(old.obj)
  <2>1. objects' = objects /\ objReq' = [objReq EXCEPT ![t] = ObjIdle]
        /\ objFile' = [objFile EXCEPT ![old.obj] = objFile[old.obj]]
    BY <1>1, <1>4, <1>5 DEF RemoveObject, Exists, ObjInv, ObjType, ObjTables
  <2>2. \A x \in Objects : NamedBy(objFile[old.obj], x) => Named(x)
    BY <1>3 DEF Named
  <2>3. convergence \in FieldTables /\ objFile[old.obj] \in {None} \cup RegistryObject
    BY <1>3 DEF ObjInv, ObjType, ObjTables
  <2>4. deleted \subseteq deleted' /\ deleted' \subseteq deleted \cup {old.obj} /\ madeObjs' = madeObjs
    BY <1>4 DEF RemoveObject
  <2>5. old.obj \in objOverlaps
    BY <1>1, <1>2, <1>3, <1>5 DEF ObjInv, Working, Exists
  <2> QED
    BY <1>1, <1>2, <1>3, <1>4, <2>1, <2>2, <2>3, <2>4, <2>5, EndKeeps
<1>6. CASE Exists(old.obj)
  <2>1. PICK next : next = [old EXCEPT !.at = "unpersist"]
    OBVIOUS
  <2>2. /\ next \in ObjRequests /\ next.at = "unpersist" /\ next.obj = old.obj /\ next.object = None
        /\ next # ObjIdle
    BY <1>2, <2>1 DEF Removings, ObjRequests, ObjIdle
  <2>3. objReq' = [objReq EXCEPT ![t] = next]
    BY <1>1, <1>6, <2>1 DEF RemoveObject
  <2>4. /\ \A u \in ObjThreads : objReq'[u] = IF u = t THEN next ELSE objReq[u]
        /\ objReq' \in [ObjThreads -> ObjRequests]
    BY <2>2, <2>3, ObjMove
  <2>5. /\ objects' \in ObjTables
        /\ \A x \in Objects : objects'[x] = IF x = old.obj THEN None ELSE objects[x]
    BY <1>3, <1>4 DEF ObjInv, ObjType, ObjTables
  <2>6. ObjType'
    BY <1>3, <1>4, <2>4, <2>5 DEF ObjInv, ObjType, RestoreWellFormed
  <2>7. \A x \in Objects : \A u \in ObjThreads : WorksOn(u, x)' <=> WorksOn(u, x)
    BY <1>2, <2>2, <2>4 DEF WorksOn
  <2>8. ObjAlone'
    BY <1>4, <2>7 DEF ObjInv, ObjAlone, Restoring
  <2>9. Deleting'
    BY <1>4, <2>2, <2>4 DEF ObjInv, Deleting
  <2>15. Working'
    <3> SUFFICES ASSUME NEW x \in Objects \ objOverlaps, NEW u \in ObjThreads, WorksOn(u, x)'
                 PROVE  /\ objReq'[u].at = "remove" => objects'[x] # None
                        /\ objReq'[u].at \in {"insert", "persist"} => x \notin deleted' \ objTroubled
      BY <1>4 DEF Working
    <3>1. CASE u = t
      BY <2>2, <2>4, <3>1
    <3>2. CASE u # t
      <4>1. x # old.obj
        BY <1>3, <2>7, <3>2 DEF ObjInv, ObjAlone
      <4> QED
        BY <1>4, <2>4, <2>5, <2>7, <3>2, <4>1 DEF ObjInv, Working
    <3> QED
      BY <3>1, <3>2
  <2>16. DeletionsLast'
    <3>1. \A x \in Objects : ErasedByRequest(x) => ErasedByRequest(x)'
      BY <1>2, <2>4 DEF ErasedByRequest
    <3>2. ErasedByRequest(old.obj)'
      BY <2>2, <2>4 DEF ErasedByRequest
    <3> SUFFICES ASSUME NEW x \in deleted' \ (objOverlaps \cup objTroubled)
                 PROVE  objects'[x] = None /\ (objFile[x] = None \/ ErasedByRequest(x)')
      BY <1>4 DEF DeletionsLast
    <3>3. x \in Objects /\ (x = old.obj \/ x \in deleted)
      BY <1>3, <1>4 DEF ObjInv, ObjType
    <3> QED
      BY <2>5, <3>1, <3>2, <3>3 DEF ObjInv, DeletionsLast
  <2>17. FreshObj'
    <3>1. old.obj \in madeObjs /\ madeObjs' = madeObjs
      BY <1>3 DEF ObjInv, FreshObj, UnmadeObj, RemoveObject
    <3> QED
      BY <1>4, <2>5, <2>7, <3>1 DEF ObjInv, FreshObj, UnmadeObj
  <2>10. \A x \in Objects : HasObj(x)' => HasObj(x)
    BY <1>4, <2>2, <2>4, <2>7 DEF HasObj
  <2>11. \A x \in Objects \ {old.obj} : HasObj(x) => HasObj(x)'
    BY <1>2, <1>4, <2>4, <2>7 DEF HasObj, WorksOn
  <2>12. \A x \in Objects : Named(x)' => Named(x)
    BY <1>4, <2>2, <2>4, <2>5 DEF Named, NamedBy
  <2>13. NamesResolve'
    BY <1>4, <2>5, <2>10, <2>11, <2>12 DEF ObjInv, NamesResolve, Unloaded, Restoring
  <2>14. ObjSynced'
    <3> SUFFICES ASSUME NEW x \in Objects \ (objOverlaps \cup objTroubled)
                 PROVE  /\ \A u \in ObjThreads : WorksOn(u, x)' =>
                             /\ objReq'[u].at = "persist" => objects'[x] = objReq'[u].object
                             /\ objReq'[u].at = "unpersist" => objects'[x] = None
                        /\ ~Restoring /\ ~failedRestore /\ ~Changing(x)' => objects'[x] = objFile[x]
                        /\ restore.at = "fill_objects" => objects'[x] = None
                        /\ restore.at \in {"clear_documents", "fill_documents"} => objects'[x] = objFile[x]
      BY <1>4 DEF ObjSynced, Restoring
    <3>1. CASE x # old.obj
      <4>1. Changing(x)' <=> Changing(x)
        BY <1>2, <2>4, <2>7, <3>1 DEF Changing, WorksOn
      <4> QED
        BY <1>2, <2>4, <2>5, <2>7, <3>1, <4>1 DEF ObjInv, ObjSynced, WorksOn
    <3>2. CASE x = old.obj
      <4>1. WorksOn(t, x)' /\ WorksOn(t, x)
        BY <1>2, <2>2, <2>4, <3>2 DEF WorksOn
      <4>2. ~Restoring /\ \A u \in ObjThreads : WorksOn(u, x) => u = t
        BY <4>1 DEF ObjInv, ObjAlone
      <4>3. Changing(x)' /\ restore.at \notin {"fill_objects", "clear_documents", "fill_documents"}
        BY <2>2, <2>4, <4>1, <4>2 DEF Changing, Restoring, NoRestore
      <4> QED
        BY <2>2, <2>4, <2>5, <2>7, <3>2, <4>2, <4>3
    <3> QED
      BY <3>1, <3>2
  <2> QED
    BY <2>6, <2>8, <2>9, <2>13, <2>14, <2>15, <2>16, <2>17 DEF ObjInv
<1> QED
  BY <1>5, <1>6

LEMMA ObjStepKeeps ==
  ASSUME ObjInv, NEW t \in ObjThreads, ObjStep(t), UNCHANGED <<snapshot, restore, export, failedRestore>>
  PROVE  ObjInv'
<1>1. ASSUME NEW o \in Objects, NEW deps \in SUBSET Objects, RegisterObject(t, o, deps) \/ UpdateObject(t, o, deps)
      PROVE  ObjInv'
  BY <1>1, WriteRequestKeeps
<1>2. ASSUME NEW o \in Objects, DeleteObject(t, o) PROVE ObjInv'
  BY <1>2, DeleteRequestKeeps
<1>3. ASSUME NEW o \in Objects, NEW f \in Dimensions, BeginUpsert(t, o, {f}) PROVE ObjInv'
  BY <1>3, UpsertRequestKeeps
<1> QED
  BY <1>1, <1>2, <1>3, InsertObjectKeeps, PersistObjectKeeps, RemoveObjectKeeps, UnpersistObjectKeeps,
     ObjectSaveRaisesKeeps, EndUpsertKeeps DEF ObjStep

(* What a step of a restore does to the objects it leaves alone.            *)
LEMMA ObjNames ==
  ASSUME UNCHANGED objVars
  PROVE  /\ \A x \in Objects : \A u \in ObjThreads : WorksOn(u, x)' <=> WorksOn(u, x)
         /\ \A x \in Objects : HasObj(x)' <=> HasObj(x)
         /\ \A x \in Objects : Changing(x)' <=> Changing(x)
         /\ Working' <=> Working
         /\ DeletionsLast' <=> DeletionsLast
<1>1. \A x \in Objects : \A u \in ObjThreads : WorksOn(u, x)' <=> WorksOn(u, x)
  BY DEF objVars, WorksOn
<1>2. \A x : ErasedByRequest(x)' <=> ErasedByRequest(x)
  BY DEF objVars, ErasedByRequest
<1>3. DeletionsLast' <=> DeletionsLast
  BY <1>2 DEF objVars, DeletionsLast
<1>4. Working' <=> Working
  BY <1>1 DEF objVars, Working
<1> QED
  BY <1>1, <1>3, <1>4 DEF objVars, HasObj, Changing

LEMMA ExportKeepsObjects ==
  ASSUME ObjInv, Export \/ ExportDocuments
  PROVE  ObjInv'
<1>1. \/ export' = objFile /\ UNCHANGED snapshot
      \/ export # None /\ export' = None /\ snapshot'.objects = export
  BY DEF Export, ExportDocuments
<1>2. /\ UNCHANGED <<objects, objFile, convergence, objReq, objOverlaps, objTroubled, deleted, restore, failedRestore>>
      /\ UNCHANGED objVars
      /\ ~Restoring
  BY DEF Export, ExportDocuments, objVars
<1>3. restore.at = "idle"
  BY <1>2 DEF Restoring, NoRestore
<1>4. ObjType'
  BY <1>1, <1>2, <1>3 DEF ObjInv, ObjType, RestoreWellFormed
<1>5. \A x \in Objects : Named(x)' => Named(x) \/ HasObj(x)
  BY <1>1, <1>2 DEF Named, HasObj
<1>6. NamesResolve'
  BY <1>2, <1>5, ObjNames DEF ObjInv, NamesResolve, Unloaded, Restoring
<1>7. FreshObj'
  <2>1. madeObjs' = madeObjs
    BY <1>2 DEF objVars
  <2> QED
    BY <1>1, <1>2, <2>1, ObjNames DEF ObjInv, FreshObj, UnmadeObj
<1>8. ObjAlone' /\ Working' /\ Deleting' /\ DeletionsLast' /\ ObjSynced'
  BY <1>2, ObjNames DEF ObjInv, ObjAlone, Deleting, ObjSynced, Restoring
<1> QED
  BY <1>4, <1>6, <1>7, <1>8 DEF ObjInv

LEMMA BeginRestoreKeepsObjects ==
  ASSUME ObjInv, BeginRestore
  PROVE  ObjInv'
<1>1. /\ restore'.at = "objects" /\ restore'.todo = KeysToRestore(snapshot.objects) /\ restore' # NoRestore
      /\ objOverlaps' = objOverlaps \cup ObjsInProgress /\ snapshot # None /\ ~Restoring
      /\ UNCHANGED <<snapshot, export, objects, objFile, convergence, objReq, madeObjs, objTroubled, deleted>>
  BY DEF BeginRestore, NoRestore
<1>2. ObjType'
  <2>1. snapshot.objects \in ObjTables
    BY <1>1 DEF ObjInv, ObjType
  <2>2. DOMAIN snapshot.objects = Objects
    BY <2>1 DEF ObjTables
  <2> QED
    BY <1>1, <2>2 DEF BeginRestore, ObjInv, ObjType, KeysToRestore, RestoreWellFormed, NoRestore
<1>3. \A x \in Objects \ objOverlaps' : x \notin objOverlaps /\ \A u \in ObjThreads : ~WorksOn(u, x)
  BY <1>1 DEF ObjsInProgress, ObjActive, WorksOn
<1>4. /\ \A x \in Objects : \A u \in ObjThreads : WorksOn(u, x)' <=> WorksOn(u, x)
      /\ \A x \in Objects : (HasObj(x)' <=> HasObj(x)) /\ (Named(x)' <=> Named(x))
  BY <1>1 DEF WorksOn, HasObj, Named
<1>5. ObjAlone' /\ Deleting'
  BY <1>1, <1>3, <1>4 DEF ObjInv, ObjAlone, Deleting
<1>9. FreshObj' /\ Working'
  BY <1>1, <1>3, <1>4 DEF ObjInv, FreshObj, UnmadeObj, Working
<1>10. DeletionsLast'
  BY <1>1 DEF ObjInv, ObjType, DeletionsLast, ErasedByRequest
<1>6. restore.at \notin {"fill_objects", "clear_documents", "fill_documents"}
  BY <1>1 DEF Restoring, NoRestore
<1>7. NamesResolve'
  BY <1>1, <1>3, <1>4, <1>6 DEF ObjInv, NamesResolve, Unloaded
<1>8. ObjSynced'
  BY <1>1, <1>3, <1>4 DEF ObjSynced, Restoring
<1> QED
  BY <1>2, <1>5, <1>7, <1>8, <1>9, <1>10 DEF ObjInv

LEMMA RestoreObjectKeeps ==
  ASSUME ObjInv, NEW o \in Objects, RestoreObject(o)
  PROVE  ObjInv'
<1>1. /\ restore.at = "objects" /\ o \in restore.todo /\ objFile' = [objFile EXCEPT ![o] = snapshot.objects[o]]
      /\ restore' = [at |-> "objects", todo |-> restore.todo \ {o}]
      /\ deleted' = deleted \ {o}
      /\ UNCHANGED <<snapshot, export, objects, convergence, objReq, madeObjs, objOverlaps, objTroubled, failedRestore>>
  BY DEF RestoreObject, ObjInv, ObjType, RestoreWellFormed
<1>2. /\ snapshot # None /\ snapshot.objects \in ObjTables /\ snapshot.objects[o] # None
      /\ Restoring /\ Restoring' /\ restore'.at = "objects"
  BY <1>1 DEF ObjInv, ObjType, Restoring, NoRestore
<1>3. /\ objFile' \in ObjTables
      /\ \A x \in Objects : objFile'[x] = IF x = o THEN snapshot.objects[o] ELSE objFile[x]
  BY <1>1, <1>2 DEF ObjInv, ObjType, ObjTables
<1>4. ObjType'
  BY <1>1, <1>2, <1>3 DEF ObjInv, ObjType, RestoreWellFormed, NoRestore
<1>5. \A x \in Objects : \A u \in ObjThreads : WorksOn(u, x)' <=> WorksOn(u, x)
  BY <1>1 DEF WorksOn
<1>11. o \notin objOverlaps => \A u \in ObjThreads : ~WorksOn(u, o)
  BY <1>2 DEF ObjInv, ObjAlone
<1>6. ObjAlone' /\ Deleting' /\ Working'
  <2>1. ObjAlone' /\ Working'
    BY <1>1, <1>2, <1>5 DEF ObjInv, ObjAlone, Working
  <2>2. \A u \in ObjThreads : objReq[u].at = "unpersist" => objReq[u].obj # o \/ o \in objOverlaps
    BY <1>11, ObjRequestIs DEF ObjInv, WorksOn, ObjIdle
  <2> QED
    BY <1>1, <2>1, <2>2 DEF ObjInv, Deleting
<1>12. DeletionsLast'
  <2>1. \A x : ErasedByRequest(x)' <=> ErasedByRequest(x)
    BY <1>1 DEF ErasedByRequest
  <2> QED
    BY <1>1, <1>3, <2>1 DEF ObjInv, ObjType, DeletionsLast
<1>13. FreshObj'
  <2>1. o \in madeObjs
    BY <1>2 DEF ObjInv, FreshObj, UnmadeObj
  <2> QED
    BY <1>1, <1>3, <1>5, <2>1 DEF ObjInv, FreshObj, UnmadeObj
<1>7. \A x \in Objects : /\ HasObj(x) => HasObj(x)'
                         /\ HasObj(x)' => HasObj(x) \/ x = o
                         /\ Named(x)' => Named(x)
  BY <1>1, <1>2, <1>3, <1>5 DEF HasObj, Named
<1>8. Named(o)
  BY <1>2 DEF Named
<1>9. NamesResolve'
  <2> SUFFICES ASSUME NEW x \in Objects \ (deleted' \cup objOverlaps \cup objTroubled)
               PROVE  (Named(x)' => HasObj(x)') /\ (HasObj(x)' => objects[x] # None \/ objFile'[x] # None)
    BY <1>1, <1>2 DEF NamesResolve, Unloaded
  <2>1. CASE x = o
    BY <1>2, <1>3, <2>1 DEF HasObj
  <2>2. CASE x # o
    BY <1>1, <1>2, <1>3, <1>7, <2>2 DEF ObjInv, NamesResolve
  <2> QED
    BY <2>1, <2>2
<1>10. ObjSynced'
  BY <1>1, <1>2, <1>5 DEF ObjInv, ObjSynced
<1> QED
  BY <1>4, <1>6, <1>9, <1>10, <1>12, <1>13 DEF ObjInv

(* The steps of a restore that leave the objects alone.                     *)
LEMMA RestoringKeepsObjects ==
  ASSUME ObjInv, UNCHANGED <<objVars, snapshot, export>>, RestoreWellFormed', restore'.at # "objects",
         restore'.at # "fill_objects", Unloaded => Unloaded',
         restore'.at \in {"clear_documents", "fill_documents"} =>
           restore.at \in {"clear_documents", "fill_documents"},
         \/ restore.at \notin {"idle", "fill_objects"} /\ restore' # NoRestore /\ UNCHANGED failedRestore
         \/ restore' = NoRestore /\ failedRestore' /\ restore.at \notin {"idle", "fill_objects"}
         \/ restore' = NoRestore /\ restore.at = "fill_documents"
         \/ restore'.at = "documents" /\ restore.at = "objects"
  PROVE  ObjInv'
<1>1. /\ \A x \in Objects : \A u \in ObjThreads : WorksOn(u, x)' <=> WorksOn(u, x)
      /\ \A x \in Objects : (HasObj(x)' <=> HasObj(x)) /\ (Named(x)' <=> Named(x)) /\ (Changing(x)' <=> Changing(x))
      /\ UNCHANGED <<snapshot, export, objects, objFile, convergence, objReq, madeObjs, objOverlaps, objTroubled, deleted>>
  BY ObjNames DEF Named, objVars
<1>2. ObjType'
  BY <1>1 DEF ObjInv, ObjType
<1>3. Restoring /\ restore.at # "fill_objects"
  BY DEF Restoring, NoRestore
<1>4. ObjAlone' /\ Deleting' /\ NamesResolve'
  BY <1>1, <1>3 DEF ObjInv, ObjAlone, Deleting, NamesResolve
<1>6. FreshObj' /\ Working' /\ DeletionsLast'
  BY <1>1, ObjNames DEF ObjInv, FreshObj, UnmadeObj
<1>5. ObjSynced'
  BY <1>1, <1>3 DEF ObjInv, ObjSynced, Restoring, NoRestore
<1> QED
  BY <1>2, <1>4, <1>5, <1>6 DEF ObjInv

(* The reload: emptied, and filled from the store.                          *)
LEMMA ReloadObjectsKeeps ==
  ASSUME ObjInv, ReloadObjects
  PROVE  ObjInv'
<1>1. /\ restore.at = "documents" /\ restore' = [at |-> "fill_objects"] /\ objects' = [x \in Objects |-> None]
      /\ UNCHANGED <<snapshot, export, objFile, convergence, objReq, madeObjs, objOverlaps, objTroubled, deleted>>
  BY DEF ReloadObjects, ClearObjects
<1>2. restore'.at = "fill_objects" /\ restore' # NoRestore /\ Restoring /\ Restoring' /\ restore.at # "fill_objects"
  BY <1>1 DEF Restoring, NoRestore
<1>3. ObjType'
  BY <1>1, <1>2 DEF ObjInv, ObjType, ObjTables, RestoreWellFormed
<1>4. /\ \A x \in Objects : \A u \in ObjThreads : WorksOn(u, x)' <=> WorksOn(u, x)
      /\ \A x \in Objects : (HasObj(x)' <=> HasObj(x)) /\ (Named(x)' => Named(x))
  BY <1>1 DEF WorksOn, HasObj, Named, NamedBy
<1>5. ObjAlone' /\ Deleting' /\ NamesResolve'
  BY <1>1, <1>2, <1>4 DEF ObjInv, ObjAlone, Deleting, NamesResolve
<1>6. \A x \in Objects \ objOverlaps : \A u \in ObjThreads : ~WorksOn(u, x)
  BY <1>2 DEF ObjInv, ObjAlone
<1>8. FreshObj' /\ Working'
  BY <1>1, <1>4, <1>6 DEF ObjInv, FreshObj, UnmadeObj, Working
<1>9. DeletionsLast'
  BY <1>1 DEF ObjInv, ObjType, DeletionsLast, ErasedByRequest
<1>7. ObjSynced'
  BY <1>1, <1>2, <1>4, <1>6 DEF ObjSynced
<1> QED
  BY <1>3, <1>5, <1>7, <1>8, <1>9 DEF ObjInv

LEMMA RefillObjectsKeeps ==
  ASSUME ObjInv, RefillObjects
  PROVE  ObjInv'
<1>1. /\ restore.at = "fill_objects" /\ restore' = [at |-> "clear_documents"]
      /\ objects' = [x \in Objects |-> IF objFile[x] # None THEN objFile[x] ELSE objects[x]]
      /\ UNCHANGED <<snapshot, export, objFile, convergence, objReq, madeObjs, objOverlaps, objTroubled, deleted>>
  BY DEF RefillObjects, FillObjects
<1>2. restore'.at = "clear_documents" /\ restore' # NoRestore /\ Restoring /\ Restoring'
  BY <1>1 DEF Restoring, NoRestore
<1>3. /\ objects' \in ObjTables
      /\ \A x \in Objects : objects'[x] = IF objFile[x] # None THEN objFile[x] ELSE objects[x]
  BY <1>1 DEF ObjInv, ObjType, ObjTables
<1>4. ObjType'
  BY <1>1, <1>2, <1>3 DEF ObjInv, ObjType, RestoreWellFormed
<1>5. \A x \in Objects : \A u \in ObjThreads : WorksOn(u, x)' <=> WorksOn(u, x)
  BY <1>1 DEF WorksOn
<1>6. \A x \in Objects : HasObj(x)' <=> HasObj(x)
  BY <1>1, <1>5 DEF HasObj
<1>7. \A x \in Objects : Named(x)' => Named(x) \/ HasObj(x)
  BY <1>1, <1>3 DEF Named, HasObj
<1>8. ObjAlone' /\ Deleting'
  BY <1>1, <1>2, <1>5 DEF ObjInv, ObjAlone, Deleting
<1>9. \A x \in Objects \ objOverlaps : \A u \in ObjThreads : ~WorksOn(u, x)
  BY <1>2 DEF ObjInv, ObjAlone
<1>12. FreshObj' /\ Working'
  BY <1>1, <1>3, <1>5, <1>9 DEF ObjInv, FreshObj, UnmadeObj, Working
<1>13. DeletionsLast'
  <2>1. \A x \in Objects \ objOverlaps : ~ErasedByRequest(x)
    BY <1>9, ObjRequestIs DEF ErasedByRequest, WorksOn, ObjIdle, ObjInv
  <2> QED
    BY <1>1, <1>3, <2>1 DEF ObjInv, ObjType, DeletionsLast, ErasedByRequest
<1>10. NamesResolve'
  BY <1>1, <1>3, <1>6, <1>7, <1>9 DEF ObjInv, NamesResolve, HasObj
<1>11. ObjSynced'
  BY <1>1, <1>2, <1>3, <1>5, <1>9 DEF ObjInv, ObjSynced
<1> QED
  BY <1>4, <1>8, <1>10, <1>11, <1>12, <1>13 DEF ObjInv

(* A new process: what requests had not finished is troubled.               *)
LEMMA RestartKeepsObjects ==
  ASSUME ObjInv, Restart
  PROVE  ObjInv'
<1>1. /\ restore' = NoRestore /\ objects' = objFile /\ convergence' = [x \in Objects |-> None]
      /\ objReq' = [t \in ObjThreads |-> ObjIdle] /\ objTroubled' = objTroubled \cup ObjsInProgress
      /\ export' = None /\ UNCHANGED <<snapshot, objFile, madeObjs, objOverlaps, deleted>>
  BY DEF Restart, ObjectsOnStart
<1>2. restore'.at = "idle" /\ ~Restoring'
  BY <1>1 DEF Restoring, NoRestore
<1>3. ObjType'
  BY <1>1, <1>2 DEF ObjInv, ObjType, ObjTables, FieldTables, ObjRequests, RestoreWellFormed, NoRestore
<1>4. \A x \in Objects : \A u \in ObjThreads : ~WorksOn(u, x)'
  BY <1>1 DEF WorksOn
<1>5. \A x \in Objects \ objTroubled' : x \notin objTroubled /\ \A u \in ObjThreads : ~WorksOn(u, x)
  BY <1>1 DEF ObjsInProgress, ObjActive, WorksOn
<1>6. \A x \in Objects \ objTroubled' : HasObj(x)' <=> HasObj(x)
  BY <1>1, <1>4, <1>5 DEF HasObj
<1>7. \A x \in Objects : HasObj(x)' => objects'[x] # None
  BY <1>1, <1>4 DEF HasObj
<1>8. \A x \in Objects : Named(x)' => Named(x) \/ HasObj(x)
  BY <1>1 DEF Named, HasObj
<1>9. NamesResolve'
  BY <1>1, <1>5, <1>6, <1>7, <1>8 DEF ObjInv, NamesResolve
<1>10. ObjAlone' /\ Deleting' /\ ObjSynced'
  BY <1>1, <1>2, <1>4 DEF ObjAlone, Deleting, ObjSynced, ObjIdle
<1>11. FreshObj' /\ Working'
  BY <1>1, <1>4 DEF ObjInv, FreshObj, UnmadeObj, Working
<1>12. DeletionsLast'
  <2>1. \A x \in Objects \ objTroubled' : ~ErasedByRequest(x)
    BY <1>5, ObjRequestIs DEF ErasedByRequest, WorksOn, ObjIdle, ObjInv
  <2> QED
    BY <1>1, <1>5, <2>1 DEF ObjInv, ObjType, DeletionsLast
<1> QED
  BY <1>3, <1>9, <1>10, <1>11, <1>12 DEF ObjInv

LEMMA ObjUnchanged ==
  ASSUME ObjInv, UNCHANGED <<objVars, snapshot, restore, export, failedRestore>>
  PROVE  ObjInv'
<1>1. \A x \in Objects : Named(x)' <=> Named(x)
  BY DEF Named, objVars
<1> QED
  BY <1>1, ObjNames DEF ObjInv, ObjType, RestoreWellFormed, ObjAlone, FreshObj, UnmadeObj, Deleting, NamesResolve,
     ObjSynced, Unloaded, Restoring, objVars

LEMMA RestoreStepKeepsObjects ==
  ASSUME ObjInv, RestoreStep
  PROVE  ObjInv'
<1>1. CASE NextStore
  <2>1. restore.at = "objects" /\ restore'.at = "documents" /\ RestoreWellFormed'
        /\ UNCHANGED <<objVars, snapshot, export>>
    BY <1>1 DEF NextStore, RestoreWellFormed, NoRestore
  <2> QED
    BY <2>1, RestoringKeepsObjects DEF Unloaded
<1>2. CASE \E d \in Docs : RestoreDocument(d)
  <2>1. /\ restore.at = "documents" /\ restore'.at = "documents" /\ RestoreWellFormed'
        /\ restore' # NoRestore /\ UNCHANGED <<objVars, snapshot, export, failedRestore>>
    BY <1>2 DEF RestoreDocument, RestoreWellFormed, NoRestore, ObjInv, ObjType
  <2> QED
    BY <2>1, RestoringKeepsObjects DEF Unloaded, Restoring, NoRestore
<1>3. CASE RestoreRaises
  <2>1. restore.at \in {"objects", "documents"} /\ restore' = NoRestore /\ failedRestore'
        /\ UNCHANGED <<objVars, snapshot, export>>
    BY <1>3 DEF RestoreRaises
  <2>2. RestoreWellFormed' /\ restore'.at = "idle"
    BY <2>1 DEF RestoreWellFormed, NoRestore
  <2> QED
    BY <2>1, <2>2, RestoringKeepsObjects DEF Unloaded, Restoring
<1>4. CASE ReloadDocuments
  <2>1. restore.at = "clear_documents" /\ restore'.at = "fill_documents" /\ restore' # NoRestore
        /\ RestoreWellFormed' /\ UNCHANGED <<objVars, snapshot, export, failedRestore>>
    BY <1>4 DEF ReloadDocuments, RestoreWellFormed, NoRestore
  <2> QED
    BY <2>1, RestoringKeepsObjects DEF Unloaded, Restoring, NoRestore
<1>5. CASE RefillDocuments
  <2>1. restore.at = "fill_documents" /\ restore' = NoRestore /\ UNCHANGED <<objVars, snapshot, export>>
    BY <1>5 DEF RefillDocuments
  <2>2. RestoreWellFormed' /\ restore'.at = "idle"
    BY <2>1 DEF RestoreWellFormed, NoRestore
  <2> QED
    BY <2>1, <2>2, RestoringKeepsObjects DEF Unloaded, Restoring
<1> QED
  BY <1>1, <1>2, <1>3, <1>4, <1>5, BeginRestoreKeepsObjects, RestoreObjectKeeps, ReloadObjectsKeeps,
     RefillObjectsKeeps DEF RestoreStep

LEMMA ObjNext == ObjInv /\ [StoresNext]_restoreVars => ObjInv'
<1> SUFFICES ASSUME ObjInv, [StoresNext]_restoreVars PROVE ObjInv'
  OBVIOUS
<1>1. CASE UNCHANGED restoreVars
  BY <1>1, ObjUnchanged DEF restoreVars, backupVars
<1>2. ASSUME NEW t \in DocThreads, CanonStep(t), UNCHANGED <<snapshot, restore, objVars, export, failedRestore>>
      PROVE  ObjInv'
  BY <1>2, ObjUnchanged
<1>3. ASSUME NEW t \in ObjThreads, ObjStep(t), UNCHANGED <<snapshot, restore, docVars, export, failedRestore>>
      PROVE  ObjInv'
  BY <1>3, ObjStepKeeps
<1> QED
  BY <1>1, <1>2, <1>3, ExportKeepsObjects, RestoreStepKeepsObjects, RestartKeepsObjects DEF StoresNext

LEMMA ObjInitial == StoresInit => ObjInv
<1> SUFFICES ASSUME StoresInit PROVE ObjInv
  OBVIOUS
<1>1. /\ objects = [o \in Objects |-> None] /\ objFile = objects /\ convergence = objects
      /\ objReq = [t \in ObjThreads |-> ObjIdle] /\ snapshot = None /\ restore = NoRestore
      /\ export = None /\ deleted = {}
  BY DEF StoresInit, ObjInit
<1>2. ObjIdle.at = "idle" /\ restore.at = "idle"
  BY <1>1 DEF ObjIdle, NoRestore
<1>3. ObjType
  BY <1>1, <1>2 DEF ObjType, ObjTables, FieldTables, ObjRequests, RestoreWellFormed, NoRestore
<1>4. ObjAlone /\ FreshObj /\ Working /\ Deleting /\ DeletionsLast
  BY <1>1, <1>2 DEF ObjAlone, FreshObj, UnmadeObj, Working, Deleting, DeletionsLast, WorksOn
<1>5. NamesResolve /\ ObjSynced
  BY <1>1, <1>2 DEF NamesResolve, ObjSynced, Named, NamedBy, HasObj, WorksOn
<1> QED
  BY <1>3, <1>4, <1>5 DEF ObjInv

(* The inductive invariant of the registry's memory and store.              *)
THEOREM RegistryObjInv == StoresSpec => []ObjInv
  BY ObjInitial, ObjNext, PTL DEF StoresSpec

(* A deletion lasts through reloads and deaths unless a restore wrote the   *)
(* object again, its requests overlapped or its record was not erased, for  *)
(* any number of request threads and objects (bcaes_registry/store.py,      *)
(* delete).                                                                 *)
THEOREM DeletionsStay == StoresSpec => []DeletionsLast
<1>1. ObjInv => DeletionsLast
  BY DEF ObjInv
<1> QED
  BY <1>1, RegistryObjInv, PTL

(* A dependency that does not resolve was deleted, or its requests          *)
(* overlapped or its save was cut short, or a restore that ended early left *)
(* it in the store only, for any number of request threads and objects      *)
(* (bcaes_registry/store.py, register, update and delete).                  *)
THEOREM UnresolvedAreDeleted == StoresSpec => []UnresolvedWereDeleted
<1>1. ObjInv => UnresolvedWereDeleted
  <2> SUFFICES ASSUME ObjInv, ~Restoring, NEW o \in Dangling, o \notin deleted \cup objOverlaps \cup objTroubled,
                      ~(failedRestore /\ objFile[o] # None)
               PROVE  FALSE
    BY DEF UnresolvedWereDeleted
  <2>1. PICK p \in Objects : objects[p] # None /\ o \in objects[p].deps
    BY DEF Dangling, Exists
  <2>2. o \in Objects => objects[o] = None
    BY DEF Dangling, Exists
  <2>3. objects[p] \in RegistryObject
    BY <2>1 DEF ObjInv, ObjType, ObjTables
  <2>4. o \in Objects /\ objects[o] = None
    BY <2>1, <2>2, <2>3 DEF RegistryObject
  <2>5. Named(o)
    BY <2>1 DEF Named, NamedBy
  <2>6. restore.at # "fill_objects"
    BY DEF Restoring, NoRestore
  <2> QED
    BY <2>4, <2>5, <2>6 DEF ObjInv, NamesResolve, Unloaded, Restoring, NoRestore
<1> QED
  BY <1>1, RegistryObjInv, PTL
------------------------------------------------------------------------------
(***************************************************************************)
(* The documents of CanonicalRepository, under BackupRestore.              *)
(***************************************************************************)
Histories == {h \in Seq(Version) : Len(h) > 0}
Filed == {r \in DocRecord : r.versions \in Histories}
Keys == Docs \cup Categories
DocTables == [Docs -> {None} \cup Document]
ChainTables == [Docs -> {None} \cup Histories]
FileTables == [Docs -> {None} \cup Filed]
Insertions == [at : {"insert", "dump"}, doc : Docs, keys : SUBSET Keys, document : Document,
               version : Version]
Readings == [at : {"read"}, doc : Docs, keys : SUBSET Keys, document : Document]
Appendings == [at : {"append", "set", "dump"}, doc : Docs, keys : SUBSET Keys, document : Document,
               version : Version, held : BOOLEAN]
Savings == [at : {"save"}, doc : Docs, keys : SUBSET Keys, record : Filed]
DocRequests == {DocIdle} \cup Insertions \cup Readings \cup Appendings \cup Savings

UsesKey(t, k) == docReq[t] # DocIdle /\ k \in docReq[t].keys
OnDoc(t, d) == docReq[t] # DocIdle /\ docReq[t].doc = d

DocType ==
  /\ docs \in DocTables /\ chains \in ChainTables /\ docFile \in FileTables
  /\ index \in [Categories -> {None} \cup Docs]
  /\ docReq \in [DocThreads -> DocRequests]
  /\ madeDocs \in SUBSET Docs
  /\ snapshot # None => snapshot.docs \in FileTables
  /\ restore.at = "objects" => snapshot # None
  /\ restore.at = "documents" =>
       snapshot # None /\ \A d \in restore.todo : d \in Docs /\ snapshot.docs[d] # None
  /\ RestoreWellFormed
  /\ \A t \in DocThreads :
       /\ docReq[t] # DocIdle => UsesKey(t, docReq[t].doc)
       /\ docReq[t].at = "insert" => UsesKey(t, docReq[t].document.category)

(* What docOverlaps leaves out: one request at a time, and no restore.      *)
DocAlone ==
  \A k \in Keys \ docOverlaps :
    /\ \A t, u \in DocThreads : UsesKey(t, k) /\ UsesKey(u, k) => t = u
    /\ Restoring => \A t \in DocThreads : ~UsesKey(t, k)

(* Nothing has the id of a document before it is inserted.                  *)
Unmade(d) ==
  /\ docs[d] = None /\ chains[d] = None /\ docFile[d] = None
  /\ snapshot # None => snapshot.docs[d] = None

FreshAt(d) ==
  /\ d \notin madeDocs => Unmade(d) /\ \A t \in DocThreads : ~OnDoc(t, d)
  /\ \A t \in DocThreads : OnDoc(t, d) /\ docReq[t].at = "insert" =>
       Unmade(d) /\ \A u \in DocThreads : OnDoc(u, d) => u = t

NextOf(version, history) ==
  \E j \in 1..Len(history) : version.hash = Rehashed(version, history[j].hash)

(* What a thread appends to the list it holds was computed from that list.  *)
BuiltAt(d) ==
  /\ chains[d] # None => BuiltOnKept(chains[d])
  /\ docFile[d] # None => BuiltOnKept(docFile[d].versions)
  /\ snapshot # None /\ snapshot.docs[d] # None => BuiltOnKept(snapshot.docs[d].versions)
  /\ \A t \in DocThreads : OnDoc(t, d) =>
       /\ docReq[t].at = "save" => BuiltOnKept(docReq[t].record.versions)
       /\ docReq[t].at = "append" /\ docReq[t].held =>
            chains[d] # None /\ NextOf(docReq[t].version, chains[d])

(* A request that no restore overlapped finds its document in memory.       *)
EnteredAt(d) ==
  \A t \in DocThreads :
    OnDoc(t, d) /\ docReq[t].at # "insert" /\ (\E k \in Keys \ docOverlaps : UsesKey(t, k)) =>
      docs[d] # None /\ chains[d] # None

Good(history) == ChainIntact(history) /\ \A i \in 1..Len(history) : history[i].number = i
GoodRecord(document, history) == Good(history) /\ document.current = Len(history)

GoodAt(d) ==
  d \notin docOverlaps =>
    /\ chains[d] # None => Good(chains[d])
    /\ docFile[d] # None => GoodRecord(docFile[d].document, docFile[d].versions)
    /\ snapshot # None /\ snapshot.docs[d] # None =>
         GoodRecord(snapshot.docs[d].document, snapshot.docs[d].versions)
    /\ docs[d] # None <=> chains[d] # None
    /\ docs[d] # None /\ (\A t \in DocThreads : OnDoc(t, d) => docReq[t].at # "set") =>
         docs[d].current = Len(chains[d])
    /\ \A t \in DocThreads : OnDoc(t, d) =>
         /\ docReq[t].at = "insert" => GoodRecord(docReq[t].document, <<docReq[t].version>>)
         /\ docReq[t].at \in {"read", "append", "set"} => docReq[t].document = docs[d]
         /\ docReq[t].at = "append" => docReq[t].held /\ Good(Append(chains[d], docReq[t].version))
         /\ docReq[t].at = "set" => docReq[t].version.number = Len(chains[d])
         /\ docReq[t].at = "save" => GoodRecord(docReq[t].record.document, docReq[t].record.versions)

SyncedAt(d) ==
  d \notin docOverlaps \cup docTroubled =>
    /\ \A t \in DocThreads : OnDoc(t, d) /\ docReq[t].at = "save" =>
         docReq[t].record.document = docs[d] /\ docReq[t].record.versions = chains[d]
    /\ (/\ ~Restoring /\ ~failedRestore
        /\ \A t \in DocThreads : OnDoc(t, d) => docReq[t].at \notin {"set", "dump", "save"}) =>
         DocumentCached(d)
    /\ restore.at = "fill_documents" => docs[d] = None /\ chains[d] = None

DocsSound ==
  \A d \in Docs : FreshAt(d) /\ BuiltAt(d) /\ EnteredAt(d) /\ GoodAt(d) /\ SyncedAt(d)

(* A document has one category, wherever it is found.                       *)
FiledUnder(d, c) == docFile[d] # None /\ docFile[d].document.category = c
Claims(d, c) ==
  \/ docs[d] # None /\ docs[d].category = c
  \/ FiledUnder(d, c)
  \/ snapshot # None /\ snapshot.docs[d] # None /\ snapshot.docs[d].document.category = c
  \/ \E t \in DocThreads : OnDoc(t, d) /\ docReq[t].at # "save" /\ docReq[t].document.category = c
  \/ \E t \in DocThreads : OnDoc(t, d) /\ docReq[t].at = "save" /\ docReq[t].record.document.category = c

(* It is stored, or about to be, and in the index.                          *)
Backed(d, c) == FiledUnder(d, c) \/ \E t \in DocThreads : OnDoc(t, d) /\ UsesKey(t, c)
Indexed(d, c) ==
  \/ index[c] = d
  \/ restore.at = "fill_documents"
  \/ \E t \in DocThreads : OnDoc(t, d) /\ UsesKey(t, c) /\ docReq[t].at = "insert"

CategoriesSound ==
  /\ \A d \in Docs : \A b, c \in Categories : Claims(d, b) /\ Claims(d, c) => b = c
  /\ \A c \in Categories \ (docOverlaps \cup docTroubled) :
       \A d \in Docs : Claims(d, c) =>
         Backed(d, c) /\ Indexed(d, c) /\ \A e \in Docs : Claims(e, c) => d = e

DocInv == DocType /\ DocAlone /\ DocsSound /\ CategoriesSound

(* Versions and their chains.                                               *)
LEMMA OneMoreVersion ==
  ASSUME NEW h \in Seq(Version), NEW v \in Version
  PROVE  Append(h, v) \in Seq(Version)
OBVIOUS

LEMMA Rehashing ==
  ASSUME NEW version \in Version, NEW g \in Seq(Contents), NEW content \in Contents,
         version.hash = Append(g, content)
  PROVE  Rehashed(version, g) = version.hash
<1>1. Len(Append(g, content)) = Len(g) + 1 /\ Append(g, content)[Len(g) + 1] = content
  OBVIOUS
<1> QED
  BY <1>1 DEF Rehashed

LEMMA FollowingVersion ==
  ASSUME NEW h \in Histories, NEW content \in Contents, NEW v, v = NextVersion(h, content)
  PROVE  /\ v \in Version /\ NextOf(v, h)
         /\ Good(h) => Good(Append(h, v))
<1>1. PICK n \in Nat : n = Len(h) /\ n > 0
  BY DEF Histories
<1>2. h \in Seq(Version) /\ h[n] \in Version
  BY <1>1 DEF Histories
<1>3. v.number = h[n].number + 1 /\ v.hash = Append(h[n].hash, content) /\ v \in Version
      /\ h[n].hash \in Seq(Contents)
  BY <1>1, <1>2 DEF NextVersion, Version
<1>4. Rehashed(v, h[n].hash) = v.hash
  BY <1>3, Rehashing
<1>5. NextOf(v, h)
  BY <1>1, <1>4 DEF NextOf
<1>6. ASSUME Good(h) PROVE Good(Append(h, v))
  <2>1. PICK g \in Seq(Version) : g = Append(h, v)
    BY <1>2, <1>3, OneMoreVersion
  <2>2. Len(g) = n + 1 /\ g[n + 1] = v /\ \A i \in 1..n : g[i] = h[i]
    BY <1>1, <1>2, <1>3, <2>1
  <2>3. ASSUME NEW i \in 1..(n + 1)
        PROVE  /\ g[i].hash = Rehashed(g[i], IF i = 1 THEN <<>> ELSE g[i - 1].hash)
               /\ g[i].number = i
    <3>1. CASE i \in 1..n
      <4>1. i # 1 => i - 1 \in 1..n
        BY <1>1, <3>1
      <4> QED
        BY <1>1, <1>6, <2>2, <3>1, <4>1 DEF Good, ChainIntact
    <3>2. CASE i = n + 1
      <4>1. i # 1 /\ i - 1 = n /\ n \in 1..n
        BY <1>1, <3>2
      <4>2. h[n].number = n
        BY <1>1, <1>6, <4>1 DEF Good
      <4> QED
        BY <1>3, <1>4, <2>2, <3>2, <4>1, <4>2
    <3> QED
      BY <1>1, <3>1, <3>2
  <2> QED
    BY <2>1, <2>2, <2>3 DEF Good, ChainIntact
<1> QED
  BY <1>3, <1>5, <1>6

LEMMA FirstOfChain ==
  ASSUME NEW content \in Contents, NEW v, v = FirstVersion(content)
  PROVE  v \in Version /\ Good(<<v>>)
<1>1. v.number = 1 /\ v.hash = <<content>> /\ v \in Version
  BY DEF FirstVersion, Version
<1>2. <<content>> = Append(<< >>, content) /\ << >> \in Seq(Contents)
  OBVIOUS
<1>3. Rehashed(v, << >>) = v.hash
  BY <1>1, <1>2, Rehashing
<1> QED
  BY <1>1, <1>3 DEF Good, ChainIntact

LEMMA OneVersionIsBuilt ==
  ASSUME NEW v \in Version
  PROVE  BuiltOnKept(<<v>>) /\ <<v>> \in Histories /\ Len(<<v>>) = 1
BY DEF BuiltOnKept, Histories

LEMMA AppendedIsBuilt ==
  ASSUME NEW h \in Histories, BuiltOnKept(h), NEW v \in Version, NextOf(v, h)
  PROVE  /\ BuiltOnKept(Append(h, v)) /\ Append(h, v) \in Histories
         /\ \A w \in Version : NextOf(w, h) => NextOf(w, Append(h, v))
<1>1. PICK n \in Nat : n = Len(h) /\ n > 0
  BY DEF Histories
<1>2. h \in Seq(Version)
  BY DEF Histories
<1>3. PICK g \in Seq(Version) : g = Append(h, v)
  BY <1>2, OneMoreVersion
<1>4. Len(g) = n + 1 /\ g[n + 1] = v /\ \A i \in 1..n : g[i] = h[i]
  BY <1>1, <1>2, <1>3
<1>5. g \in Histories
  BY <1>1, <1>4 DEF Histories
<1>6. \A j \in 1..n : j \in 1..(n + 1)
  BY <1>1
<1>7. \A w \in Version : NextOf(w, h) => NextOf(w, g)
  BY <1>1, <1>4, <1>6 DEF NextOf
<1>8. BuiltOnKept(g)
  <2> SUFFICES ASSUME NEW i \in 2..(n + 1)
               PROVE  \E j \in 1..(i - 1) : g[i].hash = Rehashed(g[i], g[j].hash)
    BY <1>4 DEF BuiltOnKept
  <2>1. CASE i \in 2..n
    <3>1. PICK j \in 1..(i - 1) : h[i].hash = Rehashed(h[i], h[j].hash)
      BY <1>1, <2>1 DEF BuiltOnKept
    <3>2. i \in 1..n /\ j \in 1..n
      BY <1>1, <2>1, <3>1
    <3> QED
      BY <1>4, <3>1, <3>2
  <2>2. CASE i = n + 1
    <3>1. PICK j \in 1..n : v.hash = Rehashed(v, h[j].hash)
      BY <1>1 DEF NextOf
    <3>2. j \in 1..(i - 1)
      BY <1>1, <2>2, <3>1
    <3> QED
      BY <1>4, <2>2, <3>1, <3>2
  <2> QED
    BY <1>1, <2>1, <2>2
<1> QED
  BY <1>3, <1>5, <1>7, <1>8

(* What a request is at tells what it holds.                                *)
LEMMA DocRequestIs ==
  ASSUME DocType, NEW t \in DocThreads
  PROVE  /\ docReq[t].at = "insert" => docReq[t] \in Insertions
         /\ docReq[t].at = "read" => docReq[t] \in Readings
         /\ docReq[t].at \in {"append", "set"} => docReq[t] \in Appendings
         /\ docReq[t].at = "dump" => docReq[t] \in Insertions \cup Appendings
         /\ docReq[t].at = "save" => docReq[t] \in Savings
         /\ docReq[t].at = "idle" <=> docReq[t] = DocIdle
         /\ docReq[t] # DocIdle => docReq[t].doc \in Docs /\ OnDoc(t, docReq[t].doc)
         /\ docReq[t] # DocIdle => docReq[t].doc \in docReq[t].keys
         /\ docReq[t].keys \in SUBSET Keys \/ docReq[t] = DocIdle
<1>1. docReq[t] \in {DocIdle} \cup Insertions \cup Readings \cup Appendings \cup Savings
  BY DEF DocType, DocRequests
<1>2. DocIdle.at = "idle"
  BY DEF DocIdle
<1>3. \A r \in Insertions : r.at \in {"insert", "dump"} /\ r.doc \in Docs /\ r.keys \in SUBSET Keys
  BY DEF Insertions
<1>4. \A r \in Readings : r.at = "read" /\ r.doc \in Docs /\ r.keys \in SUBSET Keys
  BY DEF Readings
<1>5. \A r \in Appendings : r.at \in {"append", "set", "dump"} /\ r.doc \in Docs /\ r.keys \in SUBSET Keys
  BY DEF Appendings
<1>6. \A r \in Savings : r.at = "save" /\ r.doc \in Docs /\ r.keys \in SUBSET Keys
  BY DEF Savings
<1>7. docReq[t] # DocIdle => docReq[t].doc \in docReq[t].keys
  BY DEF DocType, UsesKey
<1>8. docReq[t] # DocIdle => docReq[t].at # "idle"
  BY <1>1, <1>3, <1>4, <1>5, <1>6
<1>9. docReq[t] # DocIdle => docReq[t].doc \in Docs /\ docReq[t].keys \in SUBSET Keys
  BY <1>1, <1>3, <1>4, <1>5, <1>6
<1>10. /\ docReq[t].at = "insert" => docReq[t] \in Insertions
       /\ docReq[t].at = "read" => docReq[t] \in Readings
       /\ docReq[t].at \in {"append", "set"} => docReq[t] \in Appendings
       /\ docReq[t].at = "dump" => docReq[t] \in Insertions \cup Appendings
       /\ docReq[t].at = "save" => docReq[t] \in Savings
  BY <1>1, <1>2, <1>3, <1>4, <1>5, <1>6
<1> QED
  BY <1>2, <1>7, <1>8, <1>9, <1>10 DEF OnDoc

(* A thread that works on a document uses its id; on one without overlap it *)
(* works alone, and no restore is in progress.                              *)
LEMMA AloneOnDoc ==
  ASSUME DocType, DocAlone, NEW t \in DocThreads, NEW d \in Docs, OnDoc(t, d), d \notin docOverlaps
  PROVE  ~Restoring /\ \A u \in DocThreads : OnDoc(u, d) => u = t
<1>1. \A u \in DocThreads : OnDoc(u, d) => UsesKey(u, d)
  BY DocRequestIs DEF OnDoc, UsesKey
<1> QED
  BY <1>1 DEF DocAlone, Keys

(* How the request of one thread moves on.                                  *)
LEMMA DocMove ==
  ASSUME DocType, NEW t \in DocThreads, NEW next \in DocRequests, docReq' = [docReq EXCEPT ![t] = next]
  PROVE  /\ docReq' \in [DocThreads -> DocRequests]
         /\ \A u \in DocThreads : docReq'[u] = IF u = t THEN next ELSE docReq[u]
         /\ \A x : \A u \in DocThreads :
              OnDoc(u, x)' <=> IF u = t THEN next # DocIdle /\ next.doc = x ELSE OnDoc(u, x)
         /\ \A k : \A u \in DocThreads :
              UsesKey(u, k)' <=> IF u = t THEN next # DocIdle /\ k \in next.keys ELSE UsesKey(u, k)
<1>1. /\ docReq' \in [DocThreads -> DocRequests]
      /\ \A u \in DocThreads : docReq'[u] = IF u = t THEN next ELSE docReq[u]
  BY DEF DocType
<1> QED
  BY <1>1 DEF OnDoc, UsesKey

(* The documents a step is not about.                                       *)
Elsewhere(x, d) ==
  x # d => docs'[x] = docs[x] /\ chains'[x] = chains[x] /\ docFile'[x] = docFile[x]

LEMMA OthersKeep ==
  ASSUME DocInv, NEW t \in DocThreads, NEW d \in Docs, NEW next \in DocRequests,
         docReq[t] = DocIdle \/ docReq[t].doc = d, next = DocIdle \/ next.doc = d,
         docReq' = [docReq EXCEPT ![t] = next],
         \A x \in Docs : Elsewhere(x, d),
         docOverlaps \subseteq docOverlaps', docTroubled \subseteq docTroubled', madeDocs \subseteq madeDocs',
         UNCHANGED <<snapshot, restore, failedRestore>>
  PROVE  \A x \in Docs : x # d => FreshAt(x)' /\ BuiltAt(x)' /\ EnteredAt(x)' /\ GoodAt(x)' /\ SyncedAt(x)'
<1> SUFFICES ASSUME NEW x \in Docs, x # d
             PROVE  FreshAt(x)' /\ BuiltAt(x)' /\ EnteredAt(x)' /\ GoodAt(x)' /\ SyncedAt(x)'
  OBVIOUS
<1>1. docs'[x] = docs[x] /\ chains'[x] = chains[x] /\ docFile'[x] = docFile[x]
  BY DEF Elsewhere
<1>2. FreshAt(x) /\ BuiltAt(x) /\ EnteredAt(x) /\ GoodAt(x) /\ SyncedAt(x)
  BY DEF DocInv, DocsSound
<1>3. \A u \in DocThreads : /\ OnDoc(u, x)' <=> OnDoc(u, x)
                            /\ OnDoc(u, x) => docReq'[u] = docReq[u] /\ u # t
  BY DocMove DEF DocInv, OnDoc
<1>4. \A u \in DocThreads : u # t => \A k : UsesKey(u, k)' <=> UsesKey(u, k)
  BY DocMove DEF DocInv
<1>5. Unmade(x)' <=> Unmade(x)
  BY <1>1 DEF Unmade
<1>6. FreshAt(x)'
  BY <1>2, <1>3, <1>5 DEF FreshAt
<1>7. BuiltAt(x)'
  BY <1>1, <1>2, <1>3 DEF BuiltAt
<1>8. EnteredAt(x)'
  BY <1>1, <1>2, <1>3, <1>4 DEF EnteredAt
<1>9. GoodAt(x)'
  BY <1>1, <1>2, <1>3 DEF GoodAt
<1>10. DocumentCached(x)' <=> DocumentCached(x)
  BY <1>1 DEF DocumentCached
<1>11. SyncedAt(x)'
  BY <1>1, <1>2, <1>3, <1>10 DEF SyncedAt, Restoring
<1> QED
  BY <1>6, <1>7, <1>8, <1>9, <1>11

(* A step of a request: what is left to show of it is about its document.   *)
LEMMA MoveKeeps ==
  ASSUME DocInv, NEW t \in DocThreads, NEW d \in Docs, NEW next \in DocRequests,
         OnDoc(t, d), docReq' = [docReq EXCEPT ![t] = next],
         next = DocIdle \/ (next.doc = d /\ next.keys = docReq[t].keys /\ next.at # "insert"),
         docs' \in DocTables, chains' \in ChainTables, docFile' \in FileTables,
         index' \in [Categories -> {None} \cup Docs],
         \A x \in Docs : Elsewhere(x, d),
         docs[d] # None => docs'[d] # None, chains[d] # None => chains'[d] # None,
         docReq[t].at = "insert" => docs'[d] # None /\ chains'[d] # None,
         docTroubled \subseteq docTroubled',
         UNCHANGED <<madeDocs, docOverlaps, snapshot, restore, failedRestore>>,
         BuiltAt(d)', GoodAt(d)', SyncedAt(d)'
  PROVE  DocType' /\ DocAlone' /\ DocsSound'
<1>1. /\ docReq' \in [DocThreads -> DocRequests]
      /\ \A u \in DocThreads : docReq'[u] = IF u = t THEN next ELSE docReq[u]
      /\ \A x : \A u \in DocThreads :
           OnDoc(u, x)' <=> IF u = t THEN next # DocIdle /\ next.doc = x ELSE OnDoc(u, x)
      /\ \A k : \A u \in DocThreads :
           UsesKey(u, k)' <=> IF u = t THEN next # DocIdle /\ k \in next.keys ELSE UsesKey(u, k)
  BY DocMove DEF DocInv
<1>2. docReq[t] # DocIdle /\ docReq[t].doc = d /\ UsesKey(t, d)
  BY DocRequestIs DEF DocInv, OnDoc, UsesKey
<1>3. \A k : \A u \in DocThreads : UsesKey(u, k)' => UsesKey(u, k)
  BY <1>1, <1>2 DEF UsesKey
<1>4. \A u \in DocThreads :
        /\ docReq'[u] # DocIdle => docReq'[u].doc \in docReq'[u].keys
        /\ docReq'[u].at = "insert" => docReq'[u] # DocIdle /\ docReq'[u].document.category \in docReq'[u].keys
  <2> SUFFICES ASSUME NEW u \in DocThreads
               PROVE  /\ docReq'[u] # DocIdle => docReq'[u].doc \in docReq'[u].keys
                      /\ docReq'[u].at = "insert" =>
                           docReq'[u] # DocIdle /\ docReq'[u].document.category \in docReq'[u].keys
    OBVIOUS
  <2>1. CASE u = t
    BY <1>1, <1>2, <2>1 DEF UsesKey, DocIdle
  <2>2. CASE u # t
    <3>1. docReq'[u] = docReq[u]
      BY <1>1, <2>2
    <3>2. /\ docReq[u] # DocIdle => UsesKey(u, docReq[u].doc)
          /\ docReq[u].at = "insert" => UsesKey(u, docReq[u].document.category)
      BY DEF DocInv, DocType
    <3> QED
      BY <3>1, <3>2 DEF UsesKey
  <2> QED
    BY <2>1, <2>2
<1>5. DocType'
  <2>1. docs' \in DocTables /\ chains' \in ChainTables /\ docFile' \in FileTables /\ madeDocs' \in SUBSET Docs
    BY DEF DocInv, DocType
  <2>2. /\ snapshot' # None => snapshot'.docs \in FileTables
        /\ restore'.at = "objects" => snapshot' # None
        /\ restore'.at = "documents" =>
             snapshot' # None /\ \A x \in restore'.todo : x \in Docs /\ snapshot'.docs[x] # None
        /\ RestoreWellFormed'
    BY DEF DocInv, DocType, RestoreWellFormed
  <2> QED
    BY <1>1, <1>4, <2>1, <2>2 DEF DocType, UsesKey
<1>6. DocAlone'
  BY <1>3 DEF DocInv, DocAlone, Restoring
<1>7. FreshAt(d) /\ EnteredAt(d)
  BY DEF DocInv, DocsSound
<1>8. d \in madeDocs /\ \A u \in DocThreads : OnDoc(u, d) /\ docReq[u].at = "insert" => u = t
  BY <1>7 DEF FreshAt
<1>9. \A u \in DocThreads : OnDoc(u, d)' => OnDoc(u, d) /\ docReq'[u].at # "insert"
  BY <1>1, <1>2, <1>8 DEF OnDoc, DocIdle
<1>10. FreshAt(d)'
  BY <1>8, <1>9 DEF FreshAt
<1>11. EnteredAt(d)'
  <2> SUFFICES ASSUME NEW u \in DocThreads, OnDoc(u, d)', NEW k \in Keys \ docOverlaps, UsesKey(u, k)'
               PROVE  docs'[d] # None /\ chains'[d] # None
    BY DEF EnteredAt
  <2>1. OnDoc(u, d) /\ UsesKey(u, k)
    BY <1>3, <1>9
  <2> QED
    BY <1>7, <1>8, <2>1 DEF EnteredAt
<1>12. \A x \in Docs : x # d => FreshAt(x)' /\ BuiltAt(x)' /\ EnteredAt(x)' /\ GoodAt(x)' /\ SyncedAt(x)'
  BY <1>2, OthersKeep
<1>13. DocsSound'
  BY <1>10, <1>11, <1>12 DEF DocsSound
<1> QED
  BY <1>5, <1>6, <1>13

(* Categories are sound after a step that makes no claim: it must leave     *)
(* those of its document stored and indexed.                                *)
LEMMA CategoriesKept ==
  ASSUME CategoriesSound,
         docOverlaps \subseteq docOverlaps', docTroubled \subseteq docTroubled',
         \A x \in Docs, c \in Categories : Claims(x, c)' => Claims(x, c),
         \A x \in Docs, c \in Categories : Claims(x, c)' /\ c \notin docOverlaps' \cup docTroubled' =>
           Backed(x, c)' /\ Indexed(x, c)'
  PROVE  CategoriesSound'
BY DEF CategoriesSound

LEMMA MoveKeepsCategories ==
  ASSUME DocInv, NEW t \in DocThreads, NEW d \in Docs, NEW next \in DocRequests,
         OnDoc(t, d), docReq' = [docReq EXCEPT ![t] = next],
         next = DocIdle \/ (next.doc = d /\ next.keys = docReq[t].keys),
         \A x \in Docs : Elsewhere(x, d),
         docTroubled \subseteq docTroubled',
         UNCHANGED <<docOverlaps, snapshot, restore>>,
         \A c \in Categories : index'[c] = index[c] \/ (index'[c] = d /\ Claims(d, c)),
         \A c \in Categories : Claims(d, c)' => Claims(d, c),
         \A c \in Categories : Claims(d, c)' /\ c \notin docOverlaps \cup docTroubled' =>
           Backed(d, c)' /\ Indexed(d, c)'
  PROVE  CategoriesSound'
<1>1. /\ \A u \in DocThreads : docReq'[u] = IF u = t THEN next ELSE docReq[u]
      /\ \A x : \A u \in DocThreads :
           OnDoc(u, x)' <=> IF u = t THEN next # DocIdle /\ next.doc = x ELSE OnDoc(u, x)
      /\ \A k : \A u \in DocThreads :
           UsesKey(u, k)' <=> IF u = t THEN next # DocIdle /\ k \in next.keys ELSE UsesKey(u, k)
  BY DocMove DEF DocInv
<1>2. ASSUME NEW x \in Docs, x # d, NEW c \in Categories
      PROVE  /\ Claims(x, c)' => Claims(x, c)
             /\ Claims(x, c)' /\ c \notin docOverlaps \cup docTroubled' => Backed(x, c)' /\ Indexed(x, c)'
  <2>1. \A u \in DocThreads : /\ OnDoc(u, x)' <=> OnDoc(u, x)
                              /\ OnDoc(u, x) => docReq'[u] = docReq[u] /\ u # t
    BY <1>1, <1>2 DEF OnDoc
  <2>2. docs'[x] = docs[x] /\ docFile'[x] = docFile[x]
    BY <1>2 DEF Elsewhere
  <2>3. FiledUnder(x, c)' <=> FiledUnder(x, c)
    BY <2>2 DEF FiledUnder
  <2>4. Claims(x, c)' <=> Claims(x, c)
    BY <2>1, <2>2, <2>3 DEF Claims
  <2>5. ASSUME Claims(x, c), c \notin docOverlaps \cup docTroubled' PROVE Backed(x, c)' /\ Indexed(x, c)'
    <3>1. Backed(x, c) /\ Indexed(x, c) /\ \A e \in Docs : Claims(e, c) => x = e
      BY <2>5 DEF DocInv, CategoriesSound
    <3>2. index'[c] = index[c]
      BY <1>2, <3>1
    <3>3. Backed(x, c)'
      BY <1>1, <2>1, <2>3, <3>1 DEF Backed
    <3>4. Indexed(x, c)'
      BY <1>1, <2>1, <3>1, <3>2 DEF Indexed
    <3> QED
      BY <3>3, <3>4
  <2> QED
    BY <2>4, <2>5
<1>3. \A x \in Docs, c \in Categories : Claims(x, c)' => Claims(x, c)
  BY <1>2
<1>4. \A x \in Docs, c \in Categories : Claims(x, c)' /\ c \notin docOverlaps' \cup docTroubled' =>
        Backed(x, c)' /\ Indexed(x, c)'
  BY <1>2
<1> QED
  BY <1>3, <1>4, CategoriesKept DEF DocInv

LEMMA InsertDocumentKeeps ==
  ASSUME DocInv, NEW t \in DocThreads, InsertDocument(t), UNCHANGED <<snapshot, restore, failedRestore>>
  PROVE  DocInv'
<1>1. PICK old : old = docReq[t]
  OBVIOUS
<1>2. /\ old \in Insertions /\ old.at = "insert" /\ old # DocIdle /\ docReq[t] = old /\ OnDoc(t, old.doc)
      /\ old.doc \in old.keys
  BY <1>1, DocRequestIs DEF InsertDocument, DocInv, DocIdle
<1>3. PICK next : next = [old EXCEPT !.at = "dump"]
  OBVIOUS
<1>4. /\ next \in DocRequests /\ next.at = "dump" /\ next.doc = old.doc /\ next.keys = old.keys
      /\ next.document = old.document /\ next # DocIdle
      /\ old.document \in Document /\ old.version \in Version /\ old.document.category \in Categories
  BY <1>2, <1>3 DEF Insertions, DocRequests, DocIdle, Document
<1>5. PICK d \in Docs : d = old.doc
  BY <1>2 DEF Insertions
<1>6. /\ docReq' = [docReq EXCEPT ![t] = next] /\ docs' = [docs EXCEPT ![d] = old.document]
      /\ chains' = [chains EXCEPT ![d] = <<old.version>>] /\ index' = [index EXCEPT ![old.document.category] = d]
      /\ UNCHANGED <<docFile, madeDocs, docOverlaps, docTroubled>>
  BY <1>1, <1>3, <1>5 DEF InsertDocument
<1>7. /\ \A u \in DocThreads : docReq'[u] = IF u = t THEN next ELSE docReq[u]
      /\ \A x : \A u \in DocThreads :
           OnDoc(u, x)' <=> IF u = t THEN next # DocIdle /\ next.doc = x ELSE OnDoc(u, x)
      /\ \A k : \A u \in DocThreads :
           UsesKey(u, k)' <=> IF u = t THEN next # DocIdle /\ k \in next.keys ELSE UsesKey(u, k)
  BY <1>4, <1>6, DocMove DEF DocInv
<1>8. BuiltOnKept(<<old.version>>) /\ <<old.version>> \in Histories /\ Len(<<old.version>>) = 1
  BY <1>4, OneVersionIsBuilt
<1>9. /\ docs' \in DocTables /\ chains' \in ChainTables /\ docFile' \in FileTables
      /\ index' \in [Categories -> {None} \cup Docs]
      /\ docs'[d] = old.document /\ chains'[d] = <<old.version>>
      /\ \A c \in Categories : index'[c] = IF c = old.document.category THEN d ELSE index[c]
  BY <1>4, <1>6, <1>8 DEF DocInv, DocType, DocTables, ChainTables
<1>10. \A x \in Docs : Elsewhere(x, d)
  BY <1>6 DEF Elsewhere, DocInv, DocType, DocTables, ChainTables
<1>11. <<old.version>> # None /\ old.document # None
  BY <1>4, <1>8, NoneIsNoDocument DEF Histories
<1>12. Unmade(d) /\ \A u \in DocThreads : OnDoc(u, d) => u = t
  BY <1>2, <1>5 DEF DocInv, DocsSound, FreshAt
<1>13. OnDoc(t, d)' /\ \A u \in DocThreads : OnDoc(u, d)' => u = t
  BY <1>4, <1>5, <1>7, <1>12
<1>14. BuiltAt(d)'
  BY <1>4, <1>6, <1>7, <1>8, <1>9, <1>12, <1>13 DEF BuiltAt, Unmade
<1>15. GoodAt(d)'
  <2> SUFFICES ASSUME d \notin docOverlaps PROVE GoodAt(d)'
    BY <1>6 DEF GoodAt
  <2>1. GoodRecord(old.document, <<old.version>>)
    BY <1>2, <1>5 DEF DocInv, DocsSound, GoodAt
  <2> QED
    BY <2>1, <1>4, <1>6, <1>7, <1>8, <1>9, <1>11, <1>12, <1>13 DEF GoodAt, Unmade, GoodRecord
<1>16. SyncedAt(d)'
  <2> SUFFICES ASSUME d \notin docOverlaps PROVE SyncedAt(d)'
    BY <1>6 DEF SyncedAt
  <2>1. restore.at # "fill_documents"
    BY <1>2, <1>5, AloneOnDoc DEF DocInv, Restoring, NoRestore
  <2> QED
    BY <2>1, <1>4, <1>7, <1>13 DEF SyncedAt
<1>17. DocType' /\ DocAlone' /\ DocsSound'
  BY <1>2, <1>4, <1>5, <1>6, <1>9, <1>10, <1>11, <1>14, <1>15, <1>16, MoveKeeps
<1>18. Claims(d, old.document.category)
  BY <1>2, <1>4, <1>5 DEF Claims
<1>19. \A c \in Categories : Claims(d, c)' => c = old.document.category
  BY <1>4, <1>6, <1>7, <1>9, <1>12, <1>13 DEF Claims, FiledUnder, Unmade
<1>20. UsesKey(t, old.document.category)'
  BY <1>2, <1>4, <1>7 DEF DocInv, DocType, UsesKey
<1>21. \A c \in Categories : Claims(d, c)' => Backed(d, c)' /\ Indexed(d, c)'
  BY <1>9, <1>13, <1>19, <1>20 DEF Backed, Indexed
<1>22. CategoriesSound'
  BY <1>2, <1>4, <1>5, <1>6, <1>9, <1>10, <1>18, <1>19, <1>21, MoveKeepsCategories
<1> QED
  BY <1>17, <1>22 DEF DocInv

LEMMA ReadLastKeeps ==
  ASSUME DocInv, NEW t \in DocThreads, NEW content \in Contents, ReadLast(t, content),
         UNCHANGED <<snapshot, restore, failedRestore>>
  PROVE  DocInv'
<1>1. PICK old : old = docReq[t]
  OBVIOUS
<1>2. /\ old \in Readings /\ old.at = "read" /\ old # DocIdle /\ docReq[t] = old /\ OnDoc(t, old.doc)
      /\ old.doc \in old.keys
  BY <1>1, DocRequestIs DEF ReadLast, DocInv, DocIdle
<1>3. PICK d \in Docs : d = old.doc
  BY <1>2 DEF Readings
<1>4. chains[d] # None /\ chains[d] \in Histories
  BY <1>1, <1>3 DEF ReadLast, DocInv, DocType, ChainTables
<1>5. PICK v : v = NextVersion(chains[d], content)
  OBVIOUS
<1>6. v \in Version /\ NextOf(v, chains[d]) /\ (Good(chains[d]) => Good(Append(chains[d], v)))
  BY <1>4, <1>5, FollowingVersion
<1>7. PICK next : next = [at |-> "append", doc |-> d, keys |-> old.keys, document |-> old.document,
                          version |-> v, held |-> TRUE]
  OBVIOUS
<1>8. /\ next \in DocRequests /\ next.at = "append" /\ next.doc = d /\ next.keys = old.keys
      /\ next.document = old.document /\ next.version = v /\ next.held = TRUE /\ next # DocIdle
  BY <1>2, <1>6, <1>7 DEF Readings, Appendings, DocRequests, DocIdle
<1>9. /\ docReq' = [docReq EXCEPT ![t] = next]
      /\ UNCHANGED <<docs, chains, index, docFile, madeDocs, docOverlaps, docTroubled>>
  BY <1>1, <1>3, <1>5, <1>7 DEF ReadLast, DocInv, DocType
<1>10. /\ \A u \in DocThreads : docReq'[u] = IF u = t THEN next ELSE docReq[u]
       /\ \A x : \A u \in DocThreads :
            OnDoc(u, x)' <=> IF u = t THEN next # DocIdle /\ next.doc = x ELSE OnDoc(u, x)
       /\ \A k : \A u \in DocThreads :
            UsesKey(u, k)' <=> IF u = t THEN next # DocIdle /\ k \in next.keys ELSE UsesKey(u, k)
  BY <1>8, <1>9, DocMove DEF DocInv
<1>11. \A u \in DocThreads : OnDoc(u, d)' <=> OnDoc(u, d)
  BY <1>2, <1>3, <1>8, <1>10
<1>12. BuiltAt(d) /\ GoodAt(d) /\ SyncedAt(d)
  BY DEF DocInv, DocsSound
<1>13. BuiltAt(d)'
  BY <1>4, <1>6, <1>8, <1>9, <1>10, <1>11, <1>12 DEF BuiltAt
<1>14. GoodAt(d)'
  <2> SUFFICES ASSUME d \notin docOverlaps PROVE GoodAt(d)'
    BY <1>9 DEF GoodAt
  <2>1. OnDoc(t, d) /\ \A u \in DocThreads : OnDoc(u, d) => u = t
    BY <1>2, <1>3, AloneOnDoc DEF DocInv
  <2>2. /\ Good(chains[d]) /\ (docs[d] # None <=> chains[d] # None) /\ old.document = docs[d]
        /\ docs[d] # None => docs[d].current = Len(chains[d])
    BY <1>2, <1>4, <1>12, <2>1 DEF GoodAt
  <2> QED
    BY <1>6, <1>8, <1>9, <1>10, <1>11, <1>12, <2>1, <2>2 DEF GoodAt
<1>15. DocumentCached(d)' <=> DocumentCached(d)
  BY <1>9 DEF DocumentCached
<1>16. SyncedAt(d)'
  BY <1>2, <1>8, <1>9, <1>10, <1>11, <1>12, <1>15 DEF SyncedAt, Restoring
<1>17. /\ docs \in DocTables /\ chains \in ChainTables /\ docFile \in FileTables
       /\ index \in [Categories -> {None} \cup Docs] /\ \A x \in Docs : Elsewhere(x, d)
  BY <1>9 DEF DocInv, DocType, Elsewhere
<1>18. DocType' /\ DocAlone' /\ DocsSound'
  BY <1>2, <1>3, <1>8, <1>9, <1>13, <1>14, <1>16, <1>17, MoveKeeps
<1>19. \A c \in Categories : Claims(d, c)' => Claims(d, c)
  BY <1>2, <1>8, <1>9, <1>10, <1>11 DEF Claims, FiledUnder
<1>20. \A c \in Categories : Backed(d, c) /\ Indexed(d, c) => Backed(d, c)' /\ Indexed(d, c)'
  BY <1>2, <1>3, <1>8, <1>9, <1>10, <1>11 DEF Backed, Indexed, FiledUnder, UsesKey
<1>21. \A c \in Categories : Claims(d, c)' /\ c \notin docOverlaps \cup docTroubled' =>
         Backed(d, c)' /\ Indexed(d, c)'
  BY <1>9, <1>19, <1>20 DEF DocInv, CategoriesSound
<1>22. CategoriesSound'
  BY <1>2, <1>3, <1>8, <1>9, <1>17, <1>19, <1>21, MoveKeepsCategories
<1> QED
  BY <1>18, <1>22 DEF DocInv

LEMMA LastOfAppended ==
  ASSUME NEW h \in Histories, NEW v \in Version, Good(Append(h, v))
  PROVE  v.number = Len(Append(h, v))
<1>1. PICK n \in Nat : n = Len(h)
  BY DEF Histories
<1>2. PICK g \in Seq(Version) : g = Append(h, v)
  BY OneMoreVersion DEF Histories
<1>3. Len(g) = n + 1 /\ g[n + 1] = v /\ n + 1 \in 1..(n + 1)
  BY <1>1, <1>2 DEF Histories
<1> QED
  BY <1>2, <1>3 DEF Good

LEMMA AppendVersionKeeps ==
  ASSUME DocInv, NEW t \in DocThreads, AppendVersion(t), UNCHANGED <<snapshot, restore, failedRestore>>
  PROVE  DocInv'
<1>1. PICK old : old = docReq[t]
  OBVIOUS
<1>2. /\ old \in Appendings /\ old.at = "append" /\ old # DocIdle /\ docReq[t] = old /\ OnDoc(t, old.doc)
      /\ old.doc \in old.keys
  BY <1>1, DocRequestIs DEF AppendVersion, DocInv, DocIdle
<1>3. PICK d \in Docs : d = old.doc
  BY <1>2 DEF Appendings
<1>4. PICK next : next = [old EXCEPT !.at = "set"]
  OBVIOUS
<1>5. /\ next \in DocRequests /\ next.at = "set" /\ next.doc = d /\ next.keys = old.keys
      /\ next.document = old.document /\ next.version = old.version /\ next # DocIdle
      /\ old.version \in Version
  BY <1>2, <1>3, <1>4 DEF Appendings, DocRequests, DocIdle
<1>6. PICK h : h = IF old.held THEN Append(chains[d], old.version) ELSE chains[d]
  OBVIOUS
<1>7. docReq' = [docReq EXCEPT ![t] = next] /\ UNCHANGED <<docs, index, docFile, madeDocs, docOverlaps, docTroubled>>
  BY <1>1, <1>4 DEF AppendVersion
<1>8. chains \in ChainTables /\ chains[d] \in {None} \cup Histories
  BY DEF DocInv, DocType, ChainTables
<1>9. chains' = [chains EXCEPT ![d] = h]
  <2>1. chains' = IF old.held THEN [chains EXCEPT ![d] = Append(chains[d], old.version)] ELSE chains
    BY <1>1, <1>3 DEF AppendVersion, Appended
  <2>2. chains = [chains EXCEPT ![d] = chains[d]]
    BY <1>8 DEF ChainTables
  <2> QED
    BY <2>1, <2>2, <1>6
<1>10. BuiltAt(d) /\ GoodAt(d) /\ SyncedAt(d)
  BY DEF DocInv, DocsSound
<1>11. old.held => chains[d] # None /\ NextOf(old.version, chains[d])
  BY <1>2, <1>3, <1>10 DEF BuiltAt
<1>12. /\ h \in {None} \cup Histories /\ (chains[d] # None => h # None) /\ (h # None => BuiltOnKept(h))
       /\ chains[d] # None => \A w \in Version : NextOf(w, chains[d]) => NextOf(w, h)
       /\ chains[d] = None => h = None
  <2>1. CASE old.held
    <3>1. chains[d] \in Histories /\ BuiltOnKept(chains[d]) /\ NextOf(old.version, chains[d])
      BY <1>8, <1>10, <1>11, <2>1 DEF BuiltAt
    <3>2. h = Append(chains[d], old.version)
      BY <1>6, <2>1
    <3>3. h \in Histories /\ BuiltOnKept(h) /\ \A w \in Version : NextOf(w, chains[d]) => NextOf(w, h)
      BY <1>5, <3>1, <3>2, AppendedIsBuilt
    <3>4. h # None
      BY <3>3, NoneIsNoDocument DEF Histories
    <3> QED
      BY <1>11, <2>1, <3>3, <3>4
  <2>2. CASE ~old.held
    BY <1>6, <1>8, <1>10, <2>2 DEF BuiltAt
  <2> QED
    BY <2>1, <2>2
<1>13. /\ \A u \in DocThreads : docReq'[u] = IF u = t THEN next ELSE docReq[u]
       /\ \A x : \A u \in DocThreads :
            OnDoc(u, x)' <=> IF u = t THEN next # DocIdle /\ next.doc = x ELSE OnDoc(u, x)
       /\ \A k : \A u \in DocThreads :
            UsesKey(u, k)' <=> IF u = t THEN next # DocIdle /\ k \in next.keys ELSE UsesKey(u, k)
  BY <1>5, <1>7, DocMove DEF DocInv
<1>14. OnDoc(t, d) /\ \A u \in DocThreads : OnDoc(u, d)' <=> OnDoc(u, d)
  BY <1>2, <1>3, <1>5, <1>13
<1>15. chains' \in ChainTables /\ chains'[d] = h /\ \A x \in Docs : Elsewhere(x, d)
  BY <1>7, <1>8, <1>9, <1>12 DEF ChainTables, Elsewhere
<1>16. BuiltAt(d)'
  <2> SUFFICES ASSUME NEW u \in DocThreads, OnDoc(u, d)
               PROVE  /\ docReq'[u].at = "save" => BuiltOnKept(docReq'[u].record.versions)
                      /\ docReq'[u].at = "append" /\ docReq'[u].held => h # None /\ NextOf(docReq'[u].version, h)
    BY <1>7, <1>10, <1>12, <1>14, <1>15 DEF BuiltAt
  <2>1. docReq[u].at = "append" => docReq[u].version \in Version
    BY DocRequestIs DEF DocInv, Appendings
  <2> QED
    BY <1>5, <1>10, <1>12, <1>13, <2>1 DEF BuiltAt
<1>17. ASSUME d \notin docOverlaps
       PROVE  ~Restoring /\ \A u \in DocThreads : OnDoc(u, d) => u = t
  BY <1>14, <1>17, AloneOnDoc DEF DocInv
<1>18. GoodAt(d)'
  <2> SUFFICES ASSUME d \notin docOverlaps PROVE GoodAt(d)'
    BY <1>7 DEF GoodAt
  <2>1. old.held /\ Good(Append(chains[d], old.version)) /\ old.document = docs[d]
    BY <1>2, <1>3, <1>10 DEF GoodAt
  <2>2. chains[d] # None /\ docs[d] # None /\ h = Append(chains[d], old.version) /\ h # None
    BY <1>6, <1>10, <1>11, <1>12, <2>1 DEF GoodAt
  <2>3. old.version.number = Len(h)
    BY <1>5, <1>8, <2>1, <2>2, LastOfAppended
  <2> QED
    BY <1>5, <1>7, <1>10, <1>13, <1>14, <1>15, <1>17, <2>1, <2>2, <2>3 DEF GoodAt
<1>19. SyncedAt(d)'
  <2> SUFFICES ASSUME d \notin docOverlaps PROVE SyncedAt(d)'
    BY <1>7 DEF SyncedAt
  <2>1. restore.at # "fill_documents"
    BY <1>17 DEF Restoring, NoRestore
  <2> QED
    BY <2>1, <1>5, <1>13, <1>14, <1>17 DEF SyncedAt
<1>20. docs \in DocTables /\ docFile \in FileTables /\ index \in [Categories -> {None} \cup Docs]
  BY DEF DocInv, DocType
<1>21. DocType' /\ DocAlone' /\ DocsSound'
  BY <1>2, <1>5, <1>7, <1>12, <1>14, <1>15, <1>16, <1>18, <1>19, <1>20, MoveKeeps
<1>22. \A c \in Categories : Claims(d, c)' => Claims(d, c)
  BY <1>2, <1>5, <1>7, <1>13, <1>14 DEF Claims, FiledUnder
<1>23. \A c \in Categories : Backed(d, c) /\ Indexed(d, c) => Backed(d, c)' /\ Indexed(d, c)'
  BY <1>2, <1>5, <1>7, <1>13, <1>14 DEF Backed, Indexed, FiledUnder, UsesKey
<1>24. \A c \in Categories : Claims(d, c)' /\ c \notin docOverlaps \cup docTroubled' =>
         Backed(d, c)' /\ Indexed(d, c)'
  BY <1>7, <1>22, <1>23 DEF DocInv, CategoriesSound
<1>25. CategoriesSound'
  BY <1>2, <1>5, <1>7, <1>14, <1>15, <1>22, <1>24, MoveKeepsCategories
<1> QED
  BY <1>21, <1>25 DEF DocInv

LEMMA SetDocumentKeeps ==
  ASSUME DocInv, NEW t \in DocThreads, SetDocument(t), UNCHANGED <<snapshot, restore, failedRestore>>
  PROVE  DocInv'
<1>1. PICK old : old = docReq[t]
  OBVIOUS
<1>2. /\ old \in Appendings /\ old.at = "set" /\ old # DocIdle /\ docReq[t] = old /\ OnDoc(t, old.doc)
      /\ old.doc \in old.keys
  BY <1>1, DocRequestIs DEF SetDocument, DocInv, DocIdle
<1>3. PICK d \in Docs : d = old.doc
  BY <1>2 DEF Appendings
<1>4. PICK next : next = [old EXCEPT !.at = "dump"]
  OBVIOUS
<1>5. /\ next \in DocRequests /\ next.at = "dump" /\ next.doc = d /\ next.keys = old.keys
      /\ next.document = old.document /\ next # DocIdle
      /\ old.version \in Version /\ old.document \in Document
  BY <1>2, <1>3, <1>4 DEF Appendings, DocRequests, DocIdle
<1>6. PICK new : new = Updated(old)
  OBVIOUS
<1>7. new \in Document /\ new.category = old.document.category /\ new.current = old.version.number
  BY <1>5, <1>6 DEF Updated, Document, Version
<1>8. /\ docReq' = [docReq EXCEPT ![t] = next] /\ docs' = [docs EXCEPT ![d] = new]
      /\ UNCHANGED <<chains, index, docFile, madeDocs, docOverlaps, docTroubled>>
  BY <1>1, <1>3, <1>4, <1>6 DEF SetDocument
<1>9. /\ \A u \in DocThreads : docReq'[u] = IF u = t THEN next ELSE docReq[u]
      /\ \A x : \A u \in DocThreads :
           OnDoc(u, x)' <=> IF u = t THEN next # DocIdle /\ next.doc = x ELSE OnDoc(u, x)
      /\ \A k : \A u \in DocThreads :
           UsesKey(u, k)' <=> IF u = t THEN next # DocIdle /\ k \in next.keys ELSE UsesKey(u, k)
  BY <1>5, <1>8, DocMove DEF DocInv
<1>10. OnDoc(t, d) /\ \A u \in DocThreads : OnDoc(u, d)' <=> OnDoc(u, d)
  BY <1>2, <1>3, <1>5, <1>9
<1>11. docs' \in DocTables /\ docs'[d] = new /\ new # None /\ \A x \in Docs : Elsewhere(x, d)
  BY <1>7, <1>8, NoneIsNoDocument DEF DocInv, DocType, DocTables, Elsewhere
<1>12. BuiltAt(d) /\ GoodAt(d) /\ SyncedAt(d)
  BY DEF DocInv, DocsSound
<1>13. BuiltAt(d)'
  BY <1>5, <1>8, <1>9, <1>10, <1>12 DEF BuiltAt
<1>14. ASSUME d \notin docOverlaps
       PROVE  ~Restoring /\ \A u \in DocThreads : OnDoc(u, d) => u = t
  BY <1>10, <1>14, AloneOnDoc DEF DocInv
<1>15. GoodAt(d)'
  <2> SUFFICES ASSUME d \notin docOverlaps PROVE GoodAt(d)'
    BY <1>8 DEF GoodAt
  <2>1. old.document = docs[d] /\ old.version.number = Len(chains[d])
    BY <1>2, <1>3, <1>12 DEF GoodAt
  <2>2. docs[d] # None /\ chains[d] # None
    BY <1>5, <1>12, <2>1, NoneIsNoDocument DEF GoodAt
  <2> QED
    BY <1>5, <1>7, <1>8, <1>9, <1>10, <1>11, <1>12, <1>14, <2>1, <2>2 DEF GoodAt
<1>16. SyncedAt(d)'
  <2> SUFFICES ASSUME d \notin docOverlaps PROVE SyncedAt(d)'
    BY <1>8 DEF SyncedAt
  <2>1. restore.at # "fill_documents"
    BY <1>14 DEF Restoring, NoRestore
  <2> QED
    BY <2>1, <1>5, <1>9, <1>10, <1>14 DEF SyncedAt
<1>17. chains \in ChainTables /\ docFile \in FileTables /\ index \in [Categories -> {None} \cup Docs]
  BY DEF DocInv, DocType
<1>18. DocType' /\ DocAlone' /\ DocsSound'
  BY <1>2, <1>5, <1>8, <1>10, <1>11, <1>13, <1>15, <1>16, <1>17, MoveKeeps
<1>19. Claims(d, new.category)
  BY <1>2, <1>7, <1>10 DEF Claims
<1>20. \A c \in Categories : Claims(d, c)' => Claims(d, c)
  BY <1>2, <1>5, <1>8, <1>9, <1>10, <1>11, <1>19 DEF Claims, FiledUnder
<1>21. \A c \in Categories : Backed(d, c) /\ Indexed(d, c) => Backed(d, c)' /\ Indexed(d, c)'
  BY <1>2, <1>5, <1>8, <1>9, <1>10 DEF Backed, Indexed, FiledUnder, UsesKey
<1>22. \A c \in Categories : Claims(d, c)' /\ c \notin docOverlaps \cup docTroubled' =>
         Backed(d, c)' /\ Indexed(d, c)'
  BY <1>8, <1>20, <1>21 DEF DocInv, CategoriesSound
<1>23. CategoriesSound'
  BY <1>2, <1>5, <1>8, <1>10, <1>11, <1>20, <1>22, MoveKeepsCategories
<1> QED
  BY <1>18, <1>23 DEF DocInv

LEMMA DumpDocumentKeeps ==
  ASSUME DocInv, NEW t \in DocThreads, DumpDocument(t), UNCHANGED <<snapshot, restore, failedRestore>>
  PROVE  DocInv'
<1>1. PICK old : old = docReq[t]
  OBVIOUS
<1>2. /\ old \in Insertions \cup Appendings /\ old.at = "dump" /\ old # DocIdle /\ docReq[t] = old
      /\ OnDoc(t, old.doc) /\ old.doc \in old.keys
  BY <1>1, DocRequestIs DEF DumpDocument, DocInv, DocIdle
<1>3. PICK d \in Docs : d = old.doc
  BY <1>2 DEF Insertions, Appendings
<1>4. docs[d] \in Document /\ chains[d] \in Histories /\ docs[d] # None /\ chains[d] # None
  BY <1>1, <1>3 DEF DumpDocument, DocInv, DocType, DocTables, ChainTables
<1>5. PICK record : record = [document |-> docs[d], versions |-> chains[d]]
  OBVIOUS
<1>6. record \in Filed /\ record.document = docs[d] /\ record.versions = chains[d]
  BY <1>4, <1>5 DEF Filed, DocRecord, Histories
<1>7. PICK next : next = [at |-> "save", doc |-> d, keys |-> old.keys, record |-> record]
  OBVIOUS
<1>8. /\ next \in DocRequests /\ next.at = "save" /\ next.doc = d /\ next.keys = old.keys
      /\ next.record = record /\ next # DocIdle
  BY <1>2, <1>6, <1>7 DEF Insertions, Appendings, Savings, DocRequests, DocIdle
<1>9. /\ docReq' = [docReq EXCEPT ![t] = next]
      /\ UNCHANGED <<docs, chains, index, docFile, madeDocs, docOverlaps, docTroubled>>
  BY <1>1, <1>3, <1>5, <1>7 DEF DumpDocument, DocInv, DocType
<1>10. /\ \A u \in DocThreads : docReq'[u] = IF u = t THEN next ELSE docReq[u]
       /\ \A x : \A u \in DocThreads :
            OnDoc(u, x)' <=> IF u = t THEN next # DocIdle /\ next.doc = x ELSE OnDoc(u, x)
       /\ \A k : \A u \in DocThreads :
            UsesKey(u, k)' <=> IF u = t THEN next # DocIdle /\ k \in next.keys ELSE UsesKey(u, k)
  BY <1>8, <1>9, DocMove DEF DocInv
<1>11. OnDoc(t, d) /\ \A u \in DocThreads : OnDoc(u, d)' <=> OnDoc(u, d)
  BY <1>2, <1>3, <1>8, <1>10
<1>12. BuiltAt(d) /\ GoodAt(d) /\ SyncedAt(d)
  BY DEF DocInv, DocsSound
<1>13. BuiltAt(d)'
  BY <1>4, <1>6, <1>8, <1>9, <1>10, <1>11, <1>12 DEF BuiltAt
<1>14. ASSUME d \notin docOverlaps
       PROVE  ~Restoring /\ \A u \in DocThreads : OnDoc(u, d) => u = t
  BY <1>11, <1>14, AloneOnDoc DEF DocInv
<1>15. GoodAt(d)'
  <2> SUFFICES ASSUME d \notin docOverlaps PROVE GoodAt(d)'
    BY <1>9 DEF GoodAt
  <2>1. Good(chains[d]) /\ docs[d].current = Len(chains[d])
    BY <1>2, <1>4, <1>12, <1>14 DEF GoodAt
  <2> QED
    BY <1>4, <1>6, <1>8, <1>9, <1>10, <1>11, <1>12, <1>14, <2>1 DEF GoodAt, GoodRecord
<1>16. SyncedAt(d)'
  <2> SUFFICES ASSUME d \notin docOverlaps PROVE SyncedAt(d)'
    BY <1>9 DEF SyncedAt
  <2>1. restore.at # "fill_documents"
    BY <1>14 DEF Restoring, NoRestore
  <2> QED
    BY <2>1, <1>6, <1>8, <1>9, <1>10, <1>11, <1>14 DEF SyncedAt
<1>17. /\ docs \in DocTables /\ chains \in ChainTables /\ docFile \in FileTables
       /\ index \in [Categories -> {None} \cup Docs] /\ \A x \in Docs : Elsewhere(x, d)
  BY <1>9 DEF DocInv, DocType, Elsewhere
<1>18. DocType' /\ DocAlone' /\ DocsSound'
  BY <1>2, <1>8, <1>9, <1>11, <1>13, <1>15, <1>16, <1>17, MoveKeeps
<1>19. \A c \in Categories : Claims(d, c)' => Claims(d, c)
  BY <1>4, <1>6, <1>8, <1>9, <1>10, <1>11 DEF Claims, FiledUnder
<1>20. \A c \in Categories : Backed(d, c) /\ Indexed(d, c) => Backed(d, c)' /\ Indexed(d, c)'
  BY <1>2, <1>8, <1>9, <1>10, <1>11 DEF Backed, Indexed, FiledUnder, UsesKey
<1>21. \A c \in Categories : Claims(d, c)' /\ c \notin docOverlaps \cup docTroubled' =>
         Backed(d, c)' /\ Indexed(d, c)'
  BY <1>9, <1>19, <1>20 DEF DocInv, CategoriesSound
<1>22. CategoriesSound'
  BY <1>2, <1>8, <1>9, <1>11, <1>17, <1>19, <1>21, MoveKeepsCategories
<1> QED
  BY <1>18, <1>22 DEF DocInv

LEMMA SaveDocumentKeeps ==
  ASSUME DocInv, NEW t \in DocThreads, SaveDocument(t), UNCHANGED <<snapshot, restore, failedRestore>>
  PROVE  DocInv'
<1>1. PICK old : old = docReq[t]
  OBVIOUS
<1>2. /\ old \in Savings /\ old.at = "save" /\ old # DocIdle /\ docReq[t] = old
      /\ OnDoc(t, old.doc) /\ old.doc \in old.keys
  BY <1>1, DocRequestIs DEF SaveDocument, DocInv, DocIdle
<1>3. PICK d \in Docs : d = old.doc
  BY <1>2 DEF Savings
<1>4. old.record \in Filed /\ old.record # None /\ old.record.document \in Document
  BY <1>2, NoneIsNoDocument DEF Savings, Filed, DocRecord
<1>5. /\ docReq' = [docReq EXCEPT ![t] = DocIdle] /\ docFile' = [docFile EXCEPT ![d] = old.record]
      /\ UNCHANGED <<docs, chains, index, madeDocs, docOverlaps, docTroubled>>
  BY <1>1, <1>3 DEF SaveDocument
<1>6. DocIdle \in DocRequests
  BY DEF DocRequests
<1>7. /\ \A u \in DocThreads : docReq'[u] = IF u = t THEN DocIdle ELSE docReq[u]
      /\ \A x : \A u \in DocThreads : OnDoc(u, x)' <=> u # t /\ OnDoc(u, x)
      /\ \A k : \A u \in DocThreads : UsesKey(u, k)' <=> u # t /\ UsesKey(u, k)
  BY <1>5, <1>6, DocMove DEF DocInv
<1>8. docFile' \in FileTables /\ docFile'[d] = old.record /\ \A x \in Docs : Elsewhere(x, d)
  BY <1>4, <1>5 DEF DocInv, DocType, FileTables, Elsewhere
<1>9. BuiltAt(d) /\ GoodAt(d) /\ SyncedAt(d) /\ OnDoc(t, d)
  BY <1>2, <1>3 DEF DocInv, DocsSound
<1>10. BuiltAt(d)'
  BY <1>2, <1>4, <1>5, <1>7, <1>8, <1>9 DEF BuiltAt
<1>11. GoodAt(d)'
  <2> SUFFICES ASSUME d \notin docOverlaps PROVE GoodAt(d)'
    BY <1>5 DEF GoodAt
  <2>1. \A u \in DocThreads : OnDoc(u, d) => u = t
    BY <1>9, AloneOnDoc DEF DocInv
  <2> QED
    BY <1>2, <1>5, <1>7, <1>8, <1>9, <2>1 DEF GoodAt
<1>12. SyncedAt(d)'
  <2> SUFFICES ASSUME d \notin docOverlaps, d \notin docTroubled PROVE SyncedAt(d)'
    BY <1>5 DEF SyncedAt
  <2>1. ~Restoring /\ \A u \in DocThreads : OnDoc(u, d) => u = t
    BY <1>9, AloneOnDoc DEF DocInv
  <2>2. restore.at # "fill_documents"
    BY <2>1 DEF Restoring, NoRestore
  <2>3. old.record.document = docs[d] /\ old.record.versions = chains[d]
    BY <1>2, <1>9 DEF SyncedAt
  <2>4. DocumentCached(d)'
    BY <1>4, <1>5, <1>8, <2>3 DEF DocumentCached
  <2> QED
    BY <1>7, <2>1, <2>2, <2>4 DEF SyncedAt
<1>13. docs \in DocTables /\ chains \in ChainTables /\ index \in [Categories -> {None} \cup Docs]
  BY DEF DocInv, DocType
<1>14. DocType' /\ DocAlone' /\ DocsSound'
  BY <1>2, <1>5, <1>6, <1>8, <1>9, <1>10, <1>11, <1>12, <1>13, MoveKeeps
<1>15. Claims(d, old.record.document.category)
  BY <1>2, <1>9 DEF Claims
<1>16. \A c \in Categories : Claims(d, c)' => Claims(d, c)
  BY <1>5, <1>7, <1>8, <1>15 DEF Claims, FiledUnder
<1>17. \A c \in Categories : Claims(d, c)' => FiledUnder(d, c)'
  <2>1. old.record.document.category \in Categories
    BY <1>4 DEF Document
  <2>2. \A c \in Categories : Claims(d, c) => c = old.record.document.category
    BY <1>15, <2>1 DEF DocInv, CategoriesSound
  <2> QED
    BY <1>4, <1>8, <1>16, <2>2 DEF FiledUnder
<1>18. \A c \in Categories : Indexed(d, c) => Indexed(d, c)'
  BY <1>2, <1>5, <1>7 DEF Indexed
<1>19. \A c \in Categories : Claims(d, c)' /\ c \notin docOverlaps \cup docTroubled' =>
         Backed(d, c)' /\ Indexed(d, c)'
  <2>1. \A c \in Categories : Claims(d, c)' => Backed(d, c)'
    BY <1>17 DEF Backed
  <2> QED
    BY <1>5, <1>16, <1>18, <2>1 DEF DocInv, CategoriesSound
<1>20. CategoriesSound'
  BY <1>2, <1>5, <1>6, <1>8, <1>9, <1>16, <1>19, MoveKeepsCategories
<1> QED
  BY <1>14, <1>20 DEF DocInv

(* A request that ends without a save.                                      *)
LEMMA GivingUpKeeps ==
  ASSUME DocInv, NEW t \in DocThreads, NEW d \in Docs, OnDoc(t, d),
         docReq' = [docReq EXCEPT ![t] = DocIdle], docReq[t].at \notin {"insert", "append", "set"},
         docTroubled \subseteq docTroubled',
         d \in docOverlaps \cup docTroubled',
         \A c \in Categories : UsesKey(t, c) => c \in docOverlaps \cup docTroubled',
         UNCHANGED <<docs, chains, index, docFile, madeDocs, docOverlaps, snapshot, restore, failedRestore>>
  PROVE  DocInv'
<1>1. DocIdle \in DocRequests
  BY DEF DocRequests
<1>2. /\ \A u \in DocThreads : docReq'[u] = IF u = t THEN DocIdle ELSE docReq[u]
      /\ \A x : \A u \in DocThreads : OnDoc(u, x)' <=> u # t /\ OnDoc(u, x)
      /\ \A k : \A u \in DocThreads : UsesKey(u, k)' <=> u # t /\ UsesKey(u, k)
  BY <1>1, DocMove DEF DocInv
<1>3. BuiltAt(d) /\ GoodAt(d)
  BY DEF DocInv, DocsSound
<1>4. BuiltAt(d)'
  BY <1>2, <1>3 DEF BuiltAt
<1>5. GoodAt(d)'
  BY <1>2, <1>3 DEF GoodAt
<1>6. SyncedAt(d)'
  BY DEF SyncedAt
<1>7. /\ docs \in DocTables /\ chains \in ChainTables /\ docFile \in FileTables
      /\ index \in [Categories -> {None} \cup Docs] /\ \A x \in Docs : Elsewhere(x, d)
  BY DEF DocInv, DocType, Elsewhere
<1>8. DocType' /\ DocAlone' /\ DocsSound'
  BY <1>1, <1>4, <1>5, <1>6, <1>7, MoveKeeps
<1>9. \A c \in Categories : Claims(d, c)' => Claims(d, c)
  BY <1>2 DEF Claims, FiledUnder
<1>10. \A c \in Categories : c \notin docOverlaps \cup docTroubled' /\ Backed(d, c) => Backed(d, c)'
  BY <1>2 DEF Backed, FiledUnder
<1>11. \A c \in Categories : Indexed(d, c) => Indexed(d, c)'
  BY <1>2 DEF Indexed
<1>12. \A c \in Categories : Claims(d, c)' /\ c \notin docOverlaps \cup docTroubled' =>
         Backed(d, c)' /\ Indexed(d, c)'
  BY <1>9, <1>10, <1>11 DEF DocInv, CategoriesSound
<1>13. CategoriesSound'
  BY <1>1, <1>7, <1>9, <1>12, MoveKeepsCategories
<1> QED
  BY <1>8, <1>13 DEF DocInv

LEMMA SaveDocumentRaisesKeeps ==
  ASSUME DocInv, NEW t \in DocThreads, SaveDocumentRaises(t), UNCHANGED <<snapshot, restore, failedRestore>>
  PROVE  DocInv'
<1>1. PICK old : old = docReq[t]
  OBVIOUS
<1>2. old.at = "save" /\ old.doc \in Docs /\ old.doc \in old.keys /\ OnDoc(t, old.doc)
  BY <1>1, DocRequestIs DEF SaveDocumentRaises, DocInv, DocIdle
<1>3. PICK d \in Docs : d = old.doc
  BY <1>2
<1>4. /\ docReq' = [docReq EXCEPT ![t] = DocIdle] /\ docTroubled' = docTroubled \cup old.keys
      /\ UNCHANGED <<docs, chains, index, docFile, madeDocs, docOverlaps>>
  BY <1>1 DEF SaveDocumentRaises
<1>5. \A c \in Categories : UsesKey(t, c) => c \in docTroubled'
  BY <1>1, <1>4 DEF UsesKey
<1> QED
  BY <1>1, <1>2, <1>3, <1>4, <1>5, GivingUpKeeps

(* A document whose request no restore overlapped is not missing.           *)
LEMMA MissingInMemoryKeeps ==
  ASSUME DocInv, NEW t \in DocThreads, MissingInMemory(t), UNCHANGED <<snapshot, restore, failedRestore>>
  PROVE  DocInv'
<1>1. PICK old : old = docReq[t]
  OBVIOUS
<1>2. /\ old.at \in {"read", "dump"} /\ old.doc \in Docs /\ old.doc \in old.keys /\ OnDoc(t, old.doc)
      /\ old # DocIdle /\ docReq[t] = old
  BY <1>1, DocRequestIs DEF MissingInMemory, DocInv, DocIdle
<1>3. PICK d \in Docs : d = old.doc
  BY <1>2
<1>4. /\ docReq' = [docReq EXCEPT ![t] = DocIdle] /\ (docs[d] = None \/ chains[d] = None)
      /\ UNCHANGED <<docs, chains, index, docFile, madeDocs, docOverlaps, docTroubled>>
  BY <1>1, <1>3 DEF MissingInMemory
<1>5. \A k \in Keys : UsesKey(t, k) => k \in docOverlaps
  BY <1>2, <1>3, <1>4 DEF DocInv, DocsSound, EnteredAt
<1>6. UsesKey(t, d) /\ d \in Keys /\ Categories \subseteq Keys
  BY <1>2, <1>3 DEF UsesKey, Keys
<1> QED
  BY <1>2, <1>3, <1>4, <1>5, <1>6, GivingUpKeeps

(* A request that begins: what is left to show is about its document.       *)
LEMMA BeginDocKeeps ==
  ASSUME DocInv, NEW t \in DocThreads, NEW d \in Docs, NEW next \in DocRequests,
         docReq[t] = DocIdle, docReq' = [docReq EXCEPT ![t] = next],
         next # DocIdle, next.doc = d, d \in next.keys, next.keys \in SUBSET Keys,
         next.at = "insert" => next.document.category \in next.keys,
         docOverlaps' = docOverlaps \cup DocOverlap(t, next.keys),
         madeDocs \subseteq madeDocs', madeDocs' \in SUBSET Docs,
         UNCHANGED <<docs, chains, index, docFile, docTroubled, snapshot, restore, failedRestore>>
  PROVE  /\ DocType' /\ DocAlone'
         /\ \A x \in Docs : x # d => FreshAt(x)' /\ BuiltAt(x)' /\ EnteredAt(x)' /\ GoodAt(x)' /\ SyncedAt(x)'
<1>1. /\ docReq' \in [DocThreads -> DocRequests]
      /\ \A u \in DocThreads : docReq'[u] = IF u = t THEN next ELSE docReq[u]
      /\ \A k : \A u \in DocThreads : UsesKey(u, k)' <=> IF u = t THEN k \in next.keys ELSE UsesKey(u, k)
  BY DocMove DEF DocInv
<1>2. \A u \in DocThreads :
        /\ docReq[u] # DocIdle => docReq[u].doc \in docReq[u].keys
        /\ docReq[u].at = "insert" => docReq[u] # DocIdle /\ docReq[u].document.category \in docReq[u].keys
  BY DEF DocInv, DocType, UsesKey
<1>3. DocType'
  <2>1. \A u \in DocThreads :
          /\ docReq'[u] # DocIdle => docReq'[u].doc \in docReq'[u].keys
          /\ docReq'[u].at = "insert" => docReq'[u] # DocIdle /\ docReq'[u].document.category \in docReq'[u].keys
    BY <1>1, <1>2
  <2>2. docs' \in DocTables /\ chains' \in ChainTables /\ docFile' \in FileTables
        /\ index' \in [Categories -> {None} \cup Docs]
    BY DEF DocInv, DocType
  <2>3. /\ snapshot' # None => snapshot'.docs \in FileTables
        /\ restore'.at = "objects" => snapshot' # None
        /\ restore'.at = "documents" =>
             snapshot' # None /\ \A x \in restore'.todo : x \in Docs /\ snapshot'.docs[x] # None
        /\ RestoreWellFormed'
    BY DEF DocInv, DocType, RestoreWellFormed
  <2> QED
    BY <1>1, <2>1, <2>2, <2>3 DEF DocType, UsesKey
<1>4. \A k \in next.keys : k \notin docOverlaps' => ~Restoring /\ \A u \in DocThreads \ {t} : ~UsesKey(u, k)
  BY DEF DocOverlap, DocActive, UsesKey
<1>5. ~UsesKey(t, d)
  BY DEF UsesKey
<1>6. DocAlone'
  BY <1>1, <1>4 DEF DocInv, DocAlone, Restoring
<1> QED
  BY <1>3, <1>6, OthersKeep DEF Elsewhere

LEMMA BeginPublishKeeps ==
  ASSUME DocInv, NEW t \in DocThreads, NEW d \in Docs, BeginPublish(t, d),
         UNCHANGED <<snapshot, restore, failedRestore>>
  PROVE  DocInv'
<1>1. docs[d] \in Document /\ docs[d] # None /\ d \in Keys
  BY DEF BeginPublish, DocInv, DocType, DocTables, Keys
<1>2. PICK next : next = [at |-> "read", doc |-> d, keys |-> {d}, document |-> docs[d]]
  OBVIOUS
<1>3. /\ next \in DocRequests /\ next.at = "read" /\ next.doc = d /\ next.keys = {d}
      /\ next.document = docs[d] /\ next # DocIdle /\ next.keys \in SUBSET Keys
      /\ \A k : k \in next.keys <=> k = d
  BY <1>1, <1>2 DEF Readings, DocRequests, DocIdle
<1>4. /\ docReq[t] = DocIdle /\ docReq' = [docReq EXCEPT ![t] = next]
      /\ docOverlaps' = docOverlaps \cup DocOverlap(t, next.keys)
      /\ UNCHANGED <<docs, chains, index, docFile, madeDocs, docTroubled>>
  BY <1>2, <1>3 DEF BeginPublish
<1>5. /\ \A u \in DocThreads : docReq'[u] = IF u = t THEN next ELSE docReq[u]
      /\ \A x : \A u \in DocThreads : OnDoc(u, x)' <=> IF u = t THEN x = d ELSE OnDoc(u, x)
      /\ \A k : \A u \in DocThreads : UsesKey(u, k)' <=> IF u = t THEN k = d ELSE UsesKey(u, k)
  <2>1. next.doc = d /\ next # DocIdle /\ (\A k : k \in next.keys <=> k = d)
    BY <1>3
  <2>2. /\ \A u \in DocThreads : docReq'[u] = IF u = t THEN next ELSE docReq[u]
        /\ \A x : \A u \in DocThreads :
             OnDoc(u, x)' <=> IF u = t THEN next # DocIdle /\ next.doc = x ELSE OnDoc(u, x)
        /\ \A k : \A u \in DocThreads :
             UsesKey(u, k)' <=> IF u = t THEN next # DocIdle /\ k \in next.keys ELSE UsesKey(u, k)
    BY <1>3, <1>4, DocMove DEF DocInv
  <2> QED
    BY <2>1, <2>2
<1>6. \A x \in Docs : ~OnDoc(t, x)
  BY <1>4 DEF OnDoc
<1>7. /\ DocType' /\ DocAlone'
      /\ \A x \in Docs : x # d => FreshAt(x)' /\ BuiltAt(x)' /\ EnteredAt(x)' /\ GoodAt(x)' /\ SyncedAt(x)'
  <2>1. madeDocs \in SUBSET Docs
    BY DEF DocInv, DocType
  <2>2. madeDocs \subseteq madeDocs' /\ madeDocs' \in SUBSET Docs
    BY <1>4, <2>1
  <2>3. d \in next.keys /\ (next.at = "insert" => next.document.category \in next.keys)
    BY <1>3
  <2> QED
    BY <1>3, <1>4, <2>2, <2>3, BeginDocKeeps
<1>8. FreshAt(d) /\ BuiltAt(d) /\ EnteredAt(d) /\ GoodAt(d) /\ SyncedAt(d) /\ ~Unmade(d)
  BY <1>1 DEF DocInv, DocsSound, Unmade
<1>9. FreshAt(d)'
  BY <1>3, <1>4, <1>5, <1>8 DEF FreshAt
<1>10. BuiltAt(d)'
  BY <1>3, <1>4, <1>5, <1>8 DEF BuiltAt
<1>11. EnteredAt(d)'
  <2> SUFFICES ASSUME NEW u \in DocThreads, OnDoc(u, d)', docReq'[u].at # "insert",
                      NEW k \in Keys \ docOverlaps', UsesKey(u, k)'
               PROVE  docs[d] # None /\ chains[d] # None
    BY <1>4 DEF EnteredAt
  <2>1. CASE u = t
    BY <1>1, <1>4, <1>5, <1>8, <2>1 DEF GoodAt
  <2>2. CASE u # t
    BY <1>4, <1>5, <1>8, <2>2 DEF EnteredAt
  <2> QED
    BY <2>1, <2>2
<1>12. GoodAt(d)'
  BY <1>3, <1>4, <1>5, <1>6, <1>8 DEF GoodAt
<1>13. SyncedAt(d)'
  <2>1. DocumentCached(d)' <=> DocumentCached(d)
    BY <1>4 DEF DocumentCached
  <2> QED
    BY <1>3, <1>4, <1>5, <1>6, <1>8, <2>1 DEF SyncedAt, Restoring
<1>14. DocsSound'
  BY <1>7, <1>9, <1>10, <1>11, <1>12, <1>13 DEF DocsSound
<1>15. \A x \in Docs, c \in Categories : Claims(x, c)' => Claims(x, c)
  BY <1>1, <1>3, <1>4, <1>5 DEF Claims, FiledUnder
<1>16. \A x \in Docs, c \in Categories : Backed(x, c) => Backed(x, c)'
  BY <1>4, <1>5, <1>6 DEF Backed, FiledUnder
<1>17. \A x \in Docs, c \in Categories : Indexed(x, c) => Indexed(x, c)'
  BY <1>4, <1>5, <1>6 DEF Indexed
<1>18. CategoriesSound'
  <2>1. \A x \in Docs, c \in Categories : Claims(x, c)' /\ c \notin docOverlaps' \cup docTroubled' =>
          Backed(x, c)' /\ Indexed(x, c)'
    BY <1>4, <1>15, <1>16, <1>17 DEF DocInv, CategoriesSound
  <2> QED
    BY <1>4, <1>15, <2>1, CategoriesKept DEF DocInv
<1> QED
  BY <1>7, <1>14, <1>18 DEF DocInv

LEMMA BeginRegisterKeeps ==
  ASSUME DocInv, NEW t \in DocThreads, NEW d \in Docs, NEW category \in Categories, NEW content \in Contents,
         BeginRegister(t, d, category, content), UNCHANGED <<snapshot, restore, failedRestore>>
  PROVE  DocInv'
<1>1. PICK v : v = FirstVersion(content)
  OBVIOUS
<1>2. v \in Version /\ Good(<<v>>) /\ Len(<<v>>) = 1
  BY <1>1, FirstOfChain, OneVersionIsBuilt
<1>3. PICK new : new = [category |-> category, current |-> 1]
  OBVIOUS
<1>4. new \in Document /\ new.category = category /\ new.current = 1
  BY <1>3 DEF Document
<1>5. PICK next : next = [at |-> "insert", doc |-> d, keys |-> {d, category}, document |-> new, version |-> v]
  OBVIOUS
<1>6. /\ next \in DocRequests /\ next.at = "insert" /\ next.doc = d /\ next.keys = {d, category}
      /\ next.document = new /\ next.version = v /\ next # DocIdle /\ next.keys \in SUBSET Keys
  BY <1>2, <1>4, <1>5 DEF Insertions, DocRequests, DocIdle, Keys
<1>7. /\ docReq[t] = DocIdle /\ docReq' = [docReq EXCEPT ![t] = next]
      /\ docOverlaps' = docOverlaps \cup DocOverlap(t, next.keys)
      /\ index[category] = None /\ d \notin madeDocs /\ madeDocs' = madeDocs \cup {d}
      /\ UNCHANGED <<docs, chains, index, docFile, docTroubled>>
  BY <1>1, <1>3, <1>5, <1>6 DEF BeginRegister
<1>8. /\ \A u \in DocThreads : docReq'[u] = IF u = t THEN next ELSE docReq[u]
      /\ \A x : \A u \in DocThreads : OnDoc(u, x)' <=> IF u = t THEN x = d ELSE OnDoc(u, x)
      /\ \A k : \A u \in DocThreads : UsesKey(u, k)' <=> IF u = t THEN k \in next.keys ELSE UsesKey(u, k)
  BY <1>6, <1>7, DocMove DEF DocInv
<1>9. Unmade(d) /\ \A u \in DocThreads : ~OnDoc(u, d)
  BY <1>7 DEF DocInv, DocsSound, FreshAt
<1>10. \A x \in Docs : ~OnDoc(t, x)
  BY <1>7 DEF OnDoc
<1>11. Unmade(d)' /\ OnDoc(t, d)' /\ \A u \in DocThreads : OnDoc(u, d)' => u = t
  BY <1>7, <1>8, <1>9 DEF Unmade
<1>12. /\ DocType' /\ DocAlone'
       /\ \A x \in Docs : x # d => FreshAt(x)' /\ BuiltAt(x)' /\ EnteredAt(x)' /\ GoodAt(x)' /\ SyncedAt(x)'
  <2>1. madeDocs \subseteq madeDocs' /\ madeDocs' \in SUBSET Docs
    BY <1>7 DEF DocInv, DocType
  <2> QED
    BY <1>4, <1>6, <1>7, <2>1, BeginDocKeeps
<1>13. FreshAt(d)'
  BY <1>7, <1>11 DEF FreshAt
<1>14. BuiltAt(d)'
  BY <1>6, <1>8, <1>11 DEF BuiltAt, Unmade
<1>15. EnteredAt(d)'
  BY <1>6, <1>8, <1>11 DEF EnteredAt
<1>16. GoodRecord(new, <<v>>)
  BY <1>2, <1>4 DEF GoodRecord
<1>17. GoodAt(d)'
  BY <1>6, <1>8, <1>11, <1>16 DEF GoodAt, Unmade
<1>18. SyncedAt(d)'
  BY <1>6, <1>8, <1>11 DEF SyncedAt, Unmade, DocumentCached
<1>19. DocsSound'
  BY <1>12, <1>13, <1>14, <1>15, <1>17, <1>18 DEF DocsSound
<1>20. \A c \in Categories : ~Claims(d, c)
  BY <1>9 DEF Claims, FiledUnder, Unmade
<1>21. \A x \in Docs, c \in Categories : Claims(x, c)' => Claims(x, c) \/ (x = d /\ c = category)
  BY <1>4, <1>6, <1>7, <1>8 DEF Claims, FiledUnder
<1>22. \A x \in Docs, c \in Categories : Backed(x, c) => Backed(x, c)'
  BY <1>7, <1>8, <1>10 DEF Backed, FiledUnder
<1>23. \A x \in Docs, c \in Categories : Indexed(x, c) => Indexed(x, c)'
  BY <1>7, <1>8, <1>10 DEF Indexed
<1>24. category \notin docOverlaps' => ~Restoring /\ \A u \in DocThreads \ {t} : ~UsesKey(u, category)
  BY <1>6, <1>7 DEF DocOverlap, DocActive, UsesKey
<1>25. ASSUME category \notin docOverlaps' \cup docTroubled', NEW x \in Docs PROVE ~Claims(x, category)
  <2> SUFFICES ASSUME Claims(x, category) PROVE FALSE
    OBVIOUS
  <2>1. Indexed(x, category)
    BY <1>7, <1>25 DEF DocInv, CategoriesSound
  <2>2. index[category] # x
    BY <1>7, NoneIsNoDocument
  <2>3. restore.at # "fill_documents"
    BY <1>24, <1>25 DEF Restoring, NoRestore
  <2>4. \A u \in DocThreads : ~UsesKey(u, category)
    BY <1>7, <1>24, <1>25 DEF UsesKey
  <2> QED
    BY <2>1, <2>2, <2>3, <2>4 DEF Indexed
<1>26. Backed(d, category)' /\ Indexed(d, category)'
  BY <1>6, <1>8, <1>11 DEF Backed, Indexed
<1>27. CategoriesSound'
  <2>1. \A x \in Docs : \A b, c \in Categories : Claims(x, b)' /\ Claims(x, c)' => b = c
    BY <1>20, <1>21 DEF DocInv, CategoriesSound
  <2>2. ASSUME NEW c \in Categories, c \notin docOverlaps' \cup docTroubled', NEW x \in Docs, Claims(x, c)'
        PROVE  Backed(x, c)' /\ Indexed(x, c)' /\ \A e \in Docs : Claims(e, c)' => x = e
    <3>1. c \notin docOverlaps \cup docTroubled
      BY <1>7, <2>2
    <3>2. CASE c = category
      BY <1>21, <1>25, <1>26, <2>2, <3>2
    <3>3. CASE c # category
      BY <1>21, <1>22, <1>23, <2>2, <3>1, <3>3 DEF DocInv, CategoriesSound
    <3> QED
      BY <3>2, <3>3
  <2> QED
    BY <2>1, <2>2 DEF CategoriesSound
<1> QED
  BY <1>12, <1>19, <1>27 DEF DocInv

LEMMA CanonStepKeeps ==
  ASSUME DocInv, NEW t \in DocThreads, CanonStep(t), UNCHANGED <<snapshot, restore, failedRestore>>
  PROVE  DocInv'
<1>1. CASE \E d \in Docs, c \in Categories, content \in Contents : BeginRegister(t, d, c, content)
  BY <1>1, BeginRegisterKeeps
<1>2. CASE \E d \in Docs : BeginPublish(t, d)
  BY <1>2, BeginPublishKeeps
<1>3. CASE InsertDocument(t)
  BY <1>3, InsertDocumentKeeps
<1>4. CASE \E content \in Contents : ReadLast(t, content)
  BY <1>4, ReadLastKeeps
<1>5. CASE AppendVersion(t)
  BY <1>5, AppendVersionKeeps
<1>6. CASE SetDocument(t)
  BY <1>6, SetDocumentKeeps
<1>7. CASE DumpDocument(t)
  BY <1>7, DumpDocumentKeeps
<1>8. CASE SaveDocument(t)
  BY <1>8, SaveDocumentKeeps
<1>9. CASE SaveDocumentRaises(t)
  BY <1>9, SaveDocumentRaisesKeeps
<1>10. CASE MissingInMemory(t)
  BY <1>10, MissingInMemoryKeeps
<1> QED
  BY <1>1, <1>2, <1>3, <1>4, <1>5, <1>6, <1>7, <1>8, <1>9, <1>10 DEF CanonStep

(* A step of a restore that leaves the documents alone.                     *)
LEMMA RestoringKeepsDocs ==
  ASSUME DocInv, UNCHANGED <<docVars, snapshot>>,
         restore.at # "fill_documents", restore'.at # "fill_documents",
         Restoring' => Restoring, Restoring' \/ failedRestore' \/ UNCHANGED <<restore, failedRestore>>,
         RestoreWellFormed',
         restore'.at = "objects" => snapshot # None,
         restore'.at = "documents" =>
           snapshot # None /\ \A d \in restore'.todo : d \in Docs /\ snapshot.docs[d] # None
  PROVE  DocInv'
<1>1. /\ UNCHANGED <<docs, chains, index, docFile, docReq, madeDocs, docOverlaps, docTroubled, snapshot>>
      /\ \A x : \A u \in DocThreads : OnDoc(u, x)' <=> OnDoc(u, x)
      /\ \A k : \A u \in DocThreads : UsesKey(u, k)' <=> UsesKey(u, k)
  BY DEF docVars, OnDoc, UsesKey
<1>2. DocType'
  BY <1>1 DEF DocInv, DocType, UsesKey
<1>3. DocAlone'
  BY <1>1 DEF DocInv, DocAlone
<1>4. ASSUME NEW d \in Docs PROVE FreshAt(d)' /\ BuiltAt(d)' /\ EnteredAt(d)' /\ GoodAt(d)' /\ SyncedAt(d)'
  <2>1. FreshAt(d) /\ BuiltAt(d) /\ EnteredAt(d) /\ GoodAt(d) /\ SyncedAt(d)
    BY DEF DocInv, DocsSound
  <2>2. FreshAt(d)' /\ BuiltAt(d)' /\ EnteredAt(d)' /\ GoodAt(d)'
    BY <1>1, <2>1 DEF FreshAt, Unmade, BuiltAt, EnteredAt, GoodAt
  <2>3. DocumentCached(d)' <=> DocumentCached(d)
    BY <1>1 DEF DocumentCached
  <2>4. SyncedAt(d)'
    BY <1>1, <2>1, <2>3 DEF SyncedAt, Restoring
  <2> QED
    BY <2>2, <2>4
<1>5. \A x \in Docs, c \in Categories :
        /\ Claims(x, c)' <=> Claims(x, c)
        /\ Backed(x, c)' <=> Backed(x, c)
        /\ Indexed(x, c) => Indexed(x, c)'
  BY <1>1 DEF Claims, Backed, Indexed, FiledUnder
<1>6. CategoriesSound'
  <2>1. \A x \in Docs, c \in Categories : Claims(x, c)' /\ c \notin docOverlaps' \cup docTroubled' =>
          Backed(x, c)' /\ Indexed(x, c)'
    BY <1>1, <1>5 DEF DocInv, CategoriesSound
  <2> QED
    BY <1>1, <1>5, <2>1, CategoriesKept DEF DocInv
<1> QED
  BY <1>2, <1>3, <1>4, <1>6 DEF DocInv, DocsSound

LEMMA ExportKeepsDocs == ASSUME DocInv, ExportDocuments PROVE DocInv'
<1>1. /\ UNCHANGED <<docs, chains, index, docFile, docReq, madeDocs, docOverlaps, docTroubled, restore, failedRestore>>
      /\ \A x : \A u \in DocThreads : OnDoc(u, x)' <=> OnDoc(u, x)
      /\ \A k : \A u \in DocThreads : UsesKey(u, k)' <=> UsesKey(u, k)
      /\ snapshot' = [objects |-> export, docs |-> docFile] /\ snapshot'.docs = docFile
      /\ restore.at = "idle"
  BY DEF ExportDocuments, docVars, OnDoc, UsesKey, Restoring, NoRestore
<1>2. DocType'
  BY <1>1 DEF DocInv, DocType, UsesKey, RestoreWellFormed
<1>3. DocAlone'
  BY <1>1 DEF DocInv, DocAlone, Restoring
<1>4. ASSUME NEW d \in Docs PROVE FreshAt(d)' /\ BuiltAt(d)' /\ EnteredAt(d)' /\ GoodAt(d)' /\ SyncedAt(d)'
  <2>1. FreshAt(d) /\ BuiltAt(d) /\ EnteredAt(d) /\ GoodAt(d) /\ SyncedAt(d)
    BY DEF DocInv, DocsSound
  <2>2. FreshAt(d)'
    BY <1>1, <2>1 DEF FreshAt, Unmade
  <2>3. BuiltAt(d)'
    BY <1>1, <2>1 DEF BuiltAt
  <2>4. EnteredAt(d)' /\ GoodAt(d)'
    BY <1>1, <2>1 DEF EnteredAt, GoodAt
  <2>5. DocumentCached(d)' <=> DocumentCached(d)
    BY <1>1 DEF DocumentCached
  <2>6. SyncedAt(d)'
    BY <1>1, <2>1, <2>5 DEF SyncedAt, Restoring
  <2> QED
    BY <2>2, <2>3, <2>4, <2>6
<1>5. \A x \in Docs, c \in Categories :
        /\ Claims(x, c)' => Claims(x, c)
        /\ Backed(x, c)' <=> Backed(x, c)
        /\ Indexed(x, c)' <=> Indexed(x, c)
  BY <1>1 DEF Claims, Backed, Indexed, FiledUnder
<1>6. CategoriesSound'
  <2>1. \A x \in Docs, c \in Categories : Claims(x, c)' /\ c \notin docOverlaps' \cup docTroubled' =>
          Backed(x, c)' /\ Indexed(x, c)'
    BY <1>1, <1>5 DEF DocInv, CategoriesSound
  <2> QED
    BY <1>1, <1>5, <2>1, CategoriesKept DEF DocInv
<1> QED
  BY <1>2, <1>3, <1>4, <1>6 DEF DocInv, DocsSound

LEMMA BeginRestoreKeepsDocs == ASSUME DocInv, BeginRestore PROVE DocInv'
<1>1. /\ UNCHANGED <<docs, chains, index, docFile, docReq, madeDocs, docTroubled, snapshot, failedRestore>>
      /\ docOverlaps' = docOverlaps \cup DocsInProgress
      /\ \A x : \A u \in DocThreads : OnDoc(u, x)' <=> OnDoc(u, x)
      /\ \A k : \A u \in DocThreads : UsesKey(u, k)' <=> UsesKey(u, k)
  BY DEF BeginRestore, OnDoc, UsesKey
<1>2. /\ restore' = [at |-> "objects", todo |-> restore'.todo] /\ restore'.at = "objects"
      /\ restore' # NoRestore /\ snapshot # None
  BY DEF BeginRestore, NoRestore
<1>3. DocType'
  BY <1>1, <1>2 DEF DocInv, DocType, UsesKey, RestoreWellFormed
<1>4. \A u \in DocThreads : \A k : UsesKey(u, k) => k \in docOverlaps'
  BY <1>1 DEF UsesKey, DocsInProgress, DocActive
<1>5. DocAlone'
  BY <1>1, <1>4 DEF DocAlone
<1>6. ASSUME NEW d \in Docs PROVE FreshAt(d)' /\ BuiltAt(d)' /\ EnteredAt(d)' /\ GoodAt(d)' /\ SyncedAt(d)'
  <2>1. FreshAt(d) /\ BuiltAt(d) /\ EnteredAt(d) /\ GoodAt(d) /\ SyncedAt(d)
    BY DEF DocInv, DocsSound
  <2>2. FreshAt(d)' /\ BuiltAt(d)' /\ EnteredAt(d)' /\ GoodAt(d)'
    BY <1>1, <2>1 DEF FreshAt, Unmade, BuiltAt, EnteredAt, GoodAt
  <2>3. SyncedAt(d)'
    BY <1>1, <1>2, <2>1 DEF SyncedAt, Restoring
  <2> QED
    BY <2>2, <2>3
<1>7. \A x \in Docs, c \in Categories :
        /\ Claims(x, c)' <=> Claims(x, c)
        /\ Backed(x, c)' <=> Backed(x, c)
        /\ Indexed(x, c) /\ restore.at # "fill_documents" => Indexed(x, c)'
  BY <1>1 DEF Claims, Backed, Indexed, FiledUnder
<1>8. restore.at # "fill_documents"
  BY DEF BeginRestore, Restoring, NoRestore
<1>9. CategoriesSound'
  <2>1. \A x \in Docs, c \in Categories : Claims(x, c)' /\ c \notin docOverlaps' \cup docTroubled' =>
          Backed(x, c)' /\ Indexed(x, c)'
    BY <1>1, <1>7, <1>8 DEF DocInv, CategoriesSound
  <2> QED
    BY <1>1, <1>7, <2>1, CategoriesKept DEF DocInv
<1> QED
  BY <1>3, <1>5, <1>6, <1>9 DEF DocInv, DocsSound

LEMMA RestoreDocumentKeeps ==
  ASSUME DocInv, NEW d \in Docs, RestoreDocument(d)
  PROVE  DocInv'
<1>1. /\ UNCHANGED <<docs, chains, index, docReq, madeDocs, docOverlaps, docTroubled, snapshot, failedRestore>>
      /\ \A x : \A u \in DocThreads : OnDoc(u, x)' <=> OnDoc(u, x)
      /\ \A k : \A u \in DocThreads : UsesKey(u, k)' <=> UsesKey(u, k)
  BY DEF RestoreDocument, OnDoc, UsesKey
<1>2. /\ restore.at = "documents" /\ restore = [at |-> restore.at, todo |-> restore.todo]
      /\ restore' = [restore EXCEPT !.todo = @ \ {d}] /\ d \in restore.todo
  BY DEF RestoreDocument, DocInv, DocType, RestoreWellFormed
<1>3. /\ restore' = [at |-> "documents", todo |-> restore'.todo] /\ restore'.at = "documents"
      /\ restore' # NoRestore /\ restore # NoRestore /\ restore'.todo \subseteq restore.todo
  BY <1>2 DEF NoRestore
<1>4. PICK record \in Filed : snapshot # None /\ record = snapshot.docs[d] /\ record # None
  BY <1>2 DEF DocInv, DocType, FileTables
<1>5. /\ docFile' \in FileTables
      /\ \A x \in Docs : docFile'[x] = IF x = d THEN record ELSE docFile[x]
  BY <1>4 DEF RestoreDocument, DocInv, DocType, FileTables
<1>6. DocType'
  BY <1>1, <1>2, <1>3, <1>5 DEF DocInv, DocType, UsesKey, RestoreWellFormed
<1>7. DocAlone'
  BY <1>1, <1>3 DEF DocInv, DocAlone, Restoring
<1>8. ~Unmade(d)
  BY <1>4 DEF Unmade
<1>9. ASSUME NEW x \in Docs PROVE FreshAt(x)' /\ BuiltAt(x)' /\ EnteredAt(x)' /\ GoodAt(x)' /\ SyncedAt(x)'
  <2>1. FreshAt(x) /\ BuiltAt(x) /\ EnteredAt(x) /\ GoodAt(x) /\ SyncedAt(x)
    BY DEF DocInv, DocsSound
  <2>2. FreshAt(x)'
    BY <1>1, <1>5, <1>8, <2>1 DEF FreshAt, Unmade
  <2>3. BuiltAt(x)'
    BY <1>1, <1>4, <1>5, <2>1 DEF BuiltAt
  <2>4. EnteredAt(x)'
    BY <1>1, <2>1 DEF EnteredAt
  <2>5. GoodAt(x)'
    BY <1>1, <1>4, <1>5, <2>1 DEF GoodAt
  <2>6. SyncedAt(x)'
    BY <1>1, <1>3, <2>1 DEF SyncedAt, Restoring
  <2> QED
    BY <2>2, <2>3, <2>4, <2>5, <2>6
<1>10. \A x \in Docs, c \in Categories : Claims(x, c)' => Claims(x, c)
  BY <1>1, <1>4, <1>5 DEF Claims, FiledUnder
<1>11. record.document.category \in Categories /\ Claims(d, record.document.category)
  BY <1>4 DEF Claims, Filed, DocRecord, Document
<1>12. \A x \in Docs, c \in Categories : Claims(x, c) /\ Backed(x, c) => Backed(x, c)'
  <2>1. \A c \in Categories : Claims(d, c) => c = record.document.category
    BY <1>11 DEF DocInv, CategoriesSound
  <2> QED
    BY <1>1, <1>4, <1>5, <2>1 DEF Backed, FiledUnder
<1>13. \A x \in Docs, c \in Categories : Indexed(x, c) => Indexed(x, c)'
  BY <1>1, <1>2 DEF Indexed
<1>14. CategoriesSound'
  <2>1. \A x \in Docs, c \in Categories : Claims(x, c)' /\ c \notin docOverlaps' \cup docTroubled' =>
          Backed(x, c)' /\ Indexed(x, c)'
    BY <1>1, <1>10, <1>12, <1>13 DEF DocInv, CategoriesSound
  <2> QED
    BY <1>1, <1>10, <2>1, CategoriesKept DEF DocInv
<1> QED
  BY <1>6, <1>7, <1>9, <1>14 DEF DocInv, DocsSound

(* The list that a thread holds is in memory no more.                       *)
LetGo(r) == [r EXCEPT !.held = FALSE]

LEMMA ListsLost ==
  ASSUME DocType, NEW lost \in SUBSET DocThreads,
         \A t \in lost : docReq[t].at = "append",
         docReq' = [t \in DocThreads |-> IF t \in lost THEN LetGo(docReq[t]) ELSE docReq[t]]
  PROVE  /\ docReq' \in [DocThreads -> DocRequests]
         /\ \A t \in DocThreads :
              /\ docReq'[t].at = docReq[t].at /\ docReq'[t].doc = docReq[t].doc
              /\ docReq'[t].keys = docReq[t].keys /\ docReq'[t].document = docReq[t].document
              /\ docReq'[t] = DocIdle <=> docReq[t] = DocIdle
              /\ IF t \in lost THEN docReq'[t].held = FALSE ELSE docReq'[t] = docReq[t]
         /\ \A x : \A t \in DocThreads : OnDoc(t, x)' <=> OnDoc(t, x)
         /\ \A k : \A t \in DocThreads : UsesKey(t, k)' <=> UsesKey(t, k)
<1>1. ASSUME NEW t \in DocThreads
      PROVE  /\ docReq'[t] \in DocRequests
             /\ docReq'[t].at = docReq[t].at /\ docReq'[t].doc = docReq[t].doc
             /\ docReq'[t].keys = docReq[t].keys /\ docReq'[t].document = docReq[t].document
             /\ docReq'[t] = DocIdle <=> docReq[t] = DocIdle
             /\ IF t \in lost THEN docReq'[t].held = FALSE ELSE docReq'[t] = docReq[t]
  <2>1. CASE t \in lost
    <3>1. PICK old : old = docReq[t]
      OBVIOUS
    <3>2. old \in Appendings /\ old.at = "append"
      BY <2>1, <3>1, DocRequestIs
    <3>3. PICK next : next = [old EXCEPT !.held = FALSE]
      OBVIOUS
    <3>4. /\ next \in Appendings /\ next.at = old.at /\ next.doc = old.doc /\ next.keys = old.keys
          /\ next.document = old.document /\ next.held = FALSE
      BY <3>2, <3>3 DEF Appendings
    <3>5. docReq'[t] = next
      BY <2>1, <3>1, <3>3 DEF LetGo
    <3>6. next # DocIdle /\ old # DocIdle
      BY <3>2, <3>4 DEF DocIdle
    <3> QED
      BY <2>1, <3>1, <3>4, <3>5, <3>6 DEF DocRequests
  <2>2. CASE t \notin lost
    BY <2>2 DEF DocType
  <2> QED
    BY <2>1, <2>2
<1>2. docReq' \in [DocThreads -> DocRequests]
  BY <1>1
<1>3. \A x : \A t \in DocThreads : OnDoc(t, x)' <=> OnDoc(t, x)
  BY <1>1 DEF OnDoc
<1>4. \A k : \A t \in DocThreads : UsesKey(t, k)' <=> UsesKey(t, k)
  BY <1>1 DEF UsesKey
<1> QED
  BY <1>1, <1>2, <1>3, <1>4

(* What DocType says of requests, in terms of the requests alone.           *)
LEMMA RequestsNameKeys ==
  ASSUME DocType
  PROVE  \A t \in DocThreads :
           /\ docReq[t] # DocIdle => docReq[t].doc \in docReq[t].keys
           /\ docReq[t].at = "insert" => docReq[t] # DocIdle /\ docReq[t].document.category \in docReq[t].keys
BY DEF DocType, UsesKey

LEMMA ReloadDocumentsKeeps == ASSUME DocInv, ReloadDocuments PROVE DocInv'
<1>1. /\ UNCHANGED <<docFile, madeDocs, docOverlaps, docTroubled, snapshot, failedRestore>>
      /\ docs' = [d \in Docs |-> None] /\ chains' = [d \in Docs |-> None]
      /\ index' = [c \in Categories |-> None]
      /\ restore' = [at |-> "fill_documents"] /\ restore.at = "clear_documents"
  BY DEF ReloadDocuments, ClearDocuments
<1>2. restore'.at = "fill_documents" /\ restore' # NoRestore /\ restore # NoRestore
  BY <1>1 DEF NoRestore
<1>3. PICK lost \in SUBSET DocThreads : lost = {t \in DocThreads : docReq[t].at = "append"}
  OBVIOUS
<1>4. docReq' = [t \in DocThreads |-> IF t \in lost THEN LetGo(docReq[t]) ELSE docReq[t]]
  BY <1>3 DEF ReloadDocuments, ClearDocuments, LetGo
<1>5. /\ docReq' \in [DocThreads -> DocRequests]
      /\ \A t \in DocThreads :
           /\ docReq'[t].at = docReq[t].at /\ docReq'[t].doc = docReq[t].doc
           /\ docReq'[t].keys = docReq[t].keys /\ docReq'[t].document = docReq[t].document
           /\ docReq'[t] = DocIdle <=> docReq[t] = DocIdle
           /\ IF t \in lost THEN docReq'[t].held = FALSE ELSE docReq'[t] = docReq[t]
      /\ \A x : \A t \in DocThreads : OnDoc(t, x)' <=> OnDoc(t, x)
      /\ \A k : \A t \in DocThreads : UsesKey(t, k)' <=> UsesKey(t, k)
  BY <1>3, <1>4, ListsLost DEF DocInv
<1>6. DocType'
  <2>1. \A t \in DocThreads :
          /\ docReq'[t] # DocIdle => docReq'[t].doc \in docReq'[t].keys
          /\ docReq'[t].at = "insert" => docReq'[t] # DocIdle /\ docReq'[t].document.category \in docReq'[t].keys
    BY <1>5, RequestsNameKeys DEF DocInv
  <2>2. /\ docs' \in DocTables /\ chains' \in ChainTables /\ docFile' \in FileTables
        /\ index' \in [Categories -> {None} \cup Docs] /\ madeDocs' \in SUBSET Docs
        /\ snapshot' # None => snapshot'.docs \in FileTables
    BY <1>1 DEF DocInv, DocType, DocTables, ChainTables
  <2>3. RestoreWellFormed'
    BY <1>1, <1>2 DEF RestoreWellFormed
  <2> QED
    BY <1>2, <1>5, <2>1, <2>2, <2>3 DEF DocType, UsesKey
<1>7. \A k \in Keys \ docOverlaps : \A t \in DocThreads : ~UsesKey(t, k)
  BY <1>2 DEF DocInv, DocAlone, Restoring
<1>8. DocAlone'
  BY <1>1, <1>5, <1>7 DEF DocAlone
<1>9. ASSUME NEW d \in Docs PROVE FreshAt(d)' /\ BuiltAt(d)' /\ EnteredAt(d)' /\ GoodAt(d)' /\ SyncedAt(d)'
  <2>1. FreshAt(d) /\ BuiltAt(d) /\ EnteredAt(d) /\ GoodAt(d) /\ SyncedAt(d)
    BY DEF DocInv, DocsSound
  <2>2. docs'[d] = None /\ chains'[d] = None
    BY <1>1
  <2>3. FreshAt(d)'
    BY <1>1, <1>5, <2>1, <2>2 DEF FreshAt, Unmade
  <2>4. BuiltAt(d)'
    <3>1. \A t \in DocThreads : docReq'[t].at = "append" => docReq'[t].held = FALSE
      BY <1>3, <1>5
    <3>2. \A t \in DocThreads : docReq'[t].at = "save" => docReq'[t] = docReq[t]
      BY <1>3, <1>5
    <3> QED
      BY <1>1, <1>5, <2>1, <2>2, <3>1, <3>2 DEF BuiltAt
  <2>5. EnteredAt(d)'
    BY <1>1, <1>5, <1>7 DEF EnteredAt
  <2>6. \A t \in DocThreads : OnDoc(t, d) => d \in docOverlaps
    BY <1>7, DocRequestIs DEF Keys, DocInv, OnDoc, UsesKey
  <2>7. GoodAt(d)'
    BY <1>1, <1>5, <2>1, <2>2, <2>6 DEF GoodAt
  <2>8. SyncedAt(d)'
    BY <1>1, <1>2, <1>5, <2>2, <2>6 DEF SyncedAt, Restoring
  <2> QED
    BY <2>3, <2>4, <2>5, <2>7, <2>8
<1>10. \A x \in Docs, c \in Categories : Claims(x, c)' => Claims(x, c)
  <2> SUFFICES ASSUME NEW x \in Docs, NEW c \in Categories, Claims(x, c)' PROVE Claims(x, c)
    OBVIOUS
  <2>1. \A t \in DocThreads : docReq'[t].at = "save" => docReq'[t] = docReq[t]
    BY <1>3, <1>5
  <2>2. docs'[x] = None
    BY <1>1
  <2> QED
    BY <1>1, <1>5, <2>1, <2>2 DEF Claims, FiledUnder
<1>11. \A x \in Docs, c \in Categories : Backed(x, c)' <=> Backed(x, c)
  BY <1>1, <1>5 DEF Backed, FiledUnder
<1>12. CategoriesSound'
  <2>1. \A x \in Docs, c \in Categories : Claims(x, c)' /\ c \notin docOverlaps' \cup docTroubled' =>
          Backed(x, c)' /\ Indexed(x, c)'
    BY <1>1, <1>2, <1>10, <1>11 DEF DocInv, CategoriesSound, Indexed
  <2> QED
    BY <1>1, <1>10, <2>1, CategoriesKept DEF DocInv
<1> QED
  BY <1>6, <1>8, <1>9, <1>12 DEF DocInv, DocsSound

(* What is stored has the types of what is in memory.                       *)
LEMMA StoredIs ==
  ASSUME DocType, NEW d \in Docs, docFile[d] # None
  PROVE  /\ docFile[d].document \in Document /\ docFile[d].versions \in Histories
         /\ docFile[d].document # None /\ docFile[d].versions # None
         /\ docFile[d].document.category \in Categories
<1>1. docFile[d] \in Filed
  BY DEF DocType, FileTables
<1>2. docFile[d].document \in Document /\ docFile[d].versions \in Histories /\ docFile[d].versions \in Seq(Version)
  BY <1>1 DEF Filed, DocRecord, Histories
<1> QED
  BY <1>2, NoneIsNoDocument DEF Document

(* A category without overlap or trouble that is in the store is indexed    *)
(* under the one document that has it.                                      *)
LEMMA IndexedFromStore ==
  ASSUME DocInv, NEW c \in Categories, c \notin docOverlaps \cup docTroubled,
         NEW x \in Docs, FiledUnder(x, c), NEW d, MayIndex(c, d)
  PROVE  d = x
<1>1. x \in StoredDocs /\ docFile[x].document.category = c
  BY DEF FiledUnder, StoredDocs
<1>2. d \in StoredDocs /\ docFile[d].document.category = c
  BY <1>1 DEF MayIndex
<1>3. d \in Docs /\ Claims(d, c) /\ Claims(x, c)
  BY <1>1, <1>2 DEF StoredDocs, Claims, FiledUnder
<1> QED
  BY <1>3 DEF DocInv, CategoriesSound

LEMMA RefillDocumentsKeeps == ASSUME DocInv, RefillDocuments PROVE DocInv'
<1>1. /\ UNCHANGED <<docFile, madeDocs, docOverlaps, docTroubled, snapshot>>
      /\ \A d \in Docs : docs'[d] = IF docFile[d] # None THEN docFile[d].document ELSE docs[d]
      /\ \A d \in Docs : chains'[d] = IF docFile[d] # None THEN docFile[d].versions ELSE chains[d]
      /\ index' \in [Categories -> {None} \cup Docs] /\ \A c \in Categories : MayIndex(c, index'[c])
      /\ restore' = NoRestore /\ restore.at = "fill_documents"
  BY DEF RefillDocuments, FillDocuments, StoredDocs
<1>2. restore'.at = "idle" /\ restore # NoRestore
  BY <1>1 DEF NoRestore
<1>3. PICK lost \in SUBSET DocThreads :
        lost = {t \in DocThreads : docReq[t].at = "append" /\ docReq[t].doc \in StoredDocs}
  OBVIOUS
<1>4. docReq' = [t \in DocThreads |-> IF t \in lost THEN LetGo(docReq[t]) ELSE docReq[t]]
  BY <1>3 DEF RefillDocuments, FillDocuments, LetGo
<1>5. /\ docReq' \in [DocThreads -> DocRequests]
      /\ \A t \in DocThreads :
           /\ docReq'[t].at = docReq[t].at /\ docReq'[t].doc = docReq[t].doc
           /\ docReq'[t].keys = docReq[t].keys /\ docReq'[t].document = docReq[t].document
           /\ docReq'[t] = DocIdle <=> docReq[t] = DocIdle
           /\ IF t \in lost THEN docReq'[t].held = FALSE ELSE docReq'[t] = docReq[t]
      /\ \A x : \A t \in DocThreads : OnDoc(t, x)' <=> OnDoc(t, x)
      /\ \A k : \A t \in DocThreads : UsesKey(t, k)' <=> UsesKey(t, k)
  BY <1>3, <1>4, ListsLost DEF DocInv
<1>6. \A d \in Docs : docFile[d] # None =>
        docFile[d].document \in Document /\ docFile[d].versions \in Histories /\ docFile[d].document # None
        /\ docFile[d].versions # None
  BY StoredIs DEF DocInv
<1>7. DocType'
  <2>1. \A t \in DocThreads :
          /\ docReq'[t] # DocIdle => docReq'[t].doc \in docReq'[t].keys
          /\ docReq'[t].at = "insert" => docReq'[t] # DocIdle /\ docReq'[t].document.category \in docReq'[t].keys
    BY <1>5, RequestsNameKeys DEF DocInv
  <2>2. docs' = [d \in Docs |-> docs'[d]] /\ chains' = [d \in Docs |-> chains'[d]]
    BY DEF RefillDocuments, FillDocuments
  <2>3. docs' \in DocTables /\ chains' \in ChainTables
    BY <1>1, <1>6, <2>2 DEF DocInv, DocType, DocTables, ChainTables
  <2>4. docFile' \in FileTables /\ madeDocs' \in SUBSET Docs /\ (snapshot' # None => snapshot'.docs \in FileTables)
    BY <1>1 DEF DocInv, DocType
  <2>5. RestoreWellFormed'
    BY <1>1, <1>2 DEF RestoreWellFormed
  <2> QED
    BY <1>1, <1>2, <1>5, <2>1, <2>3, <2>4, <2>5 DEF DocType, UsesKey
<1>8. \A k \in Keys \ docOverlaps : \A t \in DocThreads : ~UsesKey(t, k)
  BY <1>2 DEF DocInv, DocAlone, Restoring
<1>9. DocAlone'
  BY <1>1, <1>5, <1>8 DEF DocAlone
<1>10. ASSUME NEW d \in Docs PROVE FreshAt(d)' /\ BuiltAt(d)' /\ EnteredAt(d)' /\ GoodAt(d)' /\ SyncedAt(d)'
  <2>1. FreshAt(d) /\ BuiltAt(d) /\ EnteredAt(d) /\ GoodAt(d) /\ SyncedAt(d)
    BY DEF DocInv, DocsSound
  <2>2. FreshAt(d)'
    BY <1>1, <1>5, <2>1 DEF FreshAt, Unmade
  <2>3. BuiltAt(d)'
    <3>1. ASSUME NEW t \in DocThreads, OnDoc(t, d), docReq'[t].at = "append", docReq'[t].held
          PROVE  chains'[d] # None /\ NextOf(docReq'[t].version, chains'[d])
      <4>1. t \notin lost /\ docReq'[t] = docReq[t]
        BY <1>5, <3>1
      <4>2. docFile[d] = None
        BY <1>3, <1>5, <3>1, <4>1 DEF OnDoc, StoredDocs
      <4> QED
        BY <1>1, <2>1, <3>1, <4>1, <4>2 DEF BuiltAt
    <3>2. \A t \in DocThreads : docReq'[t].at = "save" => docReq'[t] = docReq[t]
      BY <1>3, <1>5
    <3> QED
      BY <1>1, <1>5, <2>1, <3>1, <3>2 DEF BuiltAt
  <2>4. EnteredAt(d)'
    BY <1>1, <1>5, <1>8 DEF EnteredAt
  <2>5. \A t \in DocThreads : OnDoc(t, d) => d \in docOverlaps
    BY <1>8, DocRequestIs DEF Keys, DocInv, OnDoc, UsesKey
  <2>6. GoodAt(d)'
    BY <1>1, <1>5, <1>6, <2>1, <2>5 DEF GoodAt, GoodRecord
  <2>7. SyncedAt(d)'
    BY <1>1, <1>2, <1>5, <2>1, <2>5 DEF SyncedAt, DocumentCached
  <2> QED
    BY <2>2, <2>3, <2>4, <2>6, <2>7
<1>11. \A x \in Docs, c \in Categories : Claims(x, c)' => Claims(x, c)
  <2> SUFFICES ASSUME NEW x \in Docs, NEW c \in Categories, Claims(x, c)' PROVE Claims(x, c)
    OBVIOUS
  <2>1. \A t \in DocThreads : docReq'[t].at = "save" => docReq'[t] = docReq[t]
    BY <1>3, <1>5
  <2> QED
    BY <1>1, <1>5, <2>1 DEF Claims, FiledUnder
<1>12. \A x \in Docs, c \in Categories : Backed(x, c)' <=> Backed(x, c)
  BY <1>1, <1>5 DEF Backed, FiledUnder
<1>13. ASSUME NEW x \in Docs, NEW c \in Categories, Claims(x, c), c \notin docOverlaps \cup docTroubled
       PROVE  Indexed(x, c)'
  <2>1. FiledUnder(x, c)
    BY <1>8, <1>13 DEF DocInv, CategoriesSound, Backed, Keys
  <2>2. index'[c] = x
    BY <1>1, <1>13, <2>1, IndexedFromStore
  <2> QED
    BY <2>2 DEF Indexed
<1>14. CategoriesSound'
  <2>1. \A x \in Docs, c \in Categories : Claims(x, c)' /\ c \notin docOverlaps' \cup docTroubled' =>
          Backed(x, c)' /\ Indexed(x, c)'
    BY <1>1, <1>11, <1>12, <1>13 DEF DocInv, CategoriesSound
  <2> QED
    BY <1>1, <1>11, <2>1, CategoriesKept DEF DocInv
<1> QED
  BY <1>7, <1>9, <1>10, <1>14 DEF DocInv, DocsSound

LEMMA RestartKeepsDocs == ASSUME DocInv, Restart PROVE DocInv'
<1>1. /\ UNCHANGED <<docFile, madeDocs, docOverlaps, snapshot>>
      /\ docTroubled' = docTroubled \cup DocsInProgress
      /\ \A d \in Docs : docs'[d] = IF docFile[d] # None THEN docFile[d].document ELSE None
      /\ \A d \in Docs : chains'[d] = IF docFile[d] # None THEN docFile[d].versions ELSE None
      /\ index' \in [Categories -> {None} \cup Docs]
      /\ \A c \in Categories : (\E e \in StoredDocs : docFile[e].document.category = c) => MayIndex(c, index'[c])
      /\ docReq' = [t \in DocThreads |-> DocIdle]
      /\ restore' = NoRestore
  BY DEF Restart, DocumentsOnStart, StoredDocs
<1>2. restore'.at = "idle" /\ DocIdle.at = "idle" /\ DocIdle \in DocRequests
  BY <1>1 DEF NoRestore, DocIdle, DocRequests
<1>3. /\ \A x : \A t \in DocThreads : ~OnDoc(t, x)'
      /\ \A k : \A t \in DocThreads : ~UsesKey(t, k)'
  BY <1>1 DEF OnDoc, UsesKey
<1>4. \A d \in Docs : docFile[d] # None =>
        docFile[d].document \in Document /\ docFile[d].versions \in Histories /\ docFile[d].document # None
        /\ docFile[d].versions # None
  BY StoredIs DEF DocInv
<1>5. DocType'
  <2>1. docs' = [d \in Docs |-> docs'[d]] /\ chains' = [d \in Docs |-> chains'[d]]
    BY DEF Restart, DocumentsOnStart
  <2>2. docs' \in DocTables /\ chains' \in ChainTables
    BY <1>1, <1>4, <2>1 DEF DocTables, ChainTables
  <2>3. docFile' \in FileTables /\ madeDocs' \in SUBSET Docs /\ (snapshot' # None => snapshot'.docs \in FileTables)
    BY <1>1 DEF DocInv, DocType
  <2>4. RestoreWellFormed'
    BY <1>1, <1>2 DEF RestoreWellFormed
  <2>5. docReq' \in [DocThreads -> DocRequests] /\ \A t \in DocThreads : docReq'[t] = DocIdle /\ docReq'[t].at = "idle"
    BY <1>1, <1>2
  <2> QED
    BY <1>1, <1>2, <2>2, <2>3, <2>4, <2>5 DEF DocType
<1>6. DocAlone'
  BY <1>3 DEF DocAlone
<1>7. ASSUME NEW d \in Docs PROVE FreshAt(d)' /\ BuiltAt(d)' /\ EnteredAt(d)' /\ GoodAt(d)' /\ SyncedAt(d)'
  <2>1. FreshAt(d) /\ BuiltAt(d) /\ GoodAt(d)
    BY DEF DocInv, DocsSound
  <2>2. FreshAt(d)'
    BY <1>1, <1>3, <2>1 DEF FreshAt, Unmade
  <2>3. BuiltAt(d)'
    BY <1>1, <1>3, <2>1 DEF BuiltAt
  <2>4. EnteredAt(d)'
    BY <1>3 DEF EnteredAt
  <2>5. GoodAt(d)'
    BY <1>1, <1>3, <1>4, <2>1 DEF GoodAt, GoodRecord
  <2>6. SyncedAt(d)'
    BY <1>1, <1>2, <1>3 DEF SyncedAt, DocumentCached
  <2> QED
    BY <2>2, <2>3, <2>4, <2>5, <2>6
<1>8. \A x \in Docs, c \in Categories : Claims(x, c)' => Claims(x, c)
  BY <1>1, <1>3 DEF Claims, FiledUnder
<1>9. ASSUME NEW x \in Docs, NEW c \in Categories, Claims(x, c), c \notin docOverlaps \cup docTroubled'
       PROVE  Backed(x, c)' /\ Indexed(x, c)'
  <2>1. \A t \in DocThreads : ~UsesKey(t, c)
    BY <1>1, <1>9 DEF UsesKey, DocsInProgress, DocActive
  <2>2. c \notin docOverlaps \cup docTroubled
    BY <1>1, <1>9
  <2>3. FiledUnder(x, c)
    BY <1>9, <2>1, <2>2 DEF DocInv, CategoriesSound, Backed
  <2>4. FiledUnder(x, c)' /\ \E e \in StoredDocs : docFile[e].document.category = c
    BY <1>1, <2>3 DEF FiledUnder, StoredDocs
  <2>5. index'[c] = x
    BY <1>1, <2>2, <2>3, <2>4, IndexedFromStore
  <2> QED
    BY <2>4, <2>5 DEF Backed, Indexed
<1>10. CategoriesSound'
  <2>1. \A x \in Docs, c \in Categories : Claims(x, c)' /\ c \notin docOverlaps' \cup docTroubled' =>
          Backed(x, c)' /\ Indexed(x, c)'
    BY <1>1, <1>8, <1>9
  <2> QED
    BY <1>1, <1>8, <2>1, CategoriesKept DEF DocInv
<1> QED
  BY <1>5, <1>6, <1>7, <1>10 DEF DocInv, DocsSound

LEMMA DocsUnchanged ==
  ASSUME DocInv, UNCHANGED <<docVars, snapshot, restore, failedRestore>>
  PROVE  DocInv'
<1>1. /\ UNCHANGED <<docs, chains, index, docFile, docReq, madeDocs, docOverlaps, docTroubled, snapshot, restore,
                     failedRestore>>
      /\ \A x : \A u \in DocThreads : OnDoc(u, x)' <=> OnDoc(u, x)
      /\ \A k : \A u \in DocThreads : UsesKey(u, k)' <=> UsesKey(u, k)
  BY DEF docVars, OnDoc, UsesKey
<1>2. DocType' /\ DocAlone'
  BY <1>1 DEF DocInv, DocType, DocAlone, RestoreWellFormed, UsesKey, Restoring
<1>3. ASSUME NEW d \in Docs PROVE FreshAt(d)' /\ BuiltAt(d)' /\ EnteredAt(d)' /\ GoodAt(d)' /\ SyncedAt(d)'
  <2>1. FreshAt(d) /\ BuiltAt(d) /\ EnteredAt(d) /\ GoodAt(d) /\ SyncedAt(d)
    BY DEF DocInv, DocsSound
  <2>2. FreshAt(d)' /\ BuiltAt(d)' /\ EnteredAt(d)' /\ GoodAt(d)'
    BY <1>1, <2>1 DEF FreshAt, Unmade, BuiltAt, EnteredAt, GoodAt
  <2>3. SyncedAt(d)'
    BY <1>1, <2>1 DEF SyncedAt, Restoring, DocumentCached
  <2> QED
    BY <2>2, <2>3
<1>4. \A x \in Docs, c \in Categories :
        /\ Claims(x, c)' <=> Claims(x, c)
        /\ Backed(x, c)' <=> Backed(x, c)
        /\ Indexed(x, c)' <=> Indexed(x, c)
  BY <1>1 DEF Claims, Backed, Indexed, FiledUnder
<1>5. CategoriesSound'
  BY <1>1, <1>4 DEF DocInv, CategoriesSound
<1> QED
  BY <1>2, <1>3, <1>5 DEF DocInv, DocsSound

LEMMA RestoreStepKeepsDocs ==
  ASSUME DocInv, RestoreStep
  PROVE  DocInv'
<1>1. CASE NextStore
  <2>1. /\ restore.at = "objects" /\ restore'.at = "documents" /\ RestoreWellFormed'
        /\ restore # NoRestore /\ restore' # NoRestore /\ UNCHANGED <<docVars, snapshot>>
    BY <1>1 DEF NextStore, RestoreWellFormed, NoRestore
  <2>2. restore'.todo = {d \in DOMAIN snapshot.docs : snapshot.docs[d] # None} /\ snapshot # None
    BY <1>1 DEF NextStore, KeysToRestore, DocInv, DocType
  <2>3. \A d \in restore'.todo : d \in Docs /\ snapshot.docs[d] # None
    BY <2>2 DEF DocInv, DocType, FileTables
  <2> QED
    BY <2>1, <2>2, <2>3, RestoringKeepsDocs DEF Restoring
<1>2. CASE \E o \in Objects : RestoreObject(o)
  <2>1. /\ restore.at = "objects" /\ restore'.at = "objects" /\ RestoreWellFormed'
        /\ restore # NoRestore /\ restore' # NoRestore /\ UNCHANGED <<docVars, snapshot>>
    BY <1>2 DEF RestoreObject, RestoreWellFormed, NoRestore, DocInv, DocType
  <2>2. snapshot # None
    BY <2>1 DEF DocInv, DocType
  <2> QED
    BY <2>1, <2>2, RestoringKeepsDocs DEF Restoring
<1>3. CASE RestoreRaises
  <2>1. restore.at \in {"objects", "documents"} /\ restore' = NoRestore /\ failedRestore'
        /\ UNCHANGED <<docVars, snapshot>>
    BY <1>3 DEF RestoreRaises
  <2>2. RestoreWellFormed' /\ restore'.at = "idle"
    BY <2>1 DEF RestoreWellFormed, NoRestore
  <2> QED
    BY <2>1, <2>2, RestoringKeepsDocs DEF Restoring
<1>4. CASE ReloadObjects
  <2>1. /\ restore.at = "documents" /\ restore'.at = "fill_objects" /\ RestoreWellFormed'
        /\ restore # NoRestore /\ restore' # NoRestore /\ UNCHANGED <<docVars, snapshot>>
    BY <1>4 DEF ReloadObjects, RestoreWellFormed, NoRestore
  <2> QED
    BY <2>1, RestoringKeepsDocs DEF Restoring
<1>5. CASE RefillObjects
  <2>1. /\ restore.at = "fill_objects" /\ restore'.at = "clear_documents" /\ RestoreWellFormed'
        /\ restore # NoRestore /\ restore' # NoRestore /\ UNCHANGED <<docVars, snapshot>>
    BY <1>5 DEF RefillObjects, RestoreWellFormed, NoRestore
  <2> QED
    BY <2>1, RestoringKeepsDocs DEF Restoring
<1> QED
  BY <1>1, <1>2, <1>3, <1>4, <1>5, BeginRestoreKeepsDocs, RestoreDocumentKeeps, ReloadDocumentsKeeps,
     RefillDocumentsKeeps DEF RestoreStep

LEMMA DocNext == DocInv /\ [StoresNext]_restoreVars => DocInv'
<1> SUFFICES ASSUME DocInv, [StoresNext]_restoreVars PROVE DocInv'
  OBVIOUS
<1>1. CASE UNCHANGED restoreVars
  BY <1>1, DocsUnchanged DEF restoreVars, backupVars
<1>2. ASSUME NEW t \in DocThreads, CanonStep(t), UNCHANGED <<snapshot, restore, objVars, export, failedRestore>>
      PROVE  DocInv'
  BY <1>2, CanonStepKeeps
<1>3. ASSUME NEW t \in ObjThreads, ObjStep(t), UNCHANGED <<snapshot, restore, docVars, export, failedRestore>>
      PROVE  DocInv'
  BY <1>3, DocsUnchanged
<1>4. CASE Export
  BY <1>4, DocsUnchanged DEF Export
<1> QED
  BY <1>1, <1>2, <1>3, <1>4, ExportKeepsDocs, RestoreStepKeepsDocs, RestartKeepsDocs DEF StoresNext

LEMMA DocInitial == StoresInit => DocInv
<1> SUFFICES ASSUME StoresInit PROVE DocInv
  OBVIOUS
<1>1. /\ docs = [d \in Docs |-> None] /\ chains = docs /\ docFile = docs
      /\ index = [c \in Categories |-> None]
      /\ docReq = [t \in DocThreads |-> DocIdle] /\ madeDocs = {}
      /\ snapshot = None /\ restore = NoRestore
  BY DEF StoresInit, CanonInit
<1>2. DocIdle.at = "idle" /\ restore.at = "idle"
  BY <1>1 DEF DocIdle, NoRestore
<1>3. DocType
  BY <1>1, <1>2 DEF DocType, DocTables, ChainTables, FileTables, DocRequests, RestoreWellFormed, NoRestore
<1>4. \A t \in DocThreads : \A k : ~OnDoc(t, k) /\ ~UsesKey(t, k)
  BY <1>1 DEF OnDoc, UsesKey
<1>5. DocAlone
  BY <1>4 DEF DocAlone
<1>6. \A d \in Docs : FreshAt(d) /\ BuiltAt(d) /\ EnteredAt(d) /\ GoodAt(d)
  BY <1>1, <1>4 DEF FreshAt, Unmade, BuiltAt, EnteredAt, GoodAt
<1>7. \A d \in Docs : SyncedAt(d)
  BY <1>1, <1>2, <1>4 DEF SyncedAt, DocumentCached
<1>8. \A d \in Docs, c \in Categories : ~Claims(d, c)
  BY <1>1, <1>4 DEF Claims, FiledUnder
<1> QED
  BY <1>3, <1>5, <1>6, <1>7, <1>8 DEF DocInv, DocsSound, CategoriesSound

(* The inductive invariant of the documents, in memory, in the store, in    *)
(* the snapshot and in the requests that are under way.                     *)
THEOREM DocumentsInv == StoresSpec => []DocInv
  BY DocInitial, DocNext, PTL DEF StoresSpec

(* Every version was computed from one below it in the same chain, in       *)
(* memory and in the store, for any number of request threads, documents    *)
(* and versions, however publications, restores and deaths overlap          *)
(* (canonical_repository/store.py, publish_version).                        *)
THEOREM PredecessorsStay == StoresSpec => []PredecessorsKept
<1>1. DocInv => PredecessorsKept
  BY DEF DocInv, DocsSound, BuiltAt, PredecessorsKept
<1> QED
  BY <1>1, DocumentsInv, PTL

(* A stored record whose requests never overlapped verifies, counts its     *)
(* versions from 1 without a gap and names the last one as current, though  *)
(* saves raise and the process dies (canonical_repository/store.py,         *)
(* verify_chain and latest_version).                                        *)
THEOREM StoredChainsAreWhole == StoresSpec => []StoredChainsVerify
<1>1. DocInv => StoredChainsVerify
  BY DEF DocInv, DocsSound, GoodAt, GoodRecord, Good, StoredChainsVerify
<1> QED
  BY <1>1, DocumentsInv, PTL

(* Two stored documents share a category only when their registrations      *)
(* overlapped each other or a restore, or one could not be saved            *)
(* (canonical_repository/store.py, register: DuplicateCategoryError).       *)
THEOREM CategoriesStayUnique == StoresSpec => []CategoriesAreUnique
<1>1. DocInv => CategoriesAreUnique
  <2> SUFFICES ASSUME DocInv, NEW d \in StoredDocs, NEW e \in StoredDocs, d # e,
                      docFile[d].document.category = docFile[e].document.category,
                      docFile[d].document.category \notin docOverlaps \cup docTroubled
               PROVE  FALSE
    BY DEF CategoriesAreUnique
  <2>1. PICK c : c = docFile[d].document.category
    OBVIOUS
  <2>2. d \in Docs /\ e \in Docs /\ docFile[d] # None /\ docFile[e] # None
    BY DEF StoredDocs
  <2>3. c \in Categories
    BY <2>1, <2>2, StoredIs DEF DocInv
  <2>4. Claims(d, c) /\ Claims(e, c)
    BY <2>1, <2>2 DEF Claims, FiledUnder
  <2> QED
    BY <2>1, <2>2, <2>3, <2>4 DEF DocInv, CategoriesSound
<1> QED
  BY <1>1, DocumentsInv, PTL

(* What a document and an object have in memory is what the store has when  *)
(* nothing is in progress, unless a save raised, requests overlapped or a   *)
(* restore ended early, for any number of threads, documents and objects    *)
(* (main.py, restore_backup; reload_from_persistent_store of both stores).  *)
THEOREM MemoryStaysStored == StoresSpec => []MemoryIsStored
<1>1. ObjInv /\ DocInv => MemoryIsStored
  <2> SUFFICES ASSUME ObjInv, DocInv, ~Restoring, ~failedRestore
               PROVE  /\ \A d \in Docs \ (docOverlaps \cup docTroubled \cup DocsInProgress) : DocumentCached(d)
                      /\ \A o \in Objects \ (objOverlaps \cup objTroubled \cup ObjsInProgress) :
                           objects[o] = objFile[o]
    BY DEF MemoryIsStored
  <2>1. ASSUME NEW d \in Docs \ (docOverlaps \cup docTroubled \cup DocsInProgress) PROVE DocumentCached(d)
    <3>1. \A t \in DocThreads : ~OnDoc(t, d)
      BY DocRequestIs DEF DocInv, OnDoc, DocsInProgress, DocActive
    <3> QED
      BY <3>1 DEF DocInv, DocsSound, SyncedAt
  <2>2. ASSUME NEW o \in Objects \ (objOverlaps \cup objTroubled \cup ObjsInProgress) PROVE objects[o] = objFile[o]
    <3>1. ~Changing(o)
      BY DEF Changing, WorksOn, ObjsInProgress, ObjActive
    <3> QED
      BY <3>1 DEF ObjInv, ObjSynced
  <2> QED
    BY <2>1, <2>2
<1> QED
  BY <1>1, RegistryObjInv, DocumentsInv, PTL
=============================================================================
