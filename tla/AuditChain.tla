----------------------------- MODULE AuditChain -----------------------------
(***************************************************************************)
(* CryptoAuditEmitter over a file store, services/crypto_audit_emitter.py. *)
(* emit and reload_from_store hold one lock, so calls of one process do    *)
(* not overlap; each is cut into the steps between which the process may   *)
(* die or a file operation may fail.  Deployment with several workers is   *)
(* excluded by the module's own docstring.                                 *)
(*                                                                         *)
(* SHA-256 is taken to be injective: the hash of an entry is the sequence  *)
(* of the events up to it, << >> standing for the 64 zeros.                *)
(***************************************************************************)
EXTENDS RecordFiles, Integers, Sequences, FiniteSetsExt

CONSTANTS
  Events,      \* what callers emit
  MaxEntries   \* bound: entries in the chain

ASSUME MaxEntriesIsNat == MaxEntries \in Nat \ {0}

(* What the files hold. *)
Entry == [event : Events, previous_hash : Seq(Events)]
Manifest == [count : 1..MaxEntries, last_hash : Seq(Events)]

ASSUME NeitherIsAMark == Marks \cap Entry = {} /\ Marks \cap Manifest = {}

VARIABLES
  entries,     \* the files audit_entry_<index>
  manifest,    \* the file audit_manifest
  running,     \* whether the service is up
  chain,       \* _chain
  is_corrupt,  \* _is_corrupt
  call,        \* the emit that holds the lock
  returned,    \* history variable: the entry_hash of every entry emit returned
  damage       \* history variable: what happened to the store from outside

vars == <<entries, manifest, running, chain, is_corrupt, call, returned, damage>>

Indexes == 0..MaxEntries

Zeros == << >>

Hash(entry) == Append(entry.previous_hash, entry.event)

LastHash(entries_) == IF entries_ = << >> THEN Zeros ELSE Hash(entries_[Len(entries_)])

Idle == [at |-> "idle"]

-----------------------------------------------------------------------------
(* _load_from_store                                                        *)

(* The count of the manifest bounds the walk over the entries.             *)
Expected == IF Readable(manifest) THEN manifest.count ELSE MaxEntries

(* The first index the walk does not get past.                             *)
LoadedCount ==
  Min({i \in Indexes : i = Expected \/ ~Readable(entries[i])})

(* A torn manifest, or a torn entry the walk comes to: JSONDecodeError.    *)
LoadRaises ==
  \/ Undecodable(manifest)
  \/ LoadedCount < Expected /\ Undecodable(entries[LoadedCount])

Loaded == [i \in 1..LoadedCount |-> entries[i - 1]]

LoadedIsCorrupt ==
  /\ Readable(manifest)
  /\ \/ LoadedCount # manifest.count
     \/ LoadedCount > 0 /\ LastHash(Loaded) # manifest.last_hash

-----------------------------------------------------------------------------
(* The life of the service                                                 *)

(* The constructor.  In production it is strict and raises for a corrupt   *)
(* store; elsewhere the service runs on with what could be loaded.         *)
Start(strict) ==
  /\ ~running
  /\ ~LoadRaises
  /\ strict => ~LoadedIsCorrupt
  /\ running' = TRUE
  /\ chain' = Loaded
  /\ is_corrupt' = LoadedIsCorrupt
  /\ damage' = IF LoadedIsCorrupt THEN "tolerated" ELSE damage
  /\ UNCHANGED <<entries, manifest, call, returned>>

(* reload_from_store.  The flag is cleared before anything is read, and    *)
(* the loaded chain is kept before a strict call raises.                   *)
Reload ==
  /\ running /\ call = Idle
  /\ IF LoadRaises
     THEN /\ is_corrupt' = FALSE
          /\ UNCHANGED <<chain, damage>>
     ELSE /\ is_corrupt' = LoadedIsCorrupt
          /\ chain' = Loaded
          /\ damage' = IF LoadedIsCorrupt THEN "tolerated" ELSE damage
  /\ UNCHANGED <<entries, manifest, running, call, returned>>

(* The process dies, wherever it is.                                       *)
Crash ==
  /\ running
  /\ running' = FALSE
  /\ chain' = << >>
  /\ is_corrupt' = FALSE
  /\ call' = Idle
  /\ UNCHANGED <<entries, manifest, returned, damage>>

-----------------------------------------------------------------------------
(* emit                                                                    *)

(* The key of the entry is the length of the chain in memory.              *)
EntryIndex == Len(chain)

(* emit takes the lock and computes the entry.                             *)
Emit(event) ==
  /\ running /\ call = Idle
  /\ Len(chain) < MaxEntries
  /\ call' = [at |-> "entry", index |-> EntryIndex,
              entry |-> [event |-> event, previous_hash |-> LastHash(chain)]]
  /\ UNCHANGED <<entries, manifest, running, chain, is_corrupt, returned, damage>>

OpenEntry ==
  /\ call.at = "entry"
  /\ entries' = [entries EXCEPT ![call.index] = Partial]
  /\ call' = [call EXCEPT !.at = "entry opened"]
  /\ UNCHANGED <<manifest, running, chain, is_corrupt, returned, damage>>

WriteEntry ==
  /\ call.at = "entry opened"
  /\ entries' = [entries EXCEPT ![call.index] = call.entry]
  /\ call' = [call EXCEPT !.at = "manifest"]
  /\ UNCHANGED <<manifest, running, chain, is_corrupt, returned, damage>>

(* Saving the entry fails, before the file was opened or after: emit       *)
(* raises AuditPersistenceError and leaves the file as it is.              *)
EntryFails ==
  /\ call.at \in {"entry", "entry opened"}
  /\ call' = Idle
  /\ UNCHANGED <<entries, manifest, running, chain, is_corrupt, returned, damage>>

OpenManifest ==
  /\ call.at = "manifest"
  /\ manifest' = Partial
  /\ call' = [call EXCEPT !.at = "manifest opened"]
  /\ UNCHANGED <<entries, running, chain, is_corrupt, returned, damage>>

(* A defect: the hash of the entry before.                                 *)
ManifestMissesHash(index, entry) ==
  [count |-> index + 1, last_hash |-> entry.previous_hash]

ManifestFor(index, entry) == [count |-> index + 1, last_hash |-> Hash(entry)]

WriteManifest ==
  /\ call.at = "manifest opened"
  /\ manifest' = ManifestFor(call.index, call.entry)
  /\ call' = [call EXCEPT !.at = "return"]
  /\ UNCHANGED <<entries, running, chain, is_corrupt, returned, damage>>

(* A defect: the entry is kept in memory although emit raises.             *)
ManifestFailsKept ==
  /\ call.at \in {"manifest", "manifest opened"}
  /\ call' = Idle
  /\ chain' = Append(chain, call.entry)
  /\ UNCHANGED <<entries, manifest, running, is_corrupt, returned, damage>>

(* A defect: the failure is ignored and the entry returned.                *)
ManifestFailsIgnored ==
  /\ call.at \in {"manifest", "manifest opened"}
  /\ call' = [call EXCEPT !.at = "return"]
  /\ UNCHANGED <<entries, manifest, running, chain, is_corrupt, returned, damage>>

(* Saving the manifest fails, before the file was opened or after: emit    *)
(* deletes the entry, ignores a failure to, and raises.                    *)
ManifestFails ==
  /\ call.at \in {"manifest", "manifest opened"}
  /\ call' = Idle
  /\ entries' \in {entries, [entries EXCEPT ![call.index] = Absent]}
  /\ UNCHANGED <<manifest, running, chain, is_corrupt, returned, damage>>

Return ==
  /\ call.at = "return"
  /\ chain' = Append(chain, call.entry)
  /\ returned' = returned \cup {Hash(call.entry)}
  /\ call' = Idle
  /\ UNCHANGED <<entries, manifest, running, is_corrupt, damage>>

(* Somebody else removes an entry file.                                    *)
LoseEntry(i) ==
  /\ damage = "none"
  /\ Readable(entries[i])
  /\ entries' = [entries EXCEPT ![i] = Absent]
  /\ damage' = "entry lost"
  /\ UNCHANGED <<manifest, running, chain, is_corrupt, call, returned>>

-----------------------------------------------------------------------------

Init ==
  /\ entries = [i \in Indexes |-> Absent]
  /\ manifest = Absent
  /\ running = FALSE
  /\ chain = << >>
  /\ is_corrupt = FALSE
  /\ call = Idle
  /\ returned = {}
  /\ damage = "none"

Next ==
  \/ \E strict \in BOOLEAN : Start(strict)
  \/ Reload \/ Crash
  \/ \E event \in Events : Emit(event)
  \/ OpenEntry \/ WriteEntry \/ EntryFails
  \/ OpenManifest \/ WriteManifest \/ ManifestFails
  \/ Return
  \/ \E i \in Indexes : LoseEntry(i)

Spec == Init /\ [][Next]_vars

-----------------------------------------------------------------------------
(* verify_chain, for a manifest that can be decoded.                       *)
VerifyChain ==
  /\ ~is_corrupt
  /\ \A i \in 1..Len(chain) :
       chain[i].previous_hash = (IF i = 1 THEN Zeros ELSE Hash(chain[i - 1]))
  /\ Readable(manifest) =>
       /\ manifest.count = Len(chain)
       /\ chain # << >> => manifest.last_hash = LastHash(chain)

(* Whoever was given an audit entry finds it, under the same hash, in the  *)
(* chain of the running service: through crashes in any step of emit,      *)
(* failed writes and restarts, and through the loss of an entry file, for  *)
(* as long as no load has gone on with a store found corrupt.              *)
ReturnedEntriesStay ==
  running /\ damage # "tolerated" =>
    \A h \in returned : Len(h) <= Len(chain) /\ Hash(chain[Len(h)]) = h

(* No crash or failed write by itself makes a load report the store as     *)
(* corrupt: an operator who sees corruption_reason has lost something.     *)
CorruptOnlyIfDamaged ==
  damage = "none" => ~is_corrupt /\ (~LoadRaises => ~LoadedIsCorrupt)

(* Between calls the chain verifies against itself and the manifest, after *)
(* a failed emit and a restart too, unless the failure tore the manifest.  *)
(* (It need not once an entry is lost while there is no manifest yet:      *)
(* an orphaned second entry may then follow a new first one.)              *)
QuietChainVerifies ==
  running /\ call = Idle /\ damage = "none" /\ ~Undecodable(manifest) => VerifyChain
=============================================================================
