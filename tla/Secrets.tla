------------------------------ MODULE Secrets ------------------------------
(***************************************************************************)
(* The secrets of the tenants: the store (daemon/src/secrets/store.ts,     *)
(* factory.ts) and its backends, files (backends/file.ts), the keyring of  *)
(* the system (backends/keyring.ts) and memory (backends/memory.ts).       *)
(*                                                                         *)
(* A call is a row of steps with an await between them, and nothing keeps  *)
(* two calls apart. A file is replaced by a rename, so it is old or new; a *)
(* crash leaves what was renamed in place.                                 *)
(*                                                                         *)
(* Bounds: one call per caller at a time, MaxSecretCalls calls and         *)
(* MaxSecretFaults crashes and failed runs of the keyring's tool.          *)
(***************************************************************************)
EXTENDS Documents

CONSTANTS SecretTenants, SecretIds, Values, Callers, MaxSecretCalls, MaxSecretFaults

VARIABLES backend,    \* what the factory made of the configuration
          held,       \* slot -> [value, key] or Absent: .bin file, keyring entry or memory
          listed,     \* slot -> whether its metadata is on disk or in memory
          keyFile, aesKey, keysMade,   \* the AES key: on disk, in memory, ever made
          secretCalls,  \* caller -> the call under way
          callsMade, secretFaults,
          written,    \* history: [slot, value] of every set begun
          answers,    \* history: what the gets returned
          keysWritten,  \* history: the keys that were renamed in place
          disturbed   \* history: two calls overlapped, or one was cut short

keys == <<keyFile, aesKey, keysMade, keysWritten>>
told == <<callsMade, secretFaults, written, disturbed>>
vars == <<backend, held, listed, keys, secretCalls, answers, told>>

Slots == SecretTenants \X SecretIds

----------------------------------------------------------------------------
(* factory.ts: what kind, platform and mode lead to *)

PlatformMode(platform) == IF platform = "win32" THEN "dpapi" ELSE "aes-gcm"

CreateBackend(kind, mode, platform) ==
    CASE kind \in {"memory", "keyring", "dpapi"} -> kind
      [] kind = "file" -> Default(mode, PlatformMode(platform))
      [] kind = Absent /\ platform = "win32" -> "dpapi"
      [] kind = Absent /\ platform = "linux" -> "keyring"
      [] kind = Absent /\ platform \notin {"win32", "linux"} -> "aes-gcm"
      [] OTHER -> Bad

Backends == {CreateBackend(kind, mode, platform) :
                kind \in {Absent, "memory", "file", "dpapi", "keyring"},
                mode \in {Absent, "aes-gcm", "dpapi"},
                platform \in {"win32", "linux", "darwin"}}

----------------------------------------------------------------------------

None == [op |-> Absent]

Init ==
    /\ backend \in Backends \ {Bad}
    /\ held = [s \in Slots |-> Absent] /\ listed = [s \in Slots |-> FALSE]
    /\ keyFile = Absent /\ aesKey = Absent /\ keysMade = 0
    /\ secretCalls = [c \in Callers |-> None] /\ callsMade = 0 /\ secretFaults = 0
    /\ written = {} /\ answers = {} /\ keysWritten = 0 /\ disturbed = FALSE

At(c, op, at) == secretCalls[c].op = op /\ secretCalls[c].at = at
Slot(c) == secretCalls[c].slot

Goes(c, at) == secretCalls' = [secretCalls EXCEPT ![c].at = at]
Ends(c) == secretCalls' = [secretCalls EXCEPT ![c] = None]

\* A call of the store. A reference to another tenant's secret is refused
\* before the backend is asked, so the tenant of the slot is the caller's.
Begins(c, op, slot, value) ==
    /\ secretCalls[c] = None /\ callsMade < MaxSecretCalls
    /\ callsMade' = callsMade + 1
    /\ secretCalls' = [secretCalls EXCEPT ![c] =
            [op |-> op, at |-> "start", slot |-> slot, value |-> value, key |-> Absent,
             index |-> {}]]
    /\ disturbed' = (disturbed \/ \E d \in Callers : secretCalls[d] # None)

GetFromRef(c, tenant, ref) ==
    /\ ref[1] = tenant
    /\ Begins(c, "get", ref, Absent)
    /\ UNCHANGED <<backend, held, listed, keys, secretFaults, written, answers>>

Set(c, slot, value) ==
    /\ Begins(c, "set", slot, value)
    /\ written' = written \cup {[slot |-> slot, value |-> value]}
    /\ UNCHANGED <<backend, held, listed, keys, secretFaults, answers>>

Delete(c, slot) ==
    /\ Begins(c, "delete", slot, Absent)
    /\ UNCHANGED <<backend, held, listed, keys, secretFaults, written, answers>>

\* list and exportManifest: only what the metadata tells.
List(tenant) == {s \in Slots : s[1] = tenant /\ listed[s]}

----------------------------------------------------------------------------
(* memory.ts: every call is one step *)

Answer(c, value) == answers' = answers \cup {[slot |-> Slot(c), value |-> value]}

MemoryCall(c) ==
    /\ backend = "memory"
    /\ \/ /\ At(c, "set", "start")
          /\ held' = [held EXCEPT ![Slot(c)] = [value |-> secretCalls[c].value, key |-> 0]]
          /\ listed' = [listed EXCEPT ![Slot(c)] = TRUE]
          /\ UNCHANGED answers
       \/ /\ At(c, "delete", "start")
          /\ held' = [held EXCEPT ![Slot(c)] = Absent]
          /\ listed' = [listed EXCEPT ![Slot(c)] = FALSE]
          /\ UNCHANGED answers
       \/ /\ At(c, "get", "start")
          /\ Answer(c, IF held[Slot(c)] = Absent THEN Absent ELSE held[Slot(c)].value)
          /\ UNCHANGED <<held, listed>>
    /\ Ends(c)
    /\ UNCHANGED <<backend, keys, told>>

----------------------------------------------------------------------------
(* file.ts *)

InFiles == backend \in {"aes-gcm", "dpapi"}

\* loadAesKey: the key in memory, else the one on disk, else a new one, which
\* is written before it is used. dpapi needs none. key is the call's own.
KeyLoaded(c, key, at) ==
    secretCalls' = [secretCalls EXCEPT ![c].key = key, ![c].at = at]

LoadKey(c, op, from, to) ==
    /\ InFiles /\ At(c, op, from)
    /\ CASE backend = "dpapi" -> KeyLoaded(c, 0, to) /\ UNCHANGED <<aesKey, keysMade>>
         [] backend # "dpapi" /\ aesKey # Absent ->
                KeyLoaded(c, aesKey, to) /\ UNCHANGED <<aesKey, keysMade>>
         [] backend # "dpapi" /\ aesKey = Absent /\ keyFile # Absent ->
                KeyLoaded(c, keyFile, to) /\ aesKey' = keyFile /\ UNCHANGED keysMade
         [] OTHER ->
                KeyLoaded(c, keysMade + 1, "newkey") /\ keysMade' = keysMade + 1
                    /\ UNCHANGED aesKey
    /\ UNCHANGED <<backend, held, listed, keyFile, keysWritten, told, answers>>

\* Faulty variant: the key stays in memory.
KeyWritten_InMemory(c, op, to) ==
    /\ At(c, op, "newkey")
    /\ aesKey' = secretCalls[c].key
    /\ Goes(c, to)
    /\ UNCHANGED <<backend, held, listed, keyFile, keysWritten, keysMade, told, answers>>

\* The last to rename its key has it on disk and in memory.
KeyWritten(c, op, to) ==
    /\ At(c, op, "newkey")
    /\ keyFile' = secretCalls[c].key
    /\ aesKey' = secretCalls[c].key
    /\ keysWritten' = keysWritten + 1
    /\ Goes(c, to)
    /\ UNCHANGED <<backend, held, listed, keysMade, told, answers>>

\* set: the envelope, then the metadata.
BinWritten(c) ==
    /\ InFiles /\ At(c, "set", "bin")
    /\ held' = [held EXCEPT ![Slot(c)] =
                    [value |-> secretCalls[c].value, key |-> secretCalls[c].key]]
    /\ Goes(c, "meta")
    /\ UNCHANGED <<backend, listed, keys, told, answers>>

MetaWritten(c) ==
    /\ InFiles /\ At(c, "set", "meta")
    /\ listed' = [listed EXCEPT ![Slot(c)] = TRUE]
    /\ Ends(c)
    /\ UNCHANGED <<backend, held, keys, told, answers>>

\* get: the envelope is read, the key loaded, the value decrypted; a value
\* sealed with another key is corrupt.
BinRead(c) ==
    /\ InFiles /\ At(c, "get", "start")
    /\ IF held[Slot(c)] = Absent
       THEN Answer(c, Absent) /\ Ends(c)
       ELSE /\ secretCalls' = [secretCalls EXCEPT ![c].value = held[Slot(c)], ![c].at = "load"]
            /\ UNCHANGED answers
    /\ UNCHANGED <<backend, held, listed, keys, told>>

Decrypt(envelope, key) == IF envelope.key = key THEN envelope.value ELSE Bad

Decrypted(c) ==
    /\ InFiles /\ At(c, "get", "decrypt")
    /\ Answer(c, Decrypt(secretCalls[c].value, secretCalls[c].key))
    /\ Ends(c)
    /\ UNCHANGED <<backend, held, listed, keys, told>>

\* delete: the envelope first, so that a crash leaves metadata of nothing.
BinRemoved(c) ==
    /\ InFiles /\ At(c, "delete", "start")
    /\ held' = [held EXCEPT ![Slot(c)] = Absent]
    /\ Goes(c, "meta")
    /\ UNCHANGED <<backend, listed, keys, told, answers>>

MetaRemoved(c) ==
    /\ InFiles /\ At(c, "delete", "meta")
    /\ listed' = [listed EXCEPT ![Slot(c)] = FALSE]
    /\ Ends(c)
    /\ UNCHANGED <<backend, held, keys, told, answers>>

----------------------------------------------------------------------------
(* keyring.ts: the tool of the system, and an index of the names *)

\* The tool fails, or is killed by the timeout when it has or has not done its
\* work; the call is over.
ToolFails(c) ==
    /\ secretFaults < MaxSecretFaults
    /\ secretFaults' = secretFaults + 1
    /\ disturbed' = TRUE
    /\ Ends(c)

ToolRuns(c) == Goes(c, "index") /\ UNCHANGED <<secretFaults, disturbed>>

ToolStores(c) ==
    LET entry == [value |-> secretCalls[c].value, key |-> 0]
    IN  /\ backend = "keyring" /\ At(c, "set", "start")
        /\ \/ held' = [held EXCEPT ![Slot(c)] = entry] /\ ToolRuns(c)
           \/ held' \in {held, [held EXCEPT ![Slot(c)] = entry]} /\ ToolFails(c)
        /\ UNCHANGED <<backend, listed, keys, callsMade, written, answers>>

\* delete looks first: the tool does not tell whether there was anything.
ToolLooks(c) ==
    /\ backend = "keyring" /\ At(c, "delete", "start")
    /\ IF held[Slot(c)] = Absent THEN Ends(c) ELSE Goes(c, "clear")
    /\ UNCHANGED <<backend, held, listed, keys, told, answers>>

ToolClears(c) ==
    /\ backend = "keyring" /\ At(c, "delete", "clear")
    /\ \/ held' = [held EXCEPT ![Slot(c)] = Absent] /\ ToolRuns(c)
       \/ held' \in {held, [held EXCEPT ![Slot(c)] = Absent]} /\ ToolFails(c)
    /\ UNCHANGED <<backend, listed, keys, callsMade, written, answers>>

ToolFinds(c) ==
    /\ backend = "keyring" /\ At(c, "get", "start")
    /\ Answer(c, IF held[Slot(c)] = Absent THEN Absent ELSE held[Slot(c)].value)
    /\ Ends(c)
    /\ UNCHANGED <<backend, held, listed, keys, told>>

\* The index is read, changed and written whole: what another call wrote to it
\* in between is lost.
IndexRead(c) ==
    /\ backend = "keyring" /\ secretCalls[c] # None /\ secretCalls[c].at = "index"
    /\ secretCalls' = [secretCalls EXCEPT ![c].index = List(Slot(c)[1]), ![c].at = "write"]
    /\ UNCHANGED <<backend, held, listed, keys, told, answers>>

Indexed(c) ==
    IF secretCalls[c].op = "set" THEN secretCalls[c].index \cup {Slot(c)}
    ELSE secretCalls[c].index \ {Slot(c)}

IndexWritten(c) ==
    /\ backend = "keyring" /\ secretCalls[c] # None /\ secretCalls[c].at = "write"
    /\ listed' = [s \in Slots |-> IF s[1] = Slot(c)[1] THEN s \in Indexed(c) ELSE listed[s]]
    /\ Ends(c)
    /\ UNCHANGED <<backend, held, keys, told, answers>>

----------------------------------------------------------------------------

\* The keyring and the files survive; what is in memory does not.
Crash ==
    /\ secretFaults < MaxSecretFaults
    /\ secretFaults' = secretFaults + 1
    /\ secretCalls' = [c \in Callers |-> None]
    /\ aesKey' = Absent
    /\ disturbed' = (disturbed \/ \E c \in Callers : secretCalls[c] # None)
    /\ IF backend = "memory"
       THEN held' = [s \in Slots |-> Absent] /\ listed' = [s \in Slots |-> FALSE]
       ELSE UNCHANGED <<held, listed>>
    /\ UNCHANGED <<backend, keyFile, keysWritten, keysMade, callsMade, written, answers>>

Next ==
    \/ \E c \in Callers :
          \/ \E slot \in Slots, value \in Values : Set(c, slot, value)
          \/ \E slot \in Slots : Delete(c, slot)
          \/ \E tenant \in SecretTenants, ref \in Slots : GetFromRef(c, tenant, ref)
          \/ MemoryCall(c)
          \/ LoadKey(c, "set", "start", "bin") \/ KeyWritten(c, "set", "bin")
          \/ BinWritten(c) \/ MetaWritten(c)
          \/ BinRead(c) \/ LoadKey(c, "get", "load", "decrypt")
          \/ KeyWritten(c, "get", "decrypt") \/ Decrypted(c)
          \/ BinRemoved(c) \/ MetaRemoved(c)
          \/ ToolStores(c) \/ ToolLooks(c) \/ ToolClears(c) \/ ToolFinds(c)
          \/ IndexRead(c) \/ IndexWritten(c)
    \/ Crash

Spec == Init /\ [][Next]_vars

----------------------------------------------------------------------------
(* Properties *)

\* A get returns a value that was set for that tenant under that name, or says
\* that there is none; what is on disk can be read, across restarts, by the
\* key on disk. The exception is the first use: two calls that both find no key
\* each make one, and what was sealed with the key that loses is corrupt. And
\* calls that come one after the other, and are not cut short, leave listed what
\* is held, and nothing else, whichever the backend (secrets/types.ts:1-12).
SecretsKept ==
    /\ \A a \in answers :
          a.value = Absent \/ a \in written \/ (a.value = Bad /\ keysWritten > 1)
    /\ keysWritten <= 1 =>
          \A s \in Slots : held[s] # Absent => held[s].key \in {0, keyFile}
    /\ ~disturbed /\ (\A c \in Callers : secretCalls[c] = None) =>
          \A s \in Slots : listed[s] <=> held[s] # Absent
=============================================================================
