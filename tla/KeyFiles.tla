-------------------------------- MODULE KeyFiles --------------------------------
(***************************************************************************)
(* A node's key file: Save over a file system that may crash, the loads    *)
(* that check what they find (identity/key_file.go), and the file an       *)
(* operator seals under a key-encryption key (identity/sealed_key.go,      *)
(* sealed_key_load.go, sealed_kek.go).                                     *)
(*                                                                         *)
(* The path's directory entry is the sequence of files put there, in the   *)
(* order of their renames; the last one is what a reader finds.  A crash   *)
(* keeps any prefix of it that holds what a sync of the directory had      *)
(* covered, and may lose the contents of a file that was not synced.       *)
(***************************************************************************)
EXTENDS Checks, Naturals, Sequences, FiniteSetsExt

CONSTANTS
    Saver,        \* calls of Save, each of a key of its own
    Kek,          \* key-encryption keys
    MaxFiles,     \* bound on the files put at the path
    MaxCrashes    \* bound on the crashes

VARIABLES
    files,        \* the files put at the path, in order
    covered,      \* how many of them the directory's last sync covered
    saving,       \* each Save: how far it is
    staged,       \* the file each Save writes
    failed,       \* the Saves that met an error
    place,        \* the position each Save's rename gave its file
    kept,         \* history: the highest position of a Save that returned nil
    loading,      \* a load: how far it is, the position it opened, what Save had kept before
    crashes

keyvars == <<files, covered, saving, staged, failed, place, kept, loading, crashes>>

NoKek == "no_kek"
NoFile == [key |-> "none", form |-> "none", fault |-> "none", whole |-> FALSE, synced |-> FALSE,
           kek |-> NoKek]

\* What may be wrong with a file somebody else put at the path, in the order
\* the loads check it.
ReadFault == {"not_regular", "owner", "permissions", "too_large"}
BodyFault == {"bad", "algorithms"}
KeyFault == {"purpose", "profile", "private", "public", "size", "round_trip"}

\* Save's own file, and one of another hand that is there at the start.
Saved(s) == [NoFile EXCEPT !.key = s, !.form = "seed"]
Foreign(fault, form) ==
    [key |-> "foreign", form |-> form, fault |-> fault, whole |-> TRUE, synced |-> TRUE, kek |-> NoKek]

\* The file a reader finds at the path.
AtPath == files[Len(files)]

Idle == [at |-> "idle", position |-> 0, floor |-> 0]

KeyInit ==
    /\ files \in {<<>>} \union
                 {<<Foreign(fault, "seed")>> : fault \in ReadFault \union BodyFault \union KeyFault} \union
                 {<<Foreign("none", form)>> : form \in {"seed", "macula", "other"}}
    /\ covered = Len(files)
    /\ saving = [s \in Saver |-> "idle"]
    /\ staged = [s \in Saver |-> NoFile]
    /\ failed = {}
    /\ place = [s \in Saver |-> 0]
    /\ kept = 0
    /\ loading = Idle
    /\ crashes = 0

---------------------------------------------------------------------------
(* The checks of a load *)

\* readKeyFile: the path, then the opened file.
readKeyFile(f) ==
    << <<f.fault = "not_regular", "not_regular">>, <<f.fault = "owner", "owner">>,
       <<f.fault = "permissions", "permissions">>, <<f.fault = "too_large", "too_large">> >>

\* The file's halves are read to its end and fit the profile they name.
parseHalves(f) == f.whole /\ f.fault # "bad"
halvesFit(f) == f.fault # "algorithms"

\* checkedKey, of a key for the purpose and the profile LoadKey is asked for; a
\* sealed load takes those the file names.
askedFor(f) == << <<f.fault = "purpose", "purpose">>, <<f.fault = "profile", "profile">> >>

\* checkedKey and roundTrip: each half derives its public key, and the whole signs.
checkedKey(f) ==
    << <<~halvesFit(f), "algorithms">>, <<f.fault = "private", "private">>, <<f.fault = "public", "public">>,
       <<f.fault = "size", "size">>, <<f.fault = "round_trip", "round_trip">> >>

\* LoadKey reads the seed form alone.
LoadKey(f) ==
    FirstFault(readKeyFile(f) \o << <<f.form # "seed" \/ ~parseHalves(f), "bad_key_file">> >> \o askedFor(f)
               \o checkedKey(f))

\* A plaintext file, of this package's form or macula's own.
parseSealedPayload(f) ==
    << <<f.form \notin {"seed", "macula"} \/ ~parseHalves(f) \/ ~halvesFit(f), "bad_plaintext">> >>

\* Where a KEK comes from, and what KEKFromFile may find wrong with its file.
KekFile == [kek : Kek \union {NoKek}, fault : {"none", "not_configured", "unreadable", "not_regular", "owner",
                                "permissions", "same_filesystem", "size"}]
KEKFromFile(k) == << <<k.fault # "none", k.fault>> >>

\* Sealing copies a key the payload's checks pass, under a header that names the
\* key and the KEK.
SealKeyFile(f, kek) == [f EXCEPT !.form = "sealed", !.kek = kek]

\* The payload a sealed file opens to.
Payload(f) == [f EXCEPT !.form = "seed"]

\* A sealed file: its KEK by the header, the tag, the payload, and the header
\* held to what is inside it.
UnsealKeyFile(f, kek) ==
    << <<~f.whole, "bad_sealed_file">>, <<f.kek # kek, "wrong_kek">>, <<f.fault = "bad", "not_authentic">> >>
       \o parseSealedPayload(Payload(f)) \o checkedKey(f)

\* Under mode, with a KEK's file, for a key that must be expected unless "any".
LoadSealedKey(f, mode, k, expected) ==
    FirstFault(readKeyFile(f)
        \o (IF f.form = "sealed" THEN KEKFromFile(k) \o UnsealKeyFile(f, k.kek)
            ELSE << <<mode = "sealed_required", "plaintext_refused">> >> \o parseSealedPayload(f) \o checkedKey(f))
        \o << <<expected \notin {"any", f.key}, "key_id">> >>)

---------------------------------------------------------------------------
(* Save *)

\* Step s from a to b, with the staged file as given.
Steps(s, a, b, file) ==
    /\ saving[s] = a
    /\ saving' = [saving EXCEPT ![s] = b]
    /\ staged' = [staged EXCEPT ![s] = file]

\* Save, or loadOrCreateKey that found no file and generates a key first.
SaveBegins(s) ==
    /\ \/ Steps(s, "idle", "making", NoFile)
       \/ files = <<>> /\ Steps(s, "idle", "generating", NoFile)
       \/ Steps(s, "generating", "making", NoFile)
    /\ UNCHANGED <<files, covered, failed, place, kept, loading, crashes>>

\* MkdirTemp and the staged file, created exclusively, for its owner alone.
Stage(s) ==
    /\ Steps(s, "making", "writing", Saved(s))
    /\ UNCHANGED <<files, covered, failed, place, kept, loading, crashes>>

\* Mutant: the file is closed without a sync.
WriteUnsynced(s) ==
    \/ Steps(s, "writing", "syncing", [staged[s] EXCEPT !.whole = TRUE])
    \/ Steps(s, "syncing", "renaming", staged[s])

\* writeRestricted: written, then synced and closed.
writeRestricted(s) ==
    \/ Steps(s, "writing", "syncing", [staged[s] EXCEPT !.whole = TRUE])
    \/ Steps(s, "syncing", "renaming", [staged[s] EXCEPT !.synced = TRUE])

Write(s) ==
    /\ writeRestricted(s)
    /\ UNCHANGED <<files, covered, failed, place, kept, loading, crashes>>

\* The rename puts the file at the path, over any file there.
Rename(s) ==
    /\ Len(files) < MaxFiles
    /\ Steps(s, "renaming", "covering", NoFile)
    /\ files' = Append(files, staged[s])
    /\ place' = [place EXCEPT ![s] = Len(files) + 1]
    /\ UNCHANGED <<covered, failed, kept, loading, crashes>>

\* syncDir covers every rename so far.
SyncDir(s) ==
    /\ Steps(s, "covering", "removing", NoFile)
    /\ covered' = Len(files)
    /\ UNCHANGED <<files, failed, place, kept, loading, crashes>>

\* A step fails: what is staged is removed.  After the rename the file stays.
SaveFails(s) ==
    /\ \E a \in {"making", "writing", "syncing", "renaming", "covering"} : Steps(s, a, "removing", NoFile)
    /\ failed' = failed \union {s}
    /\ UNCHANGED <<files, covered, place, kept, loading, crashes>>

\* The staging directory is removed and Save returns; a removal that fails is
\* an error too.
SaveReturns(s) ==
    /\ Steps(s, "removing", "idle", NoFile)
    /\ kept' \in {kept} \union IF s \in failed THEN {} ELSE {Max({kept, place[s]})}
    /\ failed' = failed \ {s}
    /\ place' = [place EXCEPT ![s] = 0]
    /\ UNCHANGED <<files, covered, loading, crashes>>

---------------------------------------------------------------------------
(* Loads, an operator who seals, and crashes *)

\* Stat finds a file; the open comes later, and may find a newer one.
LoadStats ==
    /\ loading.at = "idle" /\ files # <<>>
    /\ loading' = [Idle EXCEPT !.at = "statted", !.floor = kept]
    /\ UNCHANGED <<files, covered, saving, staged, failed, place, kept, crashes>>

LoadOpens ==
    /\ loading.at = "statted" /\ files # <<>>
    /\ loading' = [loading EXCEPT !.at = "opened", !.position = Len(files)]
    /\ UNCHANGED <<files, covered, saving, staged, failed, place, kept, crashes>>

\* The opened file is read and checked, and not refused by both LoadKey, and
\* LoadSealedKey under every mode, KEK's file and expected key.
LoadReads ==
    /\ loading.at = "opened"
    /\ ~(/\ LoadKey(files[loading.position]) # "none"
         /\ \A mode \in {"accept", "sealed_required"}, k \in KekFile, expected \in {"any", "foreign"} \union Saver :
               LoadSealedKey(files[loading.position], mode, k, expected) # "none")
    /\ loading' = [loading EXCEPT !.at = "loaded"]
    /\ UNCHANGED <<files, covered, saving, staged, failed, place, kept, crashes>>

\* The key is used, or the load was refused.
LoadEnds ==
    /\ loading.at \in {"opened", "loaded"}
    /\ loading' = Idle
    /\ UNCHANGED <<files, covered, saving, staged, failed, place, kept, crashes>>

\* The operator's tool seals the key at the path and puts the sealed file there.
Seals(kek) ==
    /\ files # <<>> /\ Len(files) < MaxFiles /\ FirstFault(parseSealedPayload(AtPath)) = "none"
    /\ files' = Append(files, [SealKeyFile(AtPath, kek) EXCEPT !.synced = TRUE])
    /\ covered' = Len(files')
    /\ UNCHANGED <<saving, staged, failed, place, kept, loading, crashes>>

\* A crash of the machine, or of the processes alone (everything written stays).
Crash ==
    /\ crashes < MaxCrashes
    /\ crashes' = crashes + 1
    /\ \E n \in covered..Len(files), lost \in SUBSET {i \in 1..Len(files) : ~files[i].synced} :
          /\ files' = [i \in 1..n |-> IF i \in lost THEN [files[i] EXCEPT !.whole = FALSE] ELSE files[i]]
          /\ covered' = n
    /\ saving' = [s \in Saver |-> "idle"]
    /\ staged' = [s \in Saver |-> NoFile]
    /\ failed' = {}
    /\ place' = [s \in Saver |-> 0]
    /\ loading' = Idle
    /\ UNCHANGED kept

KeyNext ==
    \/ \E s \in Saver : SaveBegins(s) \/ Stage(s) \/ Write(s) \/ Rename(s) \/ SyncDir(s) \/ SaveFails(s)
                        \/ SaveReturns(s)
    \/ LoadStats \/ LoadOpens \/ LoadReads \/ LoadEnds
    \/ \E kek \in Kek : Seals(kek)
    \/ Crash

KeySpec == KeyInit /\ [][KeyNext]_keyvars

---------------------------------------------------------------------------
(* Properties *)

\* The load that fits the file: LoadKey, or for a sealed one its own KEK in a
\* mode that asks for it and the key it is said to hold.
Loads(f) ==
    IF f.form = "sealed"
    THEN LoadSealedKey(f, "sealed_required", [kek |-> f.kek, fault |-> "none"], f.key)
    ELSE LoadKey(f)

\* Once Save has returned nil, the path holds that key or one put there later,
\* whole, and the load that fits it returns it: through other Saves that fail or
\* race, through a sealing, and through a crash at any step.  A load that starts
\* after the Save returns nothing older.
SavedSurvives ==
    /\ kept > 0 => Len(files) >= kept /\ Loads(AtPath) = "none"
    /\ loading.at = "loaded" => files[loading.position].whole /\ loading.position >= loading.floor
=============================================================================
