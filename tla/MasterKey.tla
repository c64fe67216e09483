----------------------------- MODULE MasterKey ------------------------------
(***************************************************************************)
(* The master key of internal/crypto/crypto.go, which encrypts TOTP seeds  *)
(* and mail passwords at rest.  The server and the worker each resolve,    *)
(* read or mint it when they start (GetOrCreateMasterKey) and keep it in   *)
(* memory until they stop.                                                 *)
(*                                                                         *)
(* The default location is one file on the shared storage volume.  The     *)
(* legacy location is in the working directory, the same one for every     *)
(* process of an installation outside containers.  A step is one           *)
(* file-system call.  Within a process keyMu makes loading exclusive, so a *)
(* process is one thread here.                                             *)
(*                                                                         *)
(* SafekeepingProofs and MCServices extend this module beside others,      *)
(* hence the prefix of KeyInit, KeyNext and KeySpec.                       *)
(***************************************************************************)
EXTENDS FiniteSets

CONSTANTS
    Procs,      \* processes that use the key: server, worker
    Keys,       \* supply of keys that can be generated or found on disk
    NoKey,      \* no file, or nothing in memory
    Unusable,   \* a regular file that is not a key: empty, truncated, unreadable
    Obstacles   \* may the default location be out of reach?

ASSUME MasterKeyAssumption ==
    /\ NoKey \notin Keys /\ Unusable \notin Keys /\ NoKey # Unusable
    /\ Obstacles \in BOOLEAN

VARIABLES
    file,      \* the key file at the default location
    blocked,   \* the default location is out of reach: os.Stat fails there
    legacy,    \* the key file at the legacy location; never written
    fresh,     \* keys nobody has generated yet
    pc,        \* what a process does
    key,       \* the key a process has minted or cached
    stored,    \* keys that encrypt a secret in the database
    bare,      \* history: processes that found no key file when they started
    replaced,  \* history: a key file was replaced by another one
    astray     \* history: the legacy key was loaded beside a file that was out of reach

disk == <<file, blocked, legacy>>
history == <<bare, replaced, astray>>
keyVars == <<disk, fresh, pc, key, stored, history>>

Contents == Keys \cup {NoKey, Unusable}

Booting == {"resolve", "read", "readLegacy", "publish", "lastLook", "rename", "adopt"}

KeyTypeOK ==
    /\ file \in Contents
    /\ blocked \in BOOLEAN
    /\ legacy \in Contents
    /\ fresh \subseteq Keys
    /\ pc \in [Procs -> Booting \cup {"down", "up"}]
    /\ key \in [Procs -> Keys \cup {NoKey}]
    /\ stored \subseteq Keys
    /\ bare \subseteq Procs
    /\ replaced \in BOOLEAN /\ astray \in BOOLEAN

(* An installation before its first start, after an upgrade from a build   *)
(* that kept the key in the working directory, with a key file, or with a  *)
(* damaged one.                                                            *)
KeyInit ==
    /\ file \in Contents
    /\ blocked \in BOOLEAN /\ (blocked => Obstacles)
    /\ legacy \in Contents
    /\ fresh = Keys \ {file, legacy}
    /\ pc = [p \in Procs |-> "down"]
    /\ key = [p \in Procs |-> NoKey]
    /\ stored = {}
    /\ bare = {} /\ replaced = FALSE /\ astray = FALSE

(* A directory that may not be searched, a disk that does not answer: the  *)
(* default location is out of reach for a while.                           *)
Obstruct ==
    /\ Obstacles
    /\ blocked' = ~blocked
    /\ UNCHANGED <<file, legacy, fresh, pc, key, stored, history>>

(* The server and the worker start whenever they like.                     *)
Start(p) ==
    /\ pc[p] = "down"
    /\ pc' = [pc EXCEPT ![p] = "resolve"]
    /\ bare' = IF file = NoKey THEN bare \cup {p} ELSE bare \ {p}
    /\ UNCHANGED <<disk, fresh, key, stored, replaced, astray>>

(* The process ends, by itself (log.Fatalf) or by a crash, at any point; a *)
(* temporary key file it leaves behind is never looked at again.           *)
Stop(p) ==
    /\ pc[p] # "down"
    /\ pc' = [pc EXCEPT ![p] = "down"]
    /\ key' = [key EXCEPT ![p] = NoKey]
    /\ UNCHANGED <<disk, fresh, stored, history>>

(* regularFileExists of the default location: any error counts as absent.  *)
Exists == file # NoKey /\ ~blocked

(* ResolveKeyPath: the default location when a file is there, otherwise an *)
(* existing legacy file, otherwise the default location.                   *)
resolveKeyPath(p) ==
    /\ pc[p] = "resolve"
    /\ pc' = [pc EXCEPT ![p] =
          IF ~Exists /\ legacy # NoKey THEN "readLegacy" ELSE "read"]
    /\ UNCHANGED <<disk, fresh, key, stored, history>>

(* Adopt the contents of a key file, or fail when it is not a usable key.  *)
LoadKey(p, data) ==
    /\ pc' = [pc EXCEPT ![p] = IF data \in Keys THEN "up" ELSE "down"]
    /\ key' = [key EXCEPT ![p] = IF data \in Keys THEN data ELSE NoKey]

ReadLegacy(p) ==
    /\ pc[p] = "readLegacy"
    /\ LoadKey(p, legacy)
    /\ astray' = (astray \/ (legacy \in Keys /\ file \notin {NoKey, legacy}))
    /\ UNCHANGED <<disk, fresh, stored, bare, replaced>>

(* What os.ReadFile finds at the default location.                         *)
Readable == IF blocked THEN Unusable ELSE file

(* Deliberately wrong variant (mutant): an unusable file is regenerated.   *)
ReadKeyRepairs(p) ==
    /\ pc[p] = "read"
    /\ \/ /\ file \in Keys
          /\ LoadKey(p, file)
          /\ UNCHANGED <<file, fresh>>
       \/ /\ file \notin Keys
          /\ \E k \in fresh : /\ file' = k
                              /\ LoadKey(p, k)
                              /\ fresh' = fresh \ {k}
    /\ UNCHANGED <<blocked, legacy, stored, history>>

(* Read the default location; when there is no file, mint a key.  Any      *)
(* other error is fatal.                                                   *)
ReadKey(p) ==
    /\ pc[p] = "read"
    /\ \/ /\ Readable # NoKey
          /\ LoadKey(p, Readable)
          /\ UNCHANGED fresh
       \/ /\ Readable = NoKey
          /\ \E k \in fresh : /\ key' = [key EXCEPT ![p] = k]
                              /\ fresh' = fresh \ {k}
          /\ pc' = [pc EXCEPT ![p] = "publish"]
    /\ UNCHANGED <<disk, stored, history>>

(* publishNewKeyFile: the first look, then the temporary file.             *)
PublishNewKeyFile(p) ==
    /\ pc[p] = "publish"
    /\ pc' = [pc EXCEPT ![p] = IF Exists THEN "adopt" ELSE "lastLook"]
    /\ UNCHANGED <<disk, fresh, key, stored, history>>

LastLook(p) ==
    /\ pc[p] = "lastLook"
    /\ pc' = [pc EXCEPT ![p] = IF Exists THEN "adopt" ELSE "rename"]
    /\ UNCHANGED <<disk, fresh, key, stored, history>>

(* Deliberately wrong variant (mutant): the key is used but not published. *)
RenameForgotten(p) ==
    /\ pc[p] = "rename"
    /\ pc' = [pc EXCEPT ![p] = "up"]
    /\ UNCHANGED <<disk, fresh, key, stored, history>>

(* os.Rename replaces whatever is at the destination.                      *)
Rename(p) ==
    /\ pc[p] = "rename"
    /\ \/ /\ ~blocked
          /\ file' = key[p]
          /\ replaced' = (replaced \/ file # NoKey)
          /\ pc' = [pc EXCEPT ![p] = "adopt"]
          /\ UNCHANGED key
       \/ /\ blocked
          /\ LoadKey(p, NoKey)
          /\ UNCHANGED <<file, replaced>>
    /\ UNCHANGED <<blocked, legacy, fresh, stored, bare, astray>>

AdoptKey(p) ==
    /\ pc[p] = "adopt"
    /\ LoadKey(p, Readable)
    /\ UNCHANGED <<disk, fresh, stored, history>>

(* Encrypt: a secret is stored under the cached key.                       *)
Encrypt(p) ==
    /\ pc[p] = "up"
    /\ stored' = stored \cup {key[p]}
    /\ UNCHANGED <<disk, fresh, pc, key, history>>

(* The operator follows the notice and copies the legacy key to the        *)
(* default location.                                                       *)
CopyLegacy ==
    /\ file = NoKey /\ ~blocked
    /\ legacy \in Keys
    /\ file' = legacy
    /\ UNCHANGED <<blocked, legacy, fresh, pc, key, stored, history>>

KeyNext ==
    \/ CopyLegacy \/ Obstruct
    \/ \E p \in Procs :
       \/ Start(p) \/ Stop(p) \/ resolveKeyPath(p) \/ ReadLegacy(p) \/ ReadKey(p)
       \/ PublishNewKeyFile(p) \/ LastLook(p) \/ Rename(p) \/ AdoptKey(p)
       \/ Encrypt(p)

KeySpec == KeyInit /\ [][KeyNext]_keyVars

(***************************************************************************)
(* Properties.                                                             *)
(***************************************************************************)
(* The key a process would load if it started now.                         *)
Authoritative == IF file # NoKey THEN file ELSE legacy

(* No split brain: processes that run use the same key, however they were  *)
(* started ("converge on one key").  The code does not keep it.            *)
Converged == \A p, q \in Procs : pc[p] = "up" /\ pc[q] = "up" => key[p] = key[q]

(* What it does keep: the keys in memory are one, and it is the one a      *)
(* start would load, unless the key file of a first start was replaced by  *)
(* that of an overlapping one, or the legacy key was loaded beside a key   *)
(* file that was out of reach.                                             *)
ConvergedUnlessReplaced ==
    ~replaced /\ ~astray =>
        /\ Converged
        /\ \A p \in Procs : pc[p] = "up" => key[p] = Authoritative

(* Under the same condition no stored secret is orphaned: whatever was     *)
(* encrypted can be decrypted after any process restarts.                  *)
SecretsStayReadable == ~replaced /\ ~astray => stored \subseteq {Authoritative}

(* A key file that is there when a process starts, usable or damaged, is   *)
(* never replaced by that process, wherever other processes stand: only a  *)
(* start that had found no file can replace one, and only at its rename.   *)
KeyFileIsNeverReplaced ==
    [][file # NoKey /\ file' # file => \E p \in bare : pc[p] = "rename"]_keyVars

(* Fail closed: while the key file is damaged no process comes up with a   *)
(* new key; it comes up with the legacy key only when the file was out of  *)
(* reach as it looked for it.                                              *)
DamagedFileFailsClosed ==
    [][file = Unusable =>
          \A p \in Procs : pc'[p] = "up" /\ pc[p] # "up" =>
              pc[p] = "readLegacy" /\ key'[p] = legacy /\ astray']_keyVars
=============================================================================
