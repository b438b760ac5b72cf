------------------------------ MODULE Startup ------------------------------
(***************************************************************************)
(* What a process does before its first lookup: Config::load of            *)
(* src/src/config.rs and Cache::open of src/src/cache.rs, on the files the *)
(* host has.  A file is known by its kind, owner and permission bits; a    *)
(* file that is absent has kind "absent", a symbolic link or a directory   *)
(* kind "other".  The files do not change while they are looked at: a file *)
(* is checked and then read by its path, which the model takes as one step.*)
(***************************************************************************)
EXTENDS Integers

Root == 0
Mode600 == 384
Mode644 == 420

File(kind, uid, mode) == [kind |-> kind, uid |-> uid, mode |-> mode]

Files == [kind : {"file", "other", "absent"}, uid : Nat, mode : Nat]

(* The user a process runs as, and what it finds; memory says whether      *)
(* cache.db_path is ":memory:", in which case there is no cache file.      *)
HostRecs == [euid : Nat, toml_ok : BOOLEAN, memory : BOOLEAN,
             config : Files, token : Files, cache : Files]

(* The kernel: root reads everything, the owner with the owner's bit, and  *)
(* everybody else with the others' bit (groups are left out).              *)
Readable(file, euid) ==
  /\ file.kind # "absent"
  /\ \/ euid = Root
     \/ file.uid = euid /\ (file.mode \div 256) % 2 = 1
     \/ file.uid # euid /\ (file.mode \div 4) % 2 = 1

(* Mutant of check_secret_file_permissions: only the others' bits count.   *)
check_secret_lax(file, euid) ==
  /\ file.kind = "file"
  /\ file.mode % 8 = 0
  /\ euid = Root => file.uid = Root

(* mode & 0o077 = 0, and root ownership if the process itself is root.     *)
check_secret_file_permissions(file, euid) ==
  /\ file.kind = "file"
  /\ file.mode % 64 = 0
  /\ euid = Root => file.uid = Root

(* The configuration can be read and parsed, and the token file is private *)
(* and can be read.                                                        *)
load_from(host) ==
  /\ Readable(host.config, host.euid) /\ host.toml_ok
  /\ check_secret_file_permissions(host.token, host.euid)
  /\ Readable(host.token, host.euid)

(* Connection::open creates a missing file with the process's umask, and   *)
(* falls back to reading if it may not write.                              *)
Created(cache, euid) ==
  IF cache.kind = "absent" THEN File("file", euid, Mode644) ELSE cache

(* A cache file other than root's is refused; a mode other than 0600 is    *)
(* corrected, which only its owner, or root, can do.                       *)
harden_cache_file(cache, euid) ==
  /\ cache.kind = "file"
  /\ cache.uid = Root
  /\ cache.mode % 512 # Mode600 => euid \in {Root, cache.uid}

(* What the initialisation may come to: its outcome, and the cache file it *)
(* leaves behind.  A database in memory is not checked.  A file that was   *)
(* created stays even if it is then refused, and the database may be locked*)
(* or damaged when the journal mode and the tables are set up.             *)
Outcomes(host) ==
  LET cache == Created(host.cache, host.euid)
      hardened == [cache EXCEPT !.mode = Mode600]
  IN  IF ~load_from(host)
        THEN {[state |-> "failed", cache |-> host.cache]}
      ELSE IF host.memory
        THEN {[state |-> st, cache |-> host.cache] : st \in {"ready", "failed"}}
      ELSE IF Readable(cache, host.euid) /\ harden_cache_file(cache, host.euid)
        THEN {[state |-> st, cache |-> hardened] : st \in {"ready", "failed"}}
        ELSE {[state |-> "failed", cache |-> cache]}
=============================================================================
