--------------------------- MODULE JobTypeRegistry ---------------------------
(***************************************************************************)
(* The job-type registry (job_types.py): a map in the memory of each       *)
(* process that opened it, and one JSON file they share.  A change is made *)
(* in memory and then saved by writing the whole map to a temporary file   *)
(* under a file lock and renaming it.  The lock covers the write only, and *)
(* the file is read only when the registry is opened.                      *)
(*                                                                         *)
(* The server opens the registry and merges the types of its configuration *)
(* in memory; it saves nothing.  Writers are command-line and library      *)
(* processes.                                                              *)
(***************************************************************************)
EXTENDS Naturals, FiniteSets

CONSTANTS Server,     \* the API server's process
          Writers,    \* processes that register job types
          Names,      \* names of job types
          Defs,       \* definitions of a job type that pass validation
          NoDef,      \* no job type of that name
          Invalid,    \* an entry of the file that fails validation
          NoFile,     \* the file does not exist
          None,       \* nobody
          Config,     \* job types of the server's configuration: [Names -> Def?]
          Defaults,   \* DEFAULT_JOB_TYPES: [Names -> Def?]
          Legacy,     \* the file older releases left in the package
          MaxFaults,  \* bound: failing saves
          MaxOps      \* bound: requests made of the processes, ends included

Procs == Writers \union {Server}
Maps  == [Names -> Defs \union {NoDef}]
Files == [Names -> Defs \union {NoDef, Invalid}] \union {NoFile}
Empty == [n \in Names |-> NoDef]

ASSUME RegistryConstants ==
  /\ Server \notin Writers
  /\ {NoDef, Invalid} \intersect Defs = {} /\ NoDef # Invalid
  /\ NoFile \notin [Names -> Defs \union {NoDef, Invalid}]
  /\ None \notin Procs
  /\ Config \in Maps /\ Defaults \in Maps /\ Legacy \in Files
  /\ MaxFaults \in Nat /\ MaxOps \in Nat

VARIABLES file,     \* content found at config_path
          mem,      \* _job_types of each process
          pc,       \* where each process is: "off", "ready", or inside _save()
          temp,     \* content of the temporary file of a save in progress
          lock,     \* holder of the flock on job_types.json.lock
          faults, ops

regVars == <<file, mem, pc, temp, lock, faults, ops>>

Pc == {"off", "ready", "save", "locked", "written"}

\* The lock belongs to a process inside _save(), and to no other for long: the
\* end of a process and a failing save release it.
RegTypeOK ==
  /\ file \in Files
  /\ mem \in [Procs -> Maps]
  /\ pc \in [Procs -> Pc]
  /\ temp \in [Procs -> Maps \union {NoFile}]
  /\ lock \in Writers \union {None}
  /\ lock # None => pc[lock] \in {"locked", "written"}
  /\ faults \in 0..MaxFaults /\ ops \in 0..MaxOps

RegInit ==
  /\ file \in Files
  /\ mem = [p \in Procs |-> Empty]
  /\ pc = [p \in Procs |-> "off"]
  /\ temp = [p \in Procs |-> NoFile]
  /\ lock = None
  /\ faults = 0 /\ ops = 0

-----------------------------------------------------------------------------
\* JobType.from_dict: the round trip through the validating configuration model
\* accepts an entry or raises, and then the entry is skipped.
FromDict(entry) == IF entry = Invalid THEN NoDef ELSE entry

\* _load: the registry file, or the legacy one as long as there is none.
Loaded ==
  LET source == IF file = NoFile THEN Legacy ELSE file
  IN  IF source = NoFile THEN Empty ELSE [n \in Names |-> FromDict(source[n])]

\* register_many in memory: the new entries override those of the same name.
RegisterMany(m, new) == [n \in Names |-> IF new[n] = NoDef THEN m[n] ELSE new[n]]

Goes(p, from, to) == pc[p] = from /\ pc' = [pc EXCEPT ![p] = to]

\* One of the requests that the instance allows.
Asked == ops < MaxOps /\ ops' = ops + 1

\* A process opens the registry; the server merges its configuration.
Open(p) ==
  /\ Goes(p, "off", "ready")
  /\ mem' = [mem EXCEPT ![p] =
               IF p = Server THEN RegisterMany(Loaded, Config) ELSE Loaded]
  /\ UNCHANGED <<file, temp, lock, faults, ops>>

\* register(): the map changes first and is then saved, unless the caller
\* asked for no persistence.
Register(p, n, d, persist) ==
  /\ Asked /\ Goes(p, "ready", IF persist THEN "save" ELSE "ready")
  /\ mem' = [mem EXCEPT ![p][n] = d]
  /\ UNCHANGED <<file, temp, lock, faults>>

\* One round of init_default_job_types.
InitDefault(p, n) ==
  /\ Defaults[n] # NoDef /\ mem[p][n] = NoDef
  /\ Register(p, n, Defaults[n], TRUE)

RemoveType(p, n) ==
  /\ mem[p][n] # NoDef
  /\ Asked /\ Goes(p, "ready", "save")
  /\ mem' = [mem EXCEPT ![p][n] = NoDef]
  /\ UNCHANGED <<file, temp, lock, faults>>

-----------------------------------------------------------------------------
(* _save().  A process is single-threaded here, so that its map does not   *)
(* change between the serialisation and the write.                         *)

SaveLock(p) ==
  /\ Goes(p, "save", "locked")
  /\ lock = None /\ lock' = p
  /\ UNCHANGED <<file, mem, temp, faults, ops>>

SaveWrite(p) ==
  /\ Goes(p, "locked", "written")
  /\ temp' = [temp EXCEPT ![p] = mem[p]]
  /\ UNCHANGED <<file, mem, lock, faults, ops>>

\* Mutant: the file is rewritten in place, and a reader may see a part of it.
SaveReplaceInPlace(p) ==
  /\ Goes(p, "written", "ready")
  /\ \E n \in Names : file' = [temp[p] EXCEPT ![n] = Invalid]
  /\ temp' = [temp EXCEPT ![p] = NoFile]
  /\ lock' = None
  /\ UNCHANGED <<mem, faults, ops>>

SaveReplace(p) ==
  /\ Goes(p, "written", "ready")
  /\ file' = temp[p]
  /\ temp' = [temp EXCEPT ![p] = NoFile]
  /\ lock' = None
  /\ UNCHANGED <<mem, faults, ops>>

\* Mutant: only a successful save releases the lock.
UnlockedNever(p) == lock

Unlocked(p) == IF lock = p THEN None ELSE lock

\* Any step of it may raise.  The temporary file is unlinked, the lock is
\* released and the caller gets the exception; the map keeps the change.
SaveFails(p) ==
  /\ faults < MaxFaults /\ faults' = faults + 1
  /\ pc[p] \in {"save", "locked", "written"} /\ pc' = [pc EXCEPT ![p] = "ready"]
  /\ temp' = [temp EXCEPT ![p] = NoFile]
  /\ lock' = Unlocked(p)
  /\ UNCHANGED <<file, mem, ops>>

\* The process ends or is killed: the kernel drops its lock, and a temporary
\* file that stays has a name nobody reads.
End(p) ==
  /\ Asked
  /\ pc[p] # "off" /\ pc' = [pc EXCEPT ![p] = "off"]
  /\ mem' = [mem EXCEPT ![p] = Empty]
  /\ temp' = [temp EXCEPT ![p] = NoFile]
  /\ lock' = Unlocked(p)
  /\ UNCHANGED <<file, faults>>

RegNext(p) ==
  \/ Open(p)
  \/ /\ p \in Writers
     /\ \/ \E n \in Names : InitDefault(p, n) \/ RemoveType(p, n)
        \/ \E n \in Names, d \in Defs, b \in BOOLEAN : Register(p, n, d, b)
        \/ SaveLock(p) \/ SaveWrite(p) \/ SaveReplace(p) \/ SaveFails(p)

-----------------------------------------------------------------------------
Store == INSTANCE RegistryStore WITH mem <- mem, file <- file

\* Locks, failures, temporary files and ends of processes in the middle of a
\* save cannot be seen in the file: it is replaced as a whole by the map a
\* process has in memory, and by nothing else.
StoreSpec == Store!Spec

=============================================================================
