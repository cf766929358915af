---------------------------- MODULE RegistryStore ----------------------------
(***************************************************************************)
(* What the job-type registry promises about its file                      *)
(* (job_types.py: "Save job types to config file atomically"): seen from   *)
(* outside, the file is a register that holds one whole map.  A process    *)
(* that has changed its own map may put that map there in a single step;   *)
(* nothing else, a failure or the end of a process included, ever changes  *)
(* it.  JobTypeRegistry implements this: see Store there.                  *)
(***************************************************************************)
CONSTANTS Procs,    \* processes that keep a registry
          Maps,     \* what a process may hold in memory
          Files     \* what the file may be, a missing file included

VARIABLES mem, file

Init == mem \in [Procs -> Maps] /\ file \in Files

\* A process opens the registry, changes its map, or ends.
Change(p) == (\E m \in Maps : mem' = [mem EXCEPT ![p] = m]) /\ UNCHANGED file

Put(p) == file' = mem[p] /\ UNCHANGED mem

Next == \E p \in Procs : Change(p) \/ Put(p)

Spec == Init /\ [][Next]_<<mem, file>>
=============================================================================
