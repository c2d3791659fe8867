------------------------------ MODULE CostLock ------------------------------
(***************************************************************************)
(* The cost lock: .omg/cost-lock.json keeps the projects whose             *)
(* cost-bearing live operations are to be refused.  One file holds the     *)
(* locks of all projects, and `omg cost lock` and `omg cost unlock` read   *)
(* it whole, change the entry of their project and write it back whole,    *)
(* without a lock of their own: other commands run between those steps,    *)
(* and a command may die after any of them.                                *)
(*                                                                         *)
(* What a lock records besides its project (the reason, who and when) is   *)
(* left out: no decision reads it.  A command refused before it reads the  *)
(* file (no --yes, an invalid project or reason) changes nothing and is    *)
(* left out too.                                                           *)
(***************************************************************************)
CONSTANTS Projects,     \* project ids
          Lockers,      \* processes that run cost lock and cost unlock
          LockOverlap,  \* may those commands overlap, or does each run alone?
          NoFile,       \* the lock file does not exist
          Torn          \* the lock file was truncated and not written yet

ASSUME CostLockAssumption ==
  /\ LockOverlap \in BOOLEAN
  /\ \A s \in SUBSET Projects : s # NoFile /\ s # Torn
  /\ NoFile # Torn

VARIABLES locks,  \* the lock file: NoFile, Torn or the set of locked projects
          lcmd,   \* lcmd[p]: the command p runs, with its copy of the file
          held    \* projects whose lock was reported, and not unlocked since

lockVars == <<locks, lcmd, held>>

LockIdle == [step |-> "idle"]

LockCommand ==
  [step : {"read", "truncate", "write", "done", "refused"},
   kind : {"lock", "unlock"}, project : Projects, copy : SUBSET Projects]

LockRunning(p) == lcmd[p].step # "idle"

\* readCostLockFile: an absent file holds no locks, an empty one is not JSON.
Readable  == locks # Torn
LocksRead == IF locks = NoFile THEN {} ELSE locks

\* Mutant: a file that cannot be parsed holds no locks.
LockVerdictLenient(project) ==
  CASE ~Readable                -> "clear"
    [] project \in LocksRead    -> "locked"
    [] OTHER                    -> "clear"

\* getCostLock, as the gate of a live operation calls it.
LockVerdict(project) ==
  CASE ~Readable                -> "error"
    [] project \in LocksRead    -> "locked"
    [] OTHER                    -> "clear"

\* The entry a command changes in its copy of the file.
Edited(kind, project, copy) ==
  IF kind = "lock" THEN copy \cup {project} ELSE copy \ {project}

LockGoto(p, step, copy) ==
  lcmd' = [lcmd EXCEPT ![p] = [@ EXCEPT !.step = step, !.copy = copy]]

-----------------------------------------------------------------------------

LockInit ==
  /\ locks = NoFile
  /\ lcmd = [p \in Lockers |-> LockIdle]
  /\ held = {}

\* From the moment an unlock is asked for, its project is no longer held.
StartLock(p, kind, project) ==
  /\ ~LockRunning(p)
  /\ LockOverlap \/ \A q \in Lockers : ~LockRunning(q)
  /\ lcmd' = [lcmd EXCEPT ![p] =
                [step |-> "read", kind |-> kind, project |-> project, copy |-> {}]]
  /\ held' = IF kind = "unlock" THEN held \ {project} ELSE held
  /\ UNCHANGED locks

\* The copy is changed; an unlock of a project that has no lock writes nothing.
ReadLocks(p) ==
  /\ lcmd[p].step = "read"
  /\ Readable
  /\ LET kind    == lcmd[p].kind
         project == lcmd[p].project
         skip    == kind = "unlock" /\ project \notin LocksRead
     IN  LockGoto(p, IF skip THEN "done" ELSE "truncate", Edited(kind, project, LocksRead))
  /\ UNCHANGED <<locks, held>>

\* A torn file fails the command: "Cost lock file is not valid JSON."
ReadTornLocks(p) ==
  /\ lcmd[p].step = "read"
  /\ ~Readable
  /\ LockGoto(p, "refused", {})
  /\ UNCHANGED <<locks, held>>

\* writeCostLockFile.
TruncateLocks(p) ==
  /\ lcmd[p].step = "truncate"
  /\ locks' = Torn
  /\ LockGoto(p, "write", lcmd[p].copy)
  /\ UNCHANGED held

WriteLocks(p) ==
  /\ lcmd[p].step = "write"
  /\ locks' = lcmd[p].copy
  /\ LockGoto(p, "done", {})
  /\ UNCHANGED held

Unlocking(project) ==
  \E q \in Lockers : LockRunning(q) /\ lcmd[q].kind = "unlock" /\ lcmd[q].project = project

\* The command reports: a lock set is held, unless someone is lifting it already.
ReturnLock(p) ==
  /\ lcmd[p].step \in {"done", "refused"}
  /\ held' = held \cup {project \in {lcmd[p].project} :
                          /\ lcmd[p].step = "done" /\ lcmd[p].kind = "lock"
                          /\ ~Unlocking(project)}
  /\ lcmd' = [lcmd EXCEPT ![p] = LockIdle]
  /\ UNCHANGED locks

CrashLock(p) ==
  /\ LockRunning(p)
  /\ lcmd' = [lcmd EXCEPT ![p] = LockIdle]
  /\ UNCHANGED <<locks, held>>

LockStep(p) ==
  \/ ReadLocks(p) \/ ReadTornLocks(p) \/ TruncateLocks(p) \/ WriteLocks(p)
  \/ ReturnLock(p) \/ CrashLock(p)

LockNext ==
  \/ \E p \in Lockers, kind \in {"lock", "unlock"}, project \in Projects :
       StartLock(p, kind, project)
  \/ \E p \in Lockers : LockStep(p)

LockSpec == LockInit /\ [][LockNext]_lockVars

-----------------------------------------------------------------------------

LockTypeOK ==
  /\ locks \in {NoFile, Torn} \cup SUBSET Projects
  /\ lcmd \in [Lockers -> {LockIdle} \cup LockCommand]
  /\ held \subseteq Projects

\* A lock that was reported is in force until someone asks to lift it: the gate
\* of a live operation finds the project locked, or cannot read the file and
\* fails, however other projects are locked and unlocked meanwhile and whatever
\* dies half-way.
HeldLocksInForce == \A project \in held : LockVerdict(project) # "clear"
=============================================================================
