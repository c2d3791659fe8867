--------------------------- MODULE CostLockProofs ---------------------------
(***************************************************************************)
(* While lock commands run one at a time, a reported lock stays in force:  *)
(* for every set of projects and lockers, any number of commands and any   *)
(* crash.  The lost update of two overlapping commands is what the         *)
(* hypothesis ~LockOverlap excludes.                                       *)
(***************************************************************************)
EXTENDS CostLock, TLAPS

OneAtATime == \A p, q \in Lockers : LockRunning(p) /\ LockRunning(q) => p = q

\* The locks that are held are in the file and in every copy about to replace it.
HeldOnFile == Readable => held \subseteq LocksRead

HeldInCopy ==
  \A p \in Lockers : lcmd[p].step \in {"truncate", "write"} => held \subseteq lcmd[p].copy

\* A running command stands for what its file and the history say of its project.
Underway ==
  \A p \in Lockers :
    /\ LockRunning(p) /\ lcmd[p].kind = "unlock" => lcmd[p].project \notin held
    /\ lcmd[p].step \in {"truncate", "write"} /\ lcmd[p].kind = "lock"
         => lcmd[p].project \in lcmd[p].copy
    /\ lcmd[p].step = "done" /\ lcmd[p].kind = "lock"
         => Readable /\ lcmd[p].project \in LocksRead

LockInv == LockTypeOK /\ OneAtATime /\ HeldOnFile /\ HeldInCopy /\ Underway

LEMMA LockInitInv == LockInit => LockInv
BY CostLockAssumption
   DEF LockInit, LockInv, LockTypeOK, OneAtATime, HeldOnFile, HeldInCopy, Underway,
       LockRunning, LockIdle, Readable, LocksRead

\* Alone in running, a command that moves on is the only one to look at.
LEMMA Alone ==
  ASSUME LockInv, NEW p \in Lockers, LockRunning(p), NEW c, lcmd' = [lcmd EXCEPT ![p] = c]
  PROVE  /\ lcmd'[p] = c
         /\ \A q \in Lockers : q # p => lcmd'[q] = LockIdle
         /\ lcmd[p] \in LockCommand
<1>1. \A q \in Lockers : LockRunning(q) => lcmd[q] \in LockCommand
  BY DEF LockInv, LockTypeOK, LockRunning, LockIdle
<1>2. \A q \in Lockers : ~LockRunning(q) => lcmd[q] = LockIdle
  BY DEF LockInv, LockTypeOK, LockRunning, LockCommand
<1>3. \A q \in Lockers : q # p => ~LockRunning(q)
  BY DEF LockInv, OneAtATime
<1> QED
  BY <1>1, <1>2, <1>3 DEF LockInv, LockTypeOK

\* The new state of that command decides whether the invariant holds.
LEMMA AlonePreserves ==
  ASSUME LockInv, NEW p \in Lockers, LockRunning(p), NEW c, lcmd' = [lcmd EXCEPT ![p] = c],
         c \in {LockIdle} \cup LockCommand,
         locks' \in {NoFile, Torn} \cup SUBSET Projects, held' \subseteq Projects, HeldOnFile',
         c.step \in {"truncate", "write"} => held' \subseteq c.copy,
         c # LockIdle /\ c.kind = "unlock" => c.project \notin held',
         c.step \in {"truncate", "write"} /\ c.kind = "lock" => c.project \in c.copy,
         c.step = "done" /\ c.kind = "lock" => Readable' /\ c.project \in LocksRead'
  PROVE  LockInv'
<1>1. /\ lcmd'[p] = c
      /\ \A q \in Lockers : q # p => lcmd'[q] = LockIdle
  BY Alone
<1>2. LockTypeOK'
  BY <1>1 DEF LockInv, LockTypeOK
<1>3. OneAtATime'
  BY <1>1 DEF OneAtATime, LockRunning, LockIdle
<1>4. HeldInCopy'
  BY <1>1 DEF HeldInCopy, LockIdle
<1>5. Underway'
  <2> SUFFICES ASSUME NEW q \in Lockers
               PROVE  /\ LockRunning(q)' /\ lcmd'[q].kind = "unlock" => lcmd'[q].project \notin held'
                      /\ lcmd'[q].step \in {"truncate", "write"} /\ lcmd'[q].kind = "lock"
                           => lcmd'[q].project \in lcmd'[q].copy
                      /\ lcmd'[q].step = "done" /\ lcmd'[q].kind = "lock"
                           => Readable' /\ lcmd'[q].project \in LocksRead'
    BY DEF Underway
  <2>1. CASE q = p
    BY <2>1, <1>1 DEF LockRunning, LockIdle
  <2>2. CASE q # p
    BY <2>2, <1>1 DEF LockRunning, LockIdle
  <2> QED
    BY <2>1, <2>2
<1> QED
  BY <1>2, <1>3, <1>4, <1>5 DEF LockInv

\* A running command is told from an idle one by its step.
LEMMA NotIdle ==
  ASSUME NEW c \in LockCommand
  PROVE  c # LockIdle
<1>1. c.step # LockIdle.step
  BY DEF LockCommand, LockIdle
<1> QED
  BY <1>1

LEMMA StartLockPreserves ==
  ASSUME LockInv, ~LockOverlap, NEW p \in Lockers, NEW kind \in {"lock", "unlock"},
         NEW project \in Projects, StartLock(p, kind, project)
  PROVE  LockInv'
<1> DEFINE c == [step |-> "read", kind |-> kind, project |-> project, copy |-> {}]
<1>1. \A q \in Lockers : lcmd'[q] = IF q = p THEN c ELSE LockIdle
  BY DEF StartLock, LockInv, LockTypeOK, LockRunning, LockCommand
<1>2. c \in LockCommand /\ c.step = "read" /\ c.kind = kind /\ c.project = project
  BY DEF LockCommand
<1>3. held' \subseteq held /\ (kind = "unlock" => project \notin held') /\ locks' = locks
  BY DEF StartLock
<1> HIDE DEF c
<1>4. LockTypeOK'
  <2>1. lcmd' = [lcmd EXCEPT ![p] = c]
    BY DEF StartLock, c
  <2> QED
    BY <2>1, <1>2, <1>3 DEF LockInv, LockTypeOK
<1>5. OneAtATime'
  BY <1>1 DEF OneAtATime, LockRunning, LockIdle
<1>6. HeldOnFile'
  BY <1>3 DEF LockInv, HeldOnFile, Readable, LocksRead
<1>7. HeldInCopy' /\ Underway'
  BY <1>1, <1>2, <1>3 DEF HeldInCopy, Underway, LockRunning, LockIdle
<1> QED
  BY <1>4, <1>5, <1>6, <1>7 DEF LockInv

LEMMA ReadPreserves ==
  ASSUME LockInv, NEW p \in Lockers, ReadLocks(p) \/ ReadTornLocks(p)
  PROVE  LockInv'
<1>1. /\ LockRunning(p) /\ lcmd[p].step = "read" /\ locks' = locks /\ held' = held
      /\ lcmd[p] \in LockCommand
  BY DEF ReadLocks, ReadTornLocks, LockRunning, LockInv, LockTypeOK, LockIdle
<1>2. HeldOnFile' /\ locks' \in {NoFile, Torn} \cup SUBSET Projects /\ held' \subseteq Projects
  BY <1>1 DEF LockInv, LockTypeOK, HeldOnFile, Readable, LocksRead
<1>3. lcmd[p].kind = "unlock" => lcmd[p].project \notin held
  BY <1>1 DEF LockInv, Underway
<1>4. CASE ReadTornLocks(p)
  <2> DEFINE c == [lcmd[p] EXCEPT !.step = "refused", !.copy = {}]
  <2>1. lcmd' = [lcmd EXCEPT ![p] = c]
    BY <1>4 DEF ReadTornLocks, LockGoto
  <2>2. c \in LockCommand /\ c.step = "refused"
        /\ c.kind = lcmd[p].kind /\ c.project = lcmd[p].project
    BY <1>1 DEF LockCommand
  <2> HIDE DEF c
  <2> QED
    BY <1>1, <1>2, <1>3, <2>1, <2>2, NotIdle, AlonePreserves
<1>5. CASE ReadLocks(p)
  <2> DEFINE step == IF lcmd[p].kind = "unlock" /\ lcmd[p].project \notin LocksRead
                       THEN "done" ELSE "truncate"
             copy == Edited(lcmd[p].kind, lcmd[p].project, LocksRead)
             c    == [lcmd[p] EXCEPT !.step = step, !.copy = copy]
  <2>1. lcmd' = [lcmd EXCEPT ![p] = c]
    BY <1>5 DEF ReadLocks, LockGoto
  <2>2. LocksRead \in SUBSET Projects /\ held \subseteq LocksRead
    BY <1>5 DEF ReadLocks, LocksRead, Readable, LockInv, LockTypeOK, HeldOnFile
  <2>3. /\ copy \in SUBSET Projects /\ held \subseteq copy
        /\ lcmd[p].kind = "lock" => lcmd[p].project \in copy
        /\ step \in {"done", "truncate"}
        /\ step = "done" => lcmd[p].kind = "unlock"
    BY <1>1, <1>3, <2>2 DEF Edited, LockCommand
  <2> HIDE DEF step, copy
  <2>4. c \in LockCommand /\ c.step = step /\ c.copy = copy
        /\ c.kind = lcmd[p].kind /\ c.project = lcmd[p].project
    BY <1>1, <2>3 DEF LockCommand
  <2> HIDE DEF c
  <2> QED
    BY <1>1, <1>2, <1>3, <2>1, <2>3, <2>4, NotIdle, AlonePreserves
<1> QED
  BY <1>4, <1>5

LEMMA RewritePreserves ==
  ASSUME LockInv, NEW p \in Lockers, TruncateLocks(p) \/ WriteLocks(p)
  PROVE  LockInv'
<1>1. /\ LockRunning(p) /\ lcmd[p].step \in {"truncate", "write"} /\ held' = held
      /\ lcmd[p] \in LockCommand
  BY DEF TruncateLocks, WriteLocks, LockRunning, LockInv, LockTypeOK, LockIdle
<1>2. /\ lcmd[p].copy \in SUBSET Projects /\ held \subseteq lcmd[p].copy
      /\ lcmd[p].kind = "unlock" => lcmd[p].project \notin held
      /\ lcmd[p].kind = "lock" => lcmd[p].project \in lcmd[p].copy
      /\ held' \subseteq Projects
  BY <1>1 DEF LockInv, LockTypeOK, HeldInCopy, Underway, LockCommand
<1>3. CASE TruncateLocks(p)
  <2> DEFINE c == [lcmd[p] EXCEPT !.step = "write", !.copy = lcmd[p].copy]
  <2>1. lcmd' = [lcmd EXCEPT ![p] = c] /\ locks' = Torn
    BY <1>3 DEF TruncateLocks, LockGoto
  <2>2. c \in LockCommand /\ c.step = "write" /\ c.copy = lcmd[p].copy
        /\ c.kind = lcmd[p].kind /\ c.project = lcmd[p].project
    BY <1>1, <1>2 DEF LockCommand
  <2>3. HeldOnFile'
    BY <2>1 DEF HeldOnFile, Readable
  <2> HIDE DEF c
  <2> QED
    BY <1>1, <1>2, <2>1, <2>2, <2>3, NotIdle, AlonePreserves
<1>4. CASE WriteLocks(p)
  <2> DEFINE c == [lcmd[p] EXCEPT !.step = "done", !.copy = {}]
  <2>1. lcmd' = [lcmd EXCEPT ![p] = c] /\ locks' = lcmd[p].copy
    BY <1>4 DEF WriteLocks, LockGoto
  <2>2. c \in LockCommand /\ c.step = "done"
        /\ c.kind = lcmd[p].kind /\ c.project = lcmd[p].project
    BY <1>1 DEF LockCommand
  <2>3. HeldOnFile' /\ Readable' /\ LocksRead' = lcmd[p].copy
    BY <2>1, <1>1, <1>2, CostLockAssumption DEF HeldOnFile, Readable, LocksRead
  <2> HIDE DEF c
  <2> QED
    BY <1>1, <1>2, <2>1, <2>2, <2>3, NotIdle, AlonePreserves
<1> QED
  BY <1>3, <1>4

LEMMA EndLockPreserves ==
  ASSUME LockInv, NEW p \in Lockers, ReturnLock(p) \/ CrashLock(p)
  PROVE  LockInv'
<1>1. LockRunning(p) /\ lcmd[p] \in LockCommand /\ locks' = locks
      /\ lcmd' = [lcmd EXCEPT ![p] = LockIdle]
  BY DEF ReturnLock, CrashLock, LockRunning, LockInv, LockTypeOK, LockIdle
<1>2. held' \subseteq Projects /\ HeldOnFile'
  <2>1. CASE CrashLock(p)
    BY <2>1, <1>1 DEF CrashLock, LockInv, LockTypeOK, HeldOnFile, Readable, LocksRead
  <2>2. CASE ReturnLock(p)
    <3>1. held' \subseteq held \cup {lcmd[p].project}
          /\ (held' \subseteq held \/ (lcmd[p].step = "done" /\ lcmd[p].kind = "lock"))
      BY <2>2 DEF ReturnLock
    <3>2. lcmd[p].step = "done" /\ lcmd[p].kind = "lock" => lcmd[p].project \in LocksRead
      BY DEF LockInv, Underway
    <3> QED
      BY <1>1, <3>1, <3>2 DEF LockInv, LockTypeOK, LockCommand, HeldOnFile, Readable, LocksRead
  <2> QED
    BY <2>1, <2>2
<1> QED
  BY <1>1, <1>2, AlonePreserves DEF LockInv, LockTypeOK, LockIdle

LEMMA LockNextInv == ~LockOverlap /\ LockInv /\ [LockNext]_lockVars => LockInv'
<1> SUFFICES ASSUME ~LockOverlap, LockInv, [LockNext]_lockVars PROVE LockInv'
  OBVIOUS
<1>1. CASE \E p \in Lockers, kind \in {"lock", "unlock"}, project \in Projects :
             StartLock(p, kind, project)
  BY <1>1, StartLockPreserves
<1>2. CASE \E p \in Lockers : LockStep(p)
  BY <1>2, ReadPreserves, RewritePreserves, EndLockPreserves DEF LockStep
<1>3. CASE UNCHANGED lockVars
  BY <1>3 DEF lockVars, LockInv, LockTypeOK, OneAtATime, HeldOnFile, HeldInCopy, Underway,
              LockRunning, Readable, LocksRead
<1> QED
  BY <1>1, <1>2, <1>3 DEF LockNext

\* A reported lock stays in force until it is asked to be lifted.
THEOREM HeldLocksStay == ~LockOverlap => (LockSpec => []HeldLocksInForce)
<1>1. LockInv => HeldLocksInForce
  BY DEF LockInv, HeldOnFile, HeldLocksInForce, LockVerdict
<1>2. ASSUME ~LockOverlap PROVE LockSpec => []HeldLocksInForce
  <2>1. LockInv /\ [LockNext]_lockVars => LockInv'
    BY <1>2, LockNextInv
  <2> QED
    BY <1>1, <2>1, LockInitInv, PTL DEF LockSpec
<1> QED
  BY <1>2

LEMMA LockTypeNext == LockTypeOK /\ [LockNext]_lockVars => LockTypeOK'
<1> SUFFICES ASSUME LockTypeOK, [LockNext]_lockVars PROVE LockTypeOK'
  OBVIOUS
<1>1. CASE \E p \in Lockers, kind \in {"lock", "unlock"}, project \in Projects :
             StartLock(p, kind, project)
  <2>1. PICK p \in Lockers, kind \in {"lock", "unlock"}, project \in Projects :
          StartLock(p, kind, project)
    BY <1>1
  <2> DEFINE c == [step |-> "read", kind |-> kind, project |-> project, copy |-> {}]
  <2>2. c \in LockCommand
    BY DEF LockCommand
  <2>3. lcmd' = [lcmd EXCEPT ![p] = c] /\ held' \subseteq held /\ locks' = locks
    BY <2>1 DEF StartLock
  <2> HIDE DEF c
  <2> QED
    BY <2>2, <2>3 DEF LockTypeOK
<1>2. ASSUME NEW p \in Lockers, LockStep(p)
      PROVE  LockTypeOK'
  <2>1. LockRunning(p) /\ lcmd[p] \in LockCommand
    BY <1>2 DEF LockStep, ReadLocks, ReadTornLocks, TruncateLocks, WriteLocks, ReturnLock,
                CrashLock, LockRunning, LockTypeOK, LockIdle
  <2>2. LocksRead \in SUBSET Projects \/ ~Readable
    BY DEF LockTypeOK, LocksRead, Readable
  <2>3. ASSUME NEW step \in {"truncate", "write", "done", "refused"},
               NEW copy \in SUBSET Projects, LockGoto(p, step, copy)
        PROVE  lcmd' \in [Lockers -> {LockIdle} \cup LockCommand]
    <3> DEFINE c == [lcmd[p] EXCEPT !.step = step, !.copy = copy]
    <3>1. c \in LockCommand
      BY <2>1 DEF LockCommand
    <3>2. lcmd' = [lcmd EXCEPT ![p] = c]
      BY <2>3 DEF LockGoto
    <3> HIDE DEF c
    <3> QED
      BY <3>1, <3>2 DEF LockTypeOK
  <2>4. CASE ReadLocks(p)
    <3>1. PICK step \in {"truncate", "done"} :
            LockGoto(p, step, Edited(lcmd[p].kind, lcmd[p].project, LocksRead))
      BY <2>4 DEF ReadLocks
    <3>2. Edited(lcmd[p].kind, lcmd[p].project, LocksRead) \in SUBSET Projects
      BY <2>1, <2>2, <2>4 DEF ReadLocks, Edited, LockCommand
    <3> QED
      BY <2>3, <2>4, <3>1, <3>2 DEF ReadLocks, LockTypeOK
  <2>5. CASE ReadTornLocks(p)
    BY <2>3, <2>5 DEF ReadTornLocks, LockTypeOK
  <2>6. CASE TruncateLocks(p) \/ WriteLocks(p)
    <3>1. lcmd[p].copy \in SUBSET Projects
      BY <2>1 DEF LockCommand
    <3> QED
      BY <2>3, <2>6, <3>1 DEF TruncateLocks, WriteLocks, LockTypeOK
  <2>7. CASE ReturnLock(p) \/ CrashLock(p)
    BY <2>1, <2>7 DEF ReturnLock, CrashLock, LockTypeOK, LockCommand
  <2> QED
    BY <1>2, <2>4, <2>5, <2>6, <2>7 DEF LockStep
<1>3. CASE UNCHANGED lockVars
  BY <1>3 DEF lockVars, LockTypeOK
<1> QED
  BY <1>1, <1>2, <1>3 DEF LockNext

\* The lock file and the commands that rewrite it hold what they are meant to
\* hold, overlapping or not.
THEOREM LockTypeCorrect == LockSpec => []LockTypeOK
<1>1. LockInit => LockTypeOK
  BY DEF LockInit, LockTypeOK
<1> QED
  BY <1>1, LockTypeNext, PTL DEF LockSpec
==============================================================================
