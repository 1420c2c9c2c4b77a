----------------------------- MODULE AgentProofs -----------------------------
(***************************************************************************)
(* Proofs about six parts of the agent.  Three outlive its process: the    *)
(* move of its state, the overlays of its lock screen, and its own update. *)
(* Three are the agent at work: script policies, the lists of software it  *)
(* is told and tells, and what takes software or the agent itself off the  *)
(* device.  Each part has an inductive invariant, shown conjunct by        *)
(* conjunct; a lemma often says first which actions can change what, so    *)
(* that a conjunct is looked at only where it can be disturbed.            *)
(***************************************************************************)
EXTENDS Parts, FiniteSetTheorems, TLAPS

\* The part is chosen once.
LEMMA AgentPartStays == ASSUME [PartNext]_<<part, vars, cells>> PROVE part' = part
BY DEF PartNext, cells

-----------------------------------------------------------------------------
(* StateMigration, LockScreen, SelfUpdate.                                 *)

\* The two places and the step of the move.
MigratePlaces ==
  /\ outbox \in [Migrate!Place -> SUBSET QueuedReport]
  /\ seen \in [Migrate!Place -> (SUBSET Task) \cup {None}]
  /\ at \in Migrate!Place /\ step \in {"down", "files", "entries", "running"}
  /\ step \in {"files", "entries"} => at = "new"
  /\ step \in {"down", "running"} => moving = None
  /\ step = "files" /\ moving # None => moving = "seen" /\ seen["new"] # None
  /\ step = "entries" /\ moving # None => moving \in outbox["new"]

\* A record is sent once more only if a fault left it in both places: what is
\* in both by the order of copying and removing is still to be looked at.
MigrateBoth == outbox["old"] \cap outbox["new"]

MigrateRecords ==
  /\ outbox["old"] \cup outbox["new"] \cup sent \subseteq queued
  /\ sent \cap (outbox["old"] \cup outbox["new"]) \subseteq doubled
  /\ step = "running" => MigrateBoth \subseteq doubled
  /\ step = "entries" => todo \subseteq outbox["old"]
  /\ step = "entries" => MigrateBoth \subseteq doubled \cup todo
  /\ Migrate!NotLost /\ Migrate!NotResent

\* What was run is in the file of the new place, once there is one.
MigrateTasks ==
  /\ seen["new"] # None => done \subseteq Migrate!Known("new") \cup missed
  /\ seen["new"] = None => done \subseteq Migrate!Known("old") \cup missed
  /\ step = "entries" => done \subseteq Migrate!Known("new") \cup missed
  /\ Migrate!SeenKept

MigrateInv == MigratePlaces /\ MigrateRecords /\ MigrateTasks

-----------------------------------------------------------------------------
\* There are two places.
LEMMA MigrateTwoPlaces == "old" \in Migrate!Place /\ "new" \in Migrate!Place /\ \A p \in Migrate!Place : p = "old" \/ p = "new"
  BY DEF Migrate!Place

\* The invariant of the move holds at the start.
LEMMA MigrateInitInv == ASSUME Migrate!Init PROVE MigrateInv
<1>1. MigratePlaces
  <2>1. outbox \in [Migrate!Place -> SUBSET QueuedReport]
    BY DEF Migrate!Init
  <2>2. seen \in [Migrate!Place -> (SUBSET Task) \cup {None}]
    BY DEF Migrate!Init
  <2>3. at \in Migrate!Place /\ step = "running" /\ moving = None
    BY DEF Migrate!Init, Migrate!Place
  <2> QED
    BY <2>1, <2>2, <2>3 DEF MigratePlaces
<1>2. MigrateRecords
  BY DEF Migrate!Init, MigrateRecords, MigrateBoth, Migrate!NotLost,
     Migrate!NotResent, Migrate!Place
<1>3. MigrateTasks
  BY DEF Migrate!Init, MigrateTasks, Migrate!SeenKept, Migrate!Known,
     Migrate!Place
<1> QED
  BY <1>1, <1>2, <1>3 DEF MigrateInv

(* What the two steps of a moved file may do to it.                         *)
LEMMA MigrateFileSteps ==
  ASSUME MigratePlaces, Migrate!MigrateFile \/ Migrate!RemoveFile
  PROVE  /\ step = "files" /\ at = "new" /\ UNCHANGED <<outbox, at, queued, sent, resent, done, doubled>>
         /\ \/ step' = "files" /\ moving' = "seen" /\ seen["new"] = None /\ seen["old"] # None
               /\ seen' = [seen EXCEPT !["new"] = seen["old"]]
               /\ UNCHANGED <<todo, missed>>
            \/ /\ Migrate!Entries /\ moving' = None
               /\ \/ UNCHANGED <<seen, missed>> /\ seen["old"] = None
                  \/ UNCHANGED <<seen, missed>> /\ seen["new"] # None
                  \/ UNCHANGED missed /\ seen["new"] # None /\ seen' = [seen EXCEPT !["old"] = None]
                  \/ UNCHANGED seen /\ seen["new"] = None /\ missed' = missed \cup Migrate!Known("old")
<1> USE MigrateAssumption, MigrateTwoPlaces DEF MigratePlaces, Migrate!NoFault,
   Migrate!Fault, Migrate!count, Migrate!disk, Migrate!history, Migrate!Entries
<1>1. CASE Migrate!MigrateFile
  BY <1>1 DEF Migrate!MigrateFile
<1>2. CASE Migrate!RemoveFile
  BY <1>2 DEF Migrate!RemoveFile
<1> QED
  BY <1>1, <1>2

\* Every step of the move keeps its conjuncts: the places,
LEMMA MigratePlacesStep ==
  ASSUME MigratePlaces, [Migrate!Next]_(Migrate!vars)
  PROVE  MigratePlaces'
<1> USE MigrateAssumption, MigrateTwoPlaces DEF MigratePlaces, Migrate!Entries,
   Migrate!NoFault, Migrate!Fault, Migrate!count, Migrate!disk, Migrate!history
<1>1. CASE Migrate!EnsureDataDir
  BY <1>1 DEF Migrate!EnsureDataDir
<1>2. CASE Migrate!MigrateFile \/ Migrate!RemoveFile
  <2>1. seen' \in [Migrate!Place -> (SUBSET Task) \cup {None}]
    BY <1>2, MigrateFileSteps
  <2>2. UNCHANGED <<outbox, at>> /\ at = "new"
    BY <1>2, MigrateFileSteps
  <2>3. CASE moving' = "seen" /\ step' = "files"
    <3>1. seen["old"] # None /\ seen' = [seen EXCEPT !["new"] = seen["old"]]
      BY <1>2, <2>3, MigrateFileSteps
    <3> QED
      BY <2>1, <2>2, <2>3, <3>1
  <2>4. CASE moving' = None /\ step' = "entries"
    BY <2>1, <2>2, <2>4
  <2> QED
    BY <1>2, <2>3, <2>4, MigrateFileSteps
<1>4. ASSUME NEW r \in QueuedReport, Migrate!MigrateEntry(r) \/ Migrate!RemoveEntry(r)
      PROVE  MigratePlaces'
  BY <1>4 DEF Migrate!MigrateEntry, Migrate!RemoveEntry, Migrate!With,
     Migrate!Without
<1>5. CASE Migrate!Started \/ Migrate!Stop
  BY <1>5 DEF Migrate!Started, Migrate!Stop
<1>6. ASSUME NEW r \in QueuedReport, Migrate!Enqueue(r) \/ Migrate!Deliver(r)
      PROVE  MigratePlaces'
  BY <1>6 DEF Migrate!Enqueue, Migrate!Deliver, Migrate!With, Migrate!Without
<1>7. ASSUME NEW t \in Task, Migrate!RunTask(t) PROVE MigratePlaces'
  BY <1>7 DEF Migrate!RunTask, Migrate!Known
<1>8. CASE UNCHANGED Migrate!vars
  BY <1>8 DEF Migrate!vars
<1> QED
  BY <1>1, <1>2, <1>4, <1>5, <1>6, <1>7, <1>8 DEF Migrate!Next

\* the records,
LEMMA MigrateRecordsStep ==
  ASSUME MigratePlaces, MigrateRecords, [Migrate!Next]_(Migrate!vars)
  PROVE  MigrateRecords'
<1> USE MigrateAssumption, MigrateTwoPlaces DEF MigratePlaces, MigrateRecords,
   MigrateBoth, Migrate!NotLost, Migrate!NotResent, Migrate!Entries,
   Migrate!NoFault, Migrate!Fault, Migrate!count, Migrate!disk, Migrate!history
<1>1. CASE Migrate!EnsureDataDir
  BY <1>1 DEF Migrate!EnsureDataDir
<1>2. CASE Migrate!MigrateFile
  BY <1>2, MigrateFileSteps
<1>3. CASE Migrate!RemoveFile
  BY <1>3, MigrateFileSteps
<1>4. ASSUME NEW r \in QueuedReport, Migrate!MigrateEntry(r) PROVE MigrateRecords'
  <2>1. CASE outbox' = [outbox EXCEPT !["old"] = @ \ {r}] /\ r \in outbox["new"] /\ UNCHANGED doubled
    BY <1>4, <2>1 DEF Migrate!MigrateEntry
  <2>2. CASE outbox' = outbox /\ r \in outbox["new"] /\ doubled' = doubled \cup {r}
    BY <1>4, <2>2 DEF Migrate!MigrateEntry
  <2>3. CASE r \notin outbox["new"] /\ outbox' = [outbox EXCEPT !["new"] = @ \cup {r}] /\ todo' = todo
    <3>1. r \in todo /\ r \in outbox["old"] /\ step = "entries" /\ step' = step
      BY <1>4 DEF Migrate!MigrateEntry
    <3>2. UNCHANGED <<queued, sent, resent, doubled>>
      BY <1>4, <2>3 DEF Migrate!MigrateEntry
    <3> QED
      BY <2>3, <3>1, <3>2
  <2>4. CASE outbox' = outbox /\ r \notin outbox["new"] /\ UNCHANGED doubled
    BY <1>4, <2>4 DEF Migrate!MigrateEntry
  <2> QED
    BY <1>4, <2>1, <2>2, <2>3, <2>4 DEF Migrate!MigrateEntry, Migrate!With,
       Migrate!Without
<1>5. ASSUME NEW r \in QueuedReport, Migrate!RemoveEntry(r) PROVE MigrateRecords'
  BY <1>5 DEF Migrate!RemoveEntry, Migrate!Without
<1>6. CASE Migrate!Started \/ Migrate!Stop
  BY <1>6 DEF Migrate!Started, Migrate!Stop
<1>7. ASSUME NEW r \in QueuedReport, Migrate!Enqueue(r) PROVE MigrateRecords'
  BY <1>7 DEF Migrate!Enqueue, Migrate!With
<1>8. ASSUME NEW r \in QueuedReport, Migrate!Deliver(r) PROVE MigrateRecords'
  BY <1>8 DEF Migrate!Deliver, Migrate!Without
<1>9. ASSUME NEW t \in Task, Migrate!RunTask(t) PROVE MigrateRecords'
  BY <1>9 DEF Migrate!RunTask
<1>10. CASE UNCHANGED Migrate!vars
  BY <1>10 DEF Migrate!vars
<1> QED
  BY <1>1, <1>2, <1>3, <1>4, <1>5, <1>6, <1>7, <1>8, <1>9, <1>10
     DEF Migrate!Next

\* and the tasks.
LEMMA MigrateTasksStep ==
  ASSUME MigratePlaces, MigrateTasks, [Migrate!Next]_(Migrate!vars)
  PROVE  MigrateTasks'
<1> USE MigrateAssumption, MigrateTwoPlaces DEF MigratePlaces, MigrateTasks,
   Migrate!SeenKept, Migrate!Known, Migrate!Entries, Migrate!NoFault,
   Migrate!Fault, Migrate!count, Migrate!disk, Migrate!history
<1>1. CASE Migrate!EnsureDataDir
  BY <1>1 DEF Migrate!EnsureDataDir
<1>2. CASE Migrate!MigrateFile
  BY <1>2, MigrateFileSteps
<1>3. CASE Migrate!RemoveFile
  BY <1>3, MigrateFileSteps
<1>4. ASSUME NEW r \in QueuedReport, Migrate!MigrateEntry(r) \/ Migrate!RemoveEntry(r) \/ Migrate!Enqueue(r) \/ Migrate!Deliver(r)
      PROVE  MigrateTasks'
  BY <1>4 DEF Migrate!MigrateEntry, Migrate!RemoveEntry, Migrate!Enqueue,
     Migrate!Deliver
<1>5. CASE Migrate!Started \/ Migrate!Stop
  BY <1>5 DEF Migrate!Started, Migrate!Stop
<1>6. ASSUME NEW t \in Task, Migrate!RunTask(t) PROVE MigrateTasks'
  <2>1. at \in Migrate!Place /\ done' = done \cup {t} /\ seen' = [seen EXCEPT ![at] = Migrate!Known(at) \cup {t}]
    BY <1>6 DEF Migrate!RunTask
  <2>2. Migrate!Known(at) \cup {t} \in SUBSET Task
    BY <1>6
  <2>3. Migrate!Known(at) \cup {t} # None
    BY <2>2
  <2>4. seen'[at] = Migrate!Known(at) \cup {t} /\ \A p \in Migrate!Place \ {at} : seen'[p] = seen[p]
    BY <2>1
  <2> QED
    BY <1>6, <2>1, <2>3, <2>4 DEF Migrate!RunTask
<1>7. CASE UNCHANGED Migrate!vars
  BY <1>7 DEF Migrate!vars
<1> QED
  BY <1>1, <1>2, <1>3, <1>4, <1>5, <1>6, <1>7 DEF Migrate!Next

-----------------------------------------------------------------------------
ScreenSlots ==
  /\ overlay \in [Proc -> Screen!Overlay \cup {None}] /\ handle \in Proc \cup {None}
  /\ logged \subseteq DesktopSession

ScreenInv == ScreenSlots /\ Screen!OverlaysAreKnown

\* No overlay is there at the start.
LEMMA ScreenInitInv == Screen!Init => ScreenInv
  BY DEF Screen!Init, ScreenInv, ScreenSlots, Screen!OverlaysAreKnown,
     Screen!Living

(* What is left of a process is a record that has ended, or nothing.       *)
LEMMA ScreenRemainsDead ==
  ASSUME ScreenSlots, NEW p \in Proc, NEW h
  PROVE  /\ Screen!Remains(p, h) \in Screen!Overlay \cup {None}
         /\ Screen!Remains(p, h) = None \/ Screen!Remains(p, h).st = "ended"
  BY DEF ScreenSlots, Screen!Remains, Screen!Overlay

\* An overlay that ends, a locker that goes up or down, keep the invariant.
LEMMA ScreenEndKeeps ==
  ASSUME ScreenInv, NEW p \in Proc, Screen!End(p), UNCHANGED <<up, handle, logged>>
  PROVE  ScreenInv'
  BY ScreenRemainsDead DEF ScreenInv, ScreenSlots, Screen!OverlaysAreKnown,
     Screen!Living, Screen!End

\* Going up.
LEMMA ScreenShowKeeps ==
  ASSUME ScreenInv, Screen!Show, UNCHANGED <<overlay, logged>>
  PROVE  ScreenInv'
  BY DEF ScreenInv, ScreenSlots, Screen!OverlaysAreKnown, Screen!Living,
     Screen!Show

\* Going down.
LEMMA ScreenHideKeeps ==
  ASSUME ScreenInv, Screen!Hide, UNCHANGED logged
  PROVE  ScreenInv'
<1> USE ScreenAssumption
<1>1. CASE up /\ handle # None
  <2>1. handle \in Proc
    BY <1>1 DEF ScreenInv, ScreenSlots
  <2>2. overlay' = [overlay EXCEPT ![handle] = Screen!Remains(handle, None)]
    BY <1>1 DEF Screen!Hide
  <2> QED
    BY <1>1, <2>1, <2>2, ScreenRemainsDead DEF ScreenInv, ScreenSlots,
       Screen!OverlaysAreKnown, Screen!Living, Screen!Hide
<1>2. CASE ~(up /\ handle # None)
  BY <1>2 DEF ScreenInv, ScreenSlots, Screen!OverlaysAreKnown, Screen!Living,
     Screen!Hide
<1> QED
  BY <1>1, <1>2

(* The loop starts an overlay only when none of its own is alive.          *)
LEMMA ScreenLaunchKeeps ==
  ASSUME NEW procs \in [Proc -> Screen!Overlay \cup {None}], NEW sessions \in SUBSET DesktopSession,
         \A q \in Proc : procs[q] # None /\ procs[q].mine => procs[q].st = "ended",
         up, Screen!Launch(procs, sessions), logged' \subseteq DesktopSession
  PROVE  ScreenInv'
<1>1. \A s \in DesktopSession : Screen!Started(s) \in Screen!Overlay
  BY DEF Screen!Started, Screen!Overlay
<1> QED
  BY <1>1 DEF Screen!Launch, ScreenInv, ScreenSlots, Screen!OverlaysAreKnown,
     Screen!Living, Screen!Overlay

\* A tick of the loop keeps it.
LEMMA ScreenEnsureKeeps ==
  ASSUME ScreenInv, Screen!EnsureOverlay, UNCHANGED logged
  PROVE  ScreenInv'
<1> USE ScreenAssumption
<1>1. /\ Screen!DiscoverGraphicalSession \subseteq DesktopSession /\ Screen!ActiveConsoleUID \subseteq DesktopSession
      /\ Screen!ActiveSession \subseteq DesktopSession
  BY DEF ScreenInv, ScreenSlots, Screen!DiscoverGraphicalSession,
     Screen!PickGraphicalSession, Screen!ActiveConsoleUID, Screen!ActiveSession
<1>2. ASSUME NEW q \in Proc, overlay[q] # None, overlay[q].mine, handle # q
      PROVE  overlay[q].st = "ended"
  BY <1>2 DEF ScreenInv, Screen!OverlaysAreKnown, Screen!Living
<1>3. CASE Screen!EnsureOverlayLinux \/ Screen!EnsureOverlayDarwin
  BY <1>1, <1>2, <1>3, ScreenLaunchKeeps DEF Screen!EnsureOverlayLinux,
     Screen!EnsureOverlayDarwin, ScreenInv, ScreenSlots
<1>4. CASE Screen!EnsureOverlayWindows
  <2> DEFINE procs == IF handle = None THEN overlay ELSE [overlay EXCEPT ![handle] = None]
  <2>1. procs \in [Proc -> Screen!Overlay \cup {None}]
    BY DEF ScreenInv, ScreenSlots
  <2>2. \A q \in Proc : procs[q] # None /\ procs[q].mine => procs[q].st = "ended"
    BY <1>2 DEF ScreenInv, ScreenSlots
  <2>3. up /\ Screen!Launch(procs, Screen!ActiveSession)
    BY <1>4 DEF Screen!EnsureOverlayWindows
  <2> HIDE DEF procs
  <2>4. Screen!ActiveSession \in SUBSET DesktopSession /\ logged' \subseteq DesktopSession
    BY <1>1 DEF ScreenInv, ScreenSlots
  <2> QED
    BY <2>1, <2>2, <2>3, <2>4, ScreenLaunchKeeps
<1> QED
  BY <1>3, <1>4 DEF Screen!EnsureOverlay

-----------------------------------------------------------------------------
\* What the service does keeps it,
LEMMA ScreenServiceStep ==
  ASSUME ScreenInv,
         \/ Screen!EnsureLoop \/ Screen!Unlock \/ Screen!DetectOfflineUnlock \/ Screen!Crash \/ Screen!Load
         \/ \E h \in Password : Screen!Lock(h)
         \/ \E w \in Password : Screen!ProcessUnlockRequests(w)
         \/ \E p \in Proc : Screen!Wait(p)
  PROVE  ScreenInv'
<1> USE ScreenAssumption DEF Screen!disk, Screen!desktop
<1>0. logged \subseteq DesktopSession
  BY DEF ScreenInv, ScreenSlots
<1>1. ASSUME UNCHANGED <<up, handle, overlay, logged>> PROVE ScreenInv'
  BY <1>1 DEF ScreenInv, ScreenSlots, Screen!OverlaysAreKnown, Screen!Living
<1>2. CASE Screen!EnsureLoop
  BY <1>0, <1>2, ScreenEnsureKeeps DEF Screen!EnsureLoop
<1>3. CASE Screen!Unlock
  BY <1>3, ScreenHideKeeps DEF Screen!Unlock, Screen!UnlockLocked
<1>4. CASE Screen!DetectOfflineUnlock
  BY <1>0, <1>1, <1>4, ScreenEnsureKeeps DEF Screen!DetectOfflineUnlock,
     Screen!Reassert
<1>5. CASE Screen!Crash
  <2>1. /\ handle' = None /\ UNCHANGED logged
        /\ \E dead \in SUBSET Proc :
             overlay' = [p \in Proc |-> IF Screen!Living(p) /\ p \notin dead
                                        THEN [overlay[p] EXCEPT !.mine = FALSE] ELSE None]
    BY <1>5 DEF Screen!Crash
  <2>2. ASSUME NEW p \in Proc, overlay[p] # None
        PROVE  /\ [overlay[p] EXCEPT !.mine = FALSE] \in Screen!Overlay
               /\ [overlay[p] EXCEPT !.mine = FALSE].mine = FALSE
    BY <2>2 DEF ScreenInv, ScreenSlots, Screen!Overlay
  <2> QED
    BY <2>1, <2>2 DEF ScreenInv, ScreenSlots, Screen!OverlaysAreKnown,
       Screen!Living
<1>6. CASE Screen!Load
  BY <1>0, <1>1, <1>6, ScreenShowKeeps DEF Screen!Load
<1>7. ASSUME NEW h \in Password, Screen!Lock(h) PROVE ScreenInv'
  BY <1>7, ScreenShowKeeps DEF Screen!Lock
<1>8. ASSUME NEW w \in Password, Screen!ProcessUnlockRequests(w) PROVE ScreenInv'
  BY <1>0, <1>1, <1>8, ScreenHideKeeps DEF Screen!ProcessUnlockRequests,
     Screen!UnlockLocked
<1>9. ASSUME NEW p \in Proc, Screen!Wait(p) PROVE ScreenInv'
  BY <1>9 DEF Screen!Wait, ScreenInv, ScreenSlots, Screen!OverlaysAreKnown,
     Screen!Living
<1> QED
  BY <1>2, <1>3, <1>4, <1>5, <1>6, <1>7, <1>8, <1>9

\* what an overlay does,
LEMMA ScreenOverlayStep ==
  ASSUME ScreenInv, NEW p \in Proc,
         \/ Screen!Run(p) \/ Screen!SetupFails(p) \/ Screen!SubmitLinux(p) \/ Screen!SubmitWindows(p)
         \/ Screen!LockuiVerify(p) \/ Screen!Watchdog(p) \/ Screen!Kill(p)
         \/ \E w \in Password : Screen!HandleKey(p, w)
  PROVE  ScreenInv'
<1> USE DEF Screen!service, Screen!disk, Screen!desktop
<1>1. ASSUME Screen!End(p), UNCHANGED <<up, handle, logged>> PROVE ScreenInv'
  BY <1>1, ScreenEndKeeps
<1>2. ASSUME overlay[p] # None, overlay[p].st # "ended", UNCHANGED <<up, handle, logged>>,
             NEW x \in Screen!Overlay, overlay' = [overlay EXCEPT ![p] = x], x.mine = overlay[p].mine
      PROVE  ScreenInv'
  BY <1>2 DEF ScreenInv, ScreenSlots, Screen!OverlaysAreKnown, Screen!Living
<1>3. overlay[p] # None => overlay[p] \in Screen!Overlay
  BY DEF ScreenInv, ScreenSlots
<1>4. CASE Screen!Run(p)
  <2>1. CASE Screen!Exits(p)
    BY <1>1, <2>1 DEF Screen!Exits
  <2>2. CASE ~Screen!Exits(p)
    <3> DEFINE x == [overlay[p] EXCEPT !.st = "shown", !.hash = file]
    <3>1. /\ overlay[p] # None /\ overlay[p].st = "starting" /\ file \in Password
          /\ overlay' = [overlay EXCEPT ![p].st = "shown", ![p].hash = file]
          /\ UNCHANGED <<up, handle, logged>>
      BY <1>4, <2>2 DEF Screen!Run
    <3>2. x \in Screen!Overlay /\ x.mine = overlay[p].mine
      BY <1>3, <3>1 DEF Screen!Overlay
    <3>3. overlay' = [overlay EXCEPT ![p] = x]
      BY <3>1 DEF ScreenInv, ScreenSlots
    <3> HIDE DEF x
    <3> QED
      BY <1>2, <3>1, <3>2, <3>3
  <2> QED
    BY <2>1, <2>2
<1>5. CASE Screen!SetupFails(p) \/ Screen!Kill(p)
  BY <1>1, <1>5 DEF Screen!SetupFails, Screen!Kill
<1>6. ASSUME NEW w \in Password, Screen!HandleKey(p, w) PROVE ScreenInv'
  <2> DEFINE x == [overlay[p] EXCEPT !.typed = w]
  <2>1. x \in Screen!Overlay /\ x.mine = overlay[p].mine
    BY <1>3, <1>6 DEF Screen!HandleKey, Screen!Shown, Screen!Overlay
  <2>2. overlay' = [overlay EXCEPT ![p] = x]
    BY <1>6 DEF Screen!HandleKey, ScreenInv, ScreenSlots
  <2> HIDE DEF x
  <2> QED
    BY <1>2, <1>6, <2>1, <2>2 DEF Screen!HandleKey, Screen!Shown
<1>7. ASSUME NEW u \in Password \cup {None}, Screen!Compare(p, u) PROVE ScreenInv'
  <2>1. CASE Screen!Exits(p)
    BY <1>1, <2>1 DEF Screen!Exits
  <2>2. CASE ~Screen!Exits(p)
    <3>1. PICK x \in {[overlay[p] EXCEPT !.typed = None], [overlay[p] EXCEPT !.typed = u],
                      [overlay[p] EXCEPT !.typed = None, !.pending = TRUE]} :
               overlay' = [overlay EXCEPT ![p] = x]
      <4>1. \/ overlay' = [overlay EXCEPT ![p].typed = None]
            \/ overlay' = [overlay EXCEPT ![p].typed = None, ![p].pending = TRUE]
            \/ overlay' = [overlay EXCEPT ![p].typed = u]
        BY <1>7, <2>2 DEF Screen!Compare
      <4> QED
        BY <4>1 DEF ScreenInv, ScreenSlots
    <3>2. x \in Screen!Overlay /\ x.mine = overlay[p].mine
      BY <1>3, <1>7, <3>1 DEF Screen!Compare, Screen!Shown, Screen!Overlay
    <3>3. UNCHANGED <<up, handle, logged>>
      BY <1>7, <2>2 DEF Screen!Compare
    <3> QED
      BY <1>2, <1>7, <3>1, <3>2, <3>3 DEF Screen!Compare, Screen!Shown
  <2> QED
    BY <2>1, <2>2
<1>8. CASE Screen!SubmitLinux(p)
  BY <1>7, <1>8 DEF Screen!SubmitLinux
<1>9. CASE Screen!SubmitWindows(p)
  <2>1. overlay[p].typed \in Password \cup {None}
    BY <1>3, <1>9 DEF Screen!SubmitWindows, Screen!Compare, Screen!Shown,
       Screen!Overlay
  <2> QED
    BY <1>7, <1>9, <2>1 DEF Screen!SubmitWindows
<1>10. CASE Screen!LockuiVerify(p)
  <2>1. CASE Screen!End(p)
    BY <1>1, <1>10, <2>1 DEF Screen!LockuiVerify
  <2>2. CASE ~Screen!End(p)
    <3> DEFINE x == [overlay[p] EXCEPT !.typed = None]
    <3>1. x \in Screen!Overlay /\ x.mine = overlay[p].mine
      BY <1>3, <1>10 DEF Screen!LockuiVerify, Screen!Shown, Screen!Overlay
    <3>2. overlay' = [overlay EXCEPT ![p] = x]
      BY <1>10, <2>2 DEF Screen!LockuiVerify, ScreenInv, ScreenSlots
    <3> HIDE DEF x
    <3> QED
      BY <1>2, <1>10, <3>1, <3>2 DEF Screen!LockuiVerify, Screen!Shown
  <2> QED
    BY <2>1, <2>2
<1>11. CASE Screen!Watchdog(p)
  <2>1. CASE Screen!Exits(p)
    BY <1>1, <2>1 DEF Screen!Exits
  <2>2. CASE ~Screen!Exits(p)
    <3> DEFINE x == [overlay[p] EXCEPT !.pending = FALSE]
    <3>1. x \in Screen!Overlay /\ x.mine = overlay[p].mine
      BY <1>3, <1>11 DEF Screen!Watchdog, Screen!Shown, Screen!Overlay
    <3>2. overlay' = [overlay EXCEPT ![p] = x] /\ UNCHANGED <<up, handle, logged>>
      BY <1>11, <2>2 DEF Screen!Watchdog, ScreenInv, ScreenSlots
    <3> HIDE DEF x
    <3> QED
      BY <1>2, <1>11, <3>1, <3>2 DEF Screen!Watchdog, Screen!Shown
  <2> QED
    BY <2>1, <2>2
<1> QED
  BY <1>4, <1>5, <1>6, <1>8, <1>9, <1>10, <1>11

\* and what the user does.
LEMMA ScreenUserStep ==
  ASSUME ScreenInv,
         \/ \E s \in DesktopSession \cup {None} : Screen!SwitchTo(s)
         \/ \E s \in DesktopSession : Screen!LogIn(s) \/ Screen!LogOut(s)
         \/ \E f \in {Open, Bad} : Screen!EditFile(f)
         \/ UNCHANGED Screen!vars
  PROVE  ScreenInv'
<1> USE DEF Screen!service, Screen!disk, Screen!desktop
<1>1. ASSUME UNCHANGED <<up, handle, overlay>>, logged' \subseteq DesktopSession
      PROVE  ScreenInv'
  BY <1>1 DEF ScreenInv, ScreenSlots, Screen!OverlaysAreKnown, Screen!Living
<1>2. ASSUME NEW s \in DesktopSession \cup {None}, Screen!SwitchTo(s) PROVE ScreenInv'
  BY <1>1, <1>2 DEF Screen!SwitchTo, ScreenInv, ScreenSlots
<1>3. ASSUME NEW s \in DesktopSession, Screen!LogIn(s) PROVE ScreenInv'
  BY <1>1, <1>3 DEF Screen!LogIn, ScreenInv, ScreenSlots
<1>4. ASSUME NEW s \in DesktopSession, Screen!LogOut(s) PROVE ScreenInv'
  <2>1. overlay' = [p \in Proc |-> IF Screen!Living(p) /\ overlay[p].session = s
                                   THEN Screen!Remains(p, handle) ELSE overlay[p]]
    BY <1>4 DEF Screen!LogOut
  <2>2. UNCHANGED <<up, handle>> /\ logged' \subseteq DesktopSession
    BY <1>4 DEF Screen!LogOut, ScreenInv, ScreenSlots
  <2>3. \A p \in Proc : \/ overlay'[p] = overlay[p]
                        \/ overlay'[p] \in Screen!Overlay \cup {None}
                           /\ (overlay'[p] = None \/ overlay'[p].st = "ended")
    BY <2>1, ScreenRemainsDead DEF ScreenInv
  <2>4. overlay' \in [Proc -> Screen!Overlay \cup {None}]
    BY <2>1, ScreenRemainsDead DEF ScreenInv, ScreenSlots
  <2> QED
    BY <2>2, <2>3, <2>4 DEF ScreenInv, ScreenSlots, Screen!OverlaysAreKnown,
       Screen!Living
<1>5. ASSUME NEW f \in {Open, Bad}, Screen!EditFile(f) PROVE ScreenInv'
  BY <1>1, <1>5 DEF Screen!EditFile, ScreenInv, ScreenSlots
<1>6. CASE UNCHANGED Screen!vars
  BY <1>1, <1>6 DEF Screen!vars, ScreenInv, ScreenSlots
<1> QED
  BY <1>2, <1>3, <1>4, <1>5, <1>6

-----------------------------------------------------------------------------
UpdateTypes ==
  /\ release \in [Update!Version -> {None} \cup (Update!Channel \X Update!Build)]
  /\ publishing \in {None} \cup (Update!Version \X Update!Build \X Update!Channel)
  /\ windows \in BOOLEAN /\ exe \in {None} \cup Update!File
  /\ old \in {None} \cup Update!File
  /\ floor \in 0..Update!Torn /\ proc \in 0..MaxVersion /\ applied \in 0..MaxVersion
  /\ offer \in [v : 0..MaxVersion, build : Update!Build]
  /\ best \in 0..MaxVersion

UpdateBusy == pc \in {"offered", "newer", "allowed", "verified", "moved"}

UpdateNewer ==
  /\ UpdateBusy => offer.v \in Update!Version /\ proc # 0
  /\ IF floor = Update!Torn THEN best = 0 ELSE best <= floor
  /\ pc \in {"newer", "allowed", "verified", "moved"} => offer.v > best

UpdateFloors ==
  /\ floor \in {0, Update!Torn} \/ \E f \in worked : f[1] = floor
  /\ proc # 0 => \E f \in worked : f[1] = proc
  /\ None \notin worked

UpdateSides ==
  windows /\ ~botched =>
    /\ exe \in worked \/ old \in worked
    /\ old # None => old \in worked
    /\ proc # 0 /\ pc \notin {"moved", "stopping"} => exe \in worked
    /\ pc = "moved" => old \in worked
    /\ pc = "moved" => proc # 0

UpdateInv == UpdateTypes /\ UpdateNewer /\ UpdateFloors /\ UpdateSides

-----------------------------------------------------------------------------
\* A file has a version and a build.
LEMMA UpdateFileParts == \A f \in Update!File : f[1] \in Update!Version /\ f[2] \in Update!Build
  BY DEF Update!File

\* The invariant of the update holds at the start.
LEMMA UpdateInitInv == ASSUME Update!Init PROVE UpdateInv
<1> USE UpdateAssumption DEF Update!Init
<1>1. 1 \in Update!Version /\ "good" \in Update!Build /\ "junk" \in Update!Build
  BY DEF Update!Version, Update!Build
<1>2. <<1, "good">> \in Update!File /\ <<1, "good">>[1] = 1
  BY <1>1 DEF Update!File
<1>3. UpdateTypes
  <2>1. windows \in BOOLEAN
    BY Zenon
  <2>2. release \in [Update!Version -> {None} \cup (Update!Channel \X Update!Build)] /\ publishing = None
    OBVIOUS
  <2>3. offer \in [v : 0..MaxVersion, build : Update!Build]
    BY <1>1 DEF Update!Idle
  <2> QED
    BY <1>2, <2>1, <2>2, <2>3 DEF UpdateTypes, Update!Torn
<1>4. UpdateNewer /\ UpdateSides
  BY DEF UpdateNewer, UpdateSides, UpdateBusy, Update!Torn
<1>5. UpdateFloors
  BY <1>2 DEF UpdateFloors
<1> QED
  BY <1>3, <1>4, <1>5 DEF UpdateInv

-----------------------------------------------------------------------------
(* The server's actions leave the device alone.                            *)

UpdateServer ==
  \/ \E v \in Update!Version, b \in Update!Build, ch \in Update!Channel : Update!PublishWrites(v, b, ch)
  \/ Update!RegisterAgentRelease \/ Update!ResolveDeviceUpdateChannel

\* What the server does keeps it.
LEMMA UpdateServerStep == ASSUME UpdateInv, UpdateServer PROVE UpdateInv'
<1>1. UNCHANGED <<Update!disk, Update!agent, Update!count, Update!past>>
  BY DEF UpdateServer, Update!PublishWrites, Update!RegisterAgentRelease,
     Update!ResolveDeviceUpdateChannel
<1>2. /\ release' \in [Update!Version -> {None} \cup (Update!Channel \X Update!Build)]
      /\ publishing' \in {None} \cup (Update!Version \X Update!Build \X Update!Channel)
  <2>1. ASSUME NEW v \in Update!Version, NEW b \in Update!Build, NEW ch \in Update!Channel, Update!PublishWrites(v, b, ch)
        PROVE  UNCHANGED release /\ publishing' \in Update!Version \X Update!Build \X Update!Channel
    BY <2>1 DEF Update!PublishWrites
  <2>2. CASE Update!RegisterAgentRelease
    <3>1. publishing \in Update!Version \X Update!Build \X Update!Channel
      BY <2>2 DEF Update!RegisterAgentRelease, UpdateInv, UpdateTypes
    <3>2. publishing[1] \in Update!Version /\ <<publishing[3], publishing[2]>> \in Update!Channel \X Update!Build
      BY <3>1
    <3> QED
      BY <2>2, <3>2 DEF Update!RegisterAgentRelease, UpdateInv, UpdateTypes
  <2>3. CASE Update!ResolveDeviceUpdateChannel
    BY <2>3 DEF Update!ResolveDeviceUpdateChannel, UpdateInv, UpdateTypes
  <2> QED
    BY <2>1, <2>2, <2>3 DEF UpdateServer, UpdateInv, UpdateTypes
<1> QED
  BY <1>1, <1>2 DEF UpdateInv, UpdateTypes, UpdateNewer, UpdateFloors,
     UpdateSides, UpdateBusy, Update!disk, Update!agent, Update!past

(* The steps of the updater up to the replacement, the disk untouched.     *)
LEMMA UpdatePrepares ==
  ASSUME UpdateInv, UNCHANGED <<Update!repo, Update!disk, Update!past>>,
         \/ \E ch \in Update!Channel : Update!FetchManifest(ch)
         \/ Update!Hold \/ Update!ApplyAllowed \/ Update!Verify \/ Update!Fails
  PROVE  UpdateInv'
<1> USE UpdateAssumption DEF Update!repo, Update!disk, Update!past
<1>1. UNCHANGED <<proc, applied>>
  BY DEF Update!FetchManifest, Update!Hold, Update!ApplyAllowed, Update!Verify,
     Update!Fails, Update!Goes, Update!GivesUp
<1>2. Update!Idle \in [v : 0..MaxVersion, build : Update!Build]
  BY DEF Update!Idle, Update!Build
<1>3. ASSUME NEW ch \in Update!Channel, Update!FetchManifest(ch) PROVE UpdateInv'
  <2>1. PICK v \in Update!Latest(ch) : offer' = [v |-> v, build |-> release[v][2]]
    BY <1>3 DEF Update!FetchManifest
  <2>2. v \in Update!Version /\ release[v] # None
    BY <2>1 DEF Update!Latest, Update!Visible
  <2>3. release[v][2] \in Update!Build
    BY <2>2 DEF UpdateInv, UpdateTypes
  <2>4. offer' \in [v : 0..MaxVersion, build : Update!Build] /\ offer'.v \in Update!Version
    BY <2>1, <2>2, <2>3 DEF Update!Version
  <2>5. pc' = "offered" /\ pc = "idle" /\ proc # 0
    BY <1>3 DEF Update!FetchManifest
  <2> QED
    BY <1>1, <2>4, <2>5 DEF UpdateInv, UpdateTypes, UpdateNewer, UpdateFloors,
       UpdateSides, UpdateBusy
<1>4. CASE Update!Hold
  BY <1>4 DEF Update!Hold, UpdateInv, UpdateTypes, UpdateNewer, UpdateFloors,
     UpdateSides, UpdateBusy
<1>5. CASE Update!ApplyAllowed \/ Update!Verify \/ Update!Fails
  <2>1. \/ pc' = "idle" /\ offer' = Update!Idle
        \/ pc = "newer" /\ pc' = "allowed" /\ UNCHANGED offer
        \/ pc = "allowed" /\ pc' = "verified" /\ UNCHANGED offer
    BY <1>5 DEF Update!ApplyAllowed, Update!Verify, Update!Fails, Update!Goes,
       Update!GivesUp
  <2>2. pc \notin {"moved", "stopping"}
    BY <1>5 DEF Update!ApplyAllowed, Update!Verify, Update!Fails
  <2> QED
    BY <1>1, <1>2, <2>1, <2>2 DEF UpdateInv, UpdateTypes, UpdateNewer,
       UpdateFloors, UpdateSides, UpdateBusy
<1> QED
  BY <1>3, <1>4, <1>5

(* The version that runs is confirmed, and the offer compared.             *)
LEMMA UpdateCompareStep ==
  ASSUME UpdateInv, NEW saved \in BOOLEAN, Update!Compare(saved)
  PROVE  UpdateInv'
<1> USE UpdateAssumption DEF Update!repo
<1>1. /\ pc = "offered" /\ proc # 0 /\ offer.v \in Update!Version
      /\ UNCHANGED <<release, publishing, windows, exe, proc, applied, worked, botched>>
      /\ \/ pc' = "newer" /\ offer' = offer /\ offer.v > Update!Baseline
         \/ pc' = "idle" /\ offer' = Update!Idle
  BY DEF Update!Compare, UpdateInv, UpdateNewer, UpdateBusy
<1>2. Update!ConfirmRunning(saved)
  BY DEF Update!Compare
<1>3. floor \in 0..Update!Torn /\ proc \in 0..MaxVersion /\ applied \in 0..MaxVersion /\ best \in 0..MaxVersion
  BY DEF UpdateInv, UpdateTypes
<1>4. /\ floor' \in {floor, proc} /\ best' \in 0..MaxVersion
      /\ IF floor' = Update!Torn THEN best' = 0 ELSE best' <= floor'
  BY <1>2, <1>3 DEF Update!ConfirmRunning, Update!Newest, UpdateInv,
     UpdateNewer, Update!Torn
<1>5. old' \in {old, None}
  BY <1>2 DEF Update!ConfirmRunning
<1>6. best' <= Update!Baseline /\ Update!Baseline \in Nat
  BY <1>1, <1>3, <1>4 DEF Update!Baseline, Update!Newest, Update!Torn
<1>7. pc' = "newer" => offer'.v > best'
  BY <1>1, <1>3, <1>4, <1>6 DEF Update!Version
<1>8. UpdateTypes'
  BY <1>1, <1>3, <1>4, <1>5 DEF UpdateInv, UpdateTypes, Update!Idle,
     Update!Build, Update!Torn
<1>9. UpdateNewer' /\ UpdateFloors'
  BY <1>1, <1>4, <1>7 DEF UpdateInv, UpdateNewer, UpdateFloors, UpdateBusy
<1>10. UpdateSides'
  BY <1>1, <1>5 DEF UpdateInv, UpdateSides
<1> QED
  BY <1>8, <1>9, <1>10 DEF UpdateInv

(* The executable is replaced: by one rename, or by two of which the second *)
(* may fail and be taken back.                                              *)
LEMMA UpdateReplaceStep ==
  ASSUME UpdateInv, Update!Replace \/ Update!MoveAside \/ Update!PutNew \/ \E b \in BOOLEAN : Update!PutBack(b)
  PROVE  UpdateInv'
<1> USE UpdateAssumption DEF Update!repo, Update!past, Update!GivesUp,
   Update!Goes, Update!Applied
<1>1. /\ UpdateBusy /\ offer.v \in Update!Version /\ offer.build \in Update!Build /\ proc # 0
      /\ <<offer.v, offer.build>> \in Update!File
  BY DEF Update!Replace, Update!MoveAside, Update!PutNew, Update!PutBack,
     UpdateInv, UpdateTypes, UpdateNewer, UpdateBusy, Update!File
<1>2. /\ UNCHANGED <<release, publishing, windows, floor, proc, worked, best>>
      /\ pc' \in {"idle", "moved", "stopping"} /\ (pc' = "moved" => offer' = offer)
      /\ offer' \in {offer, Update!Idle} /\ applied' \in {applied, offer.v}
  BY DEF Update!Replace, Update!MoveAside, Update!PutNew, Update!PutBack
<1>3. exe' \in {exe, None, old, <<offer.v, offer.build>>} /\ old' \in {old, exe, None}
  BY DEF Update!Replace, Update!MoveAside, Update!PutNew, Update!PutBack
<1>4. offer.v \in 0..MaxVersion /\ Update!Idle \in [v : 0..MaxVersion, build : Update!Build]
  BY <1>1 DEF Update!Version, Update!Idle, Update!Build
<1>5. UpdateTypes'
  BY <1>1, <1>2, <1>3, <1>4 DEF UpdateInv, UpdateTypes
<1>6. pc' = "moved" => pc = "verified"
  BY DEF Update!Replace, Update!MoveAside, Update!PutNew, Update!PutBack
<1>7. UpdateNewer' /\ UpdateFloors'
  BY <1>2, <1>6 DEF UpdateInv, UpdateNewer, UpdateFloors, UpdateBusy
<1>8. UpdateSides'
  <2>1. CASE Update!Replace
    BY <2>1 DEF Update!Replace, UpdateSides
  <2>2. CASE Update!MoveAside
    BY <1>1, <2>2 DEF Update!MoveAside, UpdateInv, UpdateSides, UpdateFloors
  <2>3. CASE Update!PutNew
    BY <2>3 DEF Update!PutNew, UpdateInv, UpdateSides
  <2>4. ASSUME NEW b \in BOOLEAN, Update!PutBack(b) PROVE UpdateSides'
    BY <2>4 DEF Update!PutBack, UpdateInv, UpdateSides
  <2> QED
    BY <2>1, <2>2, <2>3, <2>4
<1> QED
  BY <1>5, <1>7, <1>8 DEF UpdateInv

(* The process ends, and something is started again.                       *)
LEMMA UpdateSupervisorStep ==
  ASSUME UpdateInv,
         \/ Update!DiesWhileSaving \/ Update!Exit \/ Update!Crash \/ Update!Start \/ Update!RestoreOld
         \/ \E v \in Update!Version : Update!InstallByHand(v)
  PROVE  UpdateInv'
<1> USE UpdateAssumption DEF Update!repo, Update!disk, Update!past,
   Update!agent, Update!count, Update!Stops
<1>0. Update!Idle \in [v : 0..MaxVersion, build : Update!Build] /\ Update!Torn \in 0..Update!Torn
  BY DEF Update!Idle, Update!Build, Update!Torn
<1>1. CASE Update!DiesWhileSaving
  <2>1. pc = "offered" /\ proc # 0
    BY <1>1 DEF Update!DiesWhileSaving, UpdateInv, UpdateNewer, UpdateBusy
  <2>2. UpdateTypes' /\ UpdateNewer' /\ UpdateFloors'
    BY <1>0, <1>1 DEF Update!DiesWhileSaving, UpdateInv, UpdateTypes,
       UpdateNewer, UpdateFloors, UpdateBusy
  <2>3. UpdateSides'
    BY <1>1, <2>1 DEF Update!DiesWhileSaving, UpdateInv, UpdateSides
  <2> QED
    BY <2>2, <2>3 DEF UpdateInv
<1>2. CASE Update!Exit \/ Update!Crash
  BY <1>0, <1>2 DEF Update!Exit, Update!Crash, UpdateInv, UpdateTypes,
     UpdateNewer, UpdateFloors, UpdateSides, UpdateBusy
<1>3. CASE Update!Start
  <2>1. exe \in Update!File /\ exe[1] \in Update!Version /\ exe[1] \in 0..MaxVersion
    BY <1>3, UpdateFileParts DEF Update!Start, UpdateInv, UpdateTypes,
       Update!Version
  <2>2. UpdateTypes'
    BY <1>3, <2>1 DEF Update!Start, UpdateInv, UpdateTypes
  <2>3. UpdateNewer' /\ UpdateFloors' /\ UpdateSides'
    BY <1>3, <2>1 DEF Update!Start, UpdateInv, UpdateNewer, UpdateFloors,
       UpdateSides, UpdateBusy
  <2> QED
    BY <2>2, <2>3 DEF UpdateInv
<1>4. CASE Update!RestoreOld
  BY <1>4 DEF Update!RestoreOld, UpdateInv, UpdateTypes, UpdateNewer,
     UpdateFloors, UpdateSides, UpdateBusy
<1>5. ASSUME NEW v \in Update!Version, Update!InstallByHand(v) PROVE UpdateInv'
  <2>1. <<v, "good">> \in Update!File
    BY DEF Update!File, Update!Build
  <2>2. UpdateTypes' /\ UpdateNewer'
    BY <1>0, <1>5, <2>1 DEF Update!InstallByHand, UpdateInv, UpdateTypes,
       UpdateNewer, UpdateBusy
  <2>3. UpdateFloors' /\ UpdateSides'
    BY <1>5, <2>1 DEF Update!InstallByHand, UpdateInv, UpdateFloors,
       UpdateSides
  <2> QED
    BY <2>2, <2>3 DEF UpdateInv
<1> QED
  BY <1>1, <1>2, <1>3, <1>4, <1>5

\* Every step keeps it.
LEMMA UpdateStep == ASSUME UpdateInv, [Update!Next]_(Update!vars) PROVE UpdateInv'
<1>1. ASSUME \/ \E ch \in Update!Channel : Update!FetchManifest(ch)
             \/ Update!Hold \/ Update!ApplyAllowed \/ Update!Verify \/ Update!Fails
      PROVE  UNCHANGED <<Update!repo, Update!disk, Update!past>>
  BY <1>1 DEF Update!FetchManifest, Update!Hold, Update!ApplyAllowed,
     Update!Verify, Update!Fails
<1>2. CASE UNCHANGED Update!vars
  BY <1>2 DEF Update!vars, Update!repo, Update!disk, Update!agent, Update!past,
     UpdateInv, UpdateTypes, UpdateNewer, UpdateFloors, UpdateSides, UpdateBusy
<1> QED
  BY <1>1, <1>2, UpdateServerStep, UpdatePrepares, UpdateCompareStep,
     UpdateReplaceStep, UpdateSupervisorStep DEF Update!Next, UpdateServer

-----------------------------------------------------------------------------
(* StateMigration, LockScreen, SelfUpdate: the types that the invariants   *)
(* do not need.                                                            *)

\* The counters and sets of the move.
MigrateTypes ==
  /\ moving \in QueuedReport \cup {"seen", None} /\ todo \subseteq QueuedReport
  /\ failures \in 0..MaxErrors /\ stops \in 0..MaxStops
  /\ queued \subseteq QueuedReport /\ sent \subseteq QueuedReport /\ resent \subseteq QueuedReport
  /\ done \subseteq Task /\ doubled \subseteq QueuedReport /\ missed \subseteq Task

\* Steps keep them.
LEMMA MigrateTypesStep ==
  ASSUME MigrateInv, MigrateTypes, [Migrate!Next]_(Migrate!vars)
  PROVE  MigrateTypes'
<1> USE MigrateAssumption, RemovalAssumption, MigrateTwoPlaces
   DEF MigrateTypes, MigrateInv, MigratePlaces
<1>0. \A p \in Migrate!Place : outbox[p] \subseteq QueuedReport /\ Migrate!Known(p) \subseteq Task
  BY DEF Migrate!Known
<1>1. CASE Migrate!EnsureDataDir
  BY <1>0, <1>1 DEF Migrate!EnsureDataDir, Migrate!NoFault, Migrate!Fault,
     Migrate!count
<1>2. CASE Migrate!MigrateFile
  BY <1>0, <1>2 DEF Migrate!MigrateFile, Migrate!Entries, Migrate!NoFault,
     Migrate!Fault, Migrate!count
<1>3. CASE Migrate!RemoveFile
  BY <1>0, <1>3 DEF Migrate!RemoveFile, Migrate!Entries, Migrate!NoFault,
     Migrate!Fault, Migrate!count, Migrate!history
<1>4. CASE Migrate!Started \/ Migrate!Stop
  BY <1>4 DEF Migrate!Started, Migrate!Stop, Migrate!count, Migrate!history
<1>5. CASE \E r \in QueuedReport : Migrate!MigrateEntry(r) \/ Migrate!RemoveEntry(r)
  BY <1>5 DEF Migrate!MigrateEntry, Migrate!RemoveEntry, Migrate!NoFault,
     Migrate!Fault, Migrate!count
<1>6. CASE \E r \in QueuedReport : Migrate!Enqueue(r) \/ Migrate!Deliver(r)
  BY <1>6 DEF Migrate!Enqueue, Migrate!Deliver, Migrate!count
<1>7. CASE \E t \in Task : Migrate!RunTask(t)
  BY <1>7 DEF Migrate!RunTask, Migrate!count
<1>8. CASE UNCHANGED Migrate!vars
  BY <1>8 DEF Migrate!vars, Migrate!count, Migrate!history
<1> QED
  BY <1>1, <1>2, <1>3, <1>4, <1>5, <1>6, <1>7, <1>8 DEF Migrate!Next

\* Together with the invariant they are the types.
LEMMA MigrateTyped == ASSUME MigrateInv, MigrateTypes PROVE Migrate!TypeOK
BY DEF MigrateInv, MigratePlaces, MigrateTypes, Migrate!TypeOK

\* Whether the service and its locker are up.
ScreenFlags == running \in BOOLEAN /\ up \in BOOLEAN

\* The rest of the screen.
ScreenTypes ==
  /\ os \in {"linux", "darwin", "windows"} /\ lock \in Password \cup {Open}
  /\ file \in Password \cup {Open, Bad} /\ requests \subseteq Password
  /\ active \in logged \cup {None}
  /\ locks \in 0..MaxLocks /\ acts \in 0..MaxActs
  /\ failures \in 0..MaxFailures /\ crashes \in 0..MaxCrashes

\* Steps keep what is true or false,
LEMMA ScreenFlagsStep == ASSUME ScreenFlags, [Screen!Next]_(Screen!vars) PROVE ScreenFlags'
<1> USE DEF ScreenFlags, Screen!service, Screen!Show, Screen!Hide,
   Screen!UnlockLocked
<1>1. CASE \E h \in Password : Screen!Lock(h)
  BY <1>1, Zenon DEF Screen!Lock
<1>2. CASE Screen!Unlock \/ \E w \in Password : Screen!ProcessUnlockRequests(w)
  BY <1>2, Zenon DEF Screen!Unlock, Screen!ProcessUnlockRequests
<1>3. CASE Screen!Crash \/ Screen!Load
  BY <1>3, Zenon DEF Screen!Crash, Screen!Load
<1>4. CASE Screen!DetectOfflineUnlock \/ Screen!EnsureLoop
  BY <1>4, Zenon DEF Screen!DetectOfflineUnlock, Screen!EnsureLoop,
     Screen!Reassert, Screen!EnsureOverlay, Screen!Launch,
     Screen!EnsureOverlayLinux, Screen!EnsureOverlayDarwin,
     Screen!EnsureOverlayWindows
<1>5. ASSUME NEW p \in Proc, Screen!Wait(p) \/ Screen!Run(p) \/ Screen!SetupFails(p) \/ Screen!Watchdog(p) \/ Screen!Kill(p)
      PROVE  ScreenFlags'
  BY <1>5, Zenon DEF Screen!Wait, Screen!Run, Screen!SetupFails,
     Screen!Watchdog, Screen!Kill, Screen!Exits
<1>7. ASSUME NEW p \in Proc, Screen!SubmitLinux(p) \/ Screen!SubmitWindows(p) \/ Screen!LockuiVerify(p)
      PROVE  ScreenFlags'
  <2>1. UNCHANGED <<running, up>>
    BY <1>7, Zenon DEF Screen!SubmitLinux, Screen!SubmitWindows,
       Screen!LockuiVerify, Screen!Compare, Screen!Exits
  <2> QED
    BY <2>1, Zenon
<1>8. CASE \E p \in Proc, w \in Password : Screen!HandleKey(p, w)
  BY <1>8, Zenon DEF Screen!HandleKey
<1>6. CASE \/ \E s \in DesktopSession \cup {None} : Screen!SwitchTo(s)
           \/ \E s \in DesktopSession : Screen!LogIn(s) \/ Screen!LogOut(s)
           \/ \E f \in {Open, Bad} : Screen!EditFile(f)
           \/ UNCHANGED Screen!vars
  BY <1>6, Zenon DEF Screen!SwitchTo, Screen!LogIn, Screen!LogOut,
     Screen!EditFile, Screen!vars
<1> QED
  BY <1>1, <1>2, <1>3, <1>4, <1>5, <1>6, <1>7, <1>8 DEF Screen!Next

\* and the rest.
LEMMA ScreenTypesStep ==
  ASSUME ScreenSlots, ScreenTypes, [Screen!Next]_(Screen!vars)
  PROVE  ScreenTypes'
<1> USE ScreenAssumption, ListingAssumption, ScriptsAssumption DEF ScreenTypes,
   Screen!count, Screen!service, Screen!disk, Screen!desktop, Screen!NoFault,
   Screen!Fault, Screen!Act
<1>1. CASE Screen!Crash \/ Screen!Load \/ \E h \in Password : Screen!Lock(h)
  <2>1. CASE Screen!Crash
    <3>1. /\ lock' = Open /\ UNCHANGED <<os, file, requests, logged, active, locks, acts, failures>>
          /\ crashes < MaxCrashes /\ crashes' = crashes + 1
      BY <2>1, Zenon DEF Screen!Crash
    <3> QED
      BY <3>1
  <2>2. CASE Screen!Load
    BY <2>2 DEF Screen!Load
  <2>3. CASE \E h \in Password : Screen!Lock(h)
    BY <2>3 DEF Screen!Lock
  <2> QED
    BY <1>1, <2>1, <2>2, <2>3
<1>2. CASE Screen!Unlock \/ \E w \in Password : Screen!ProcessUnlockRequests(w)
  <2>1. ASSUME Screen!UnlockLocked \/ (UNCHANGED <<lock, file>> /\ (Screen!NoFault \/ Screen!Fault))
        PROVE  /\ lock' \in {lock, Open} /\ file' \in {file, Open}
               /\ locks' \in 0..MaxLocks /\ acts' \in 0..MaxActs
               /\ failures' \in 0..MaxFailures /\ crashes' \in 0..MaxCrashes
    BY <2>1 DEF Screen!UnlockLocked
  <2>2. /\ Screen!UnlockLocked \/ (UNCHANGED <<lock, file>> /\ (Screen!NoFault \/ Screen!Fault))
        /\ requests' \subseteq requests /\ UNCHANGED <<os, logged, active>>
    BY <1>2, Zenon DEF Screen!Unlock, Screen!ProcessUnlockRequests
  <2> QED
    BY <2>1, <2>2
<1>3. CASE Screen!DetectOfflineUnlock \/ Screen!EnsureLoop
  BY <1>3 DEF Screen!DetectOfflineUnlock, Screen!EnsureLoop
<1>4. ASSUME NEW p \in Proc, Screen!Wait(p) \/ Screen!Run(p) \/ Screen!SetupFails(p) \/ Screen!Watchdog(p) \/ Screen!Kill(p)
      PROVE  ScreenTypes'
  BY <1>4 DEF Screen!Wait, Screen!Run, Screen!SetupFails, Screen!Watchdog,
     Screen!Kill, Screen!Exits
<1>5. ASSUME NEW p \in Proc, Screen!SubmitLinux(p) \/ Screen!SubmitWindows(p) \/ Screen!LockuiVerify(p)
      PROVE  ScreenTypes'
  <2>1. overlay[p] # None /\ overlay[p].typed # None => overlay[p].typed \in Password
    BY DEF ScreenSlots, Screen!Overlay
  <2> QED
    BY <1>5, <2>1 DEF Screen!SubmitLinux, Screen!SubmitWindows, Screen!Compare,
       Screen!LockuiVerify, Screen!Exits, Screen!Shown
<1>6. CASE \E p \in Proc, w \in Password : Screen!HandleKey(p, w)
  BY <1>6 DEF Screen!HandleKey
<1>7. CASE \/ \E s \in DesktopSession \cup {None} : Screen!SwitchTo(s)
           \/ \E s \in DesktopSession : Screen!LogIn(s) \/ Screen!LogOut(s)
           \/ \E f \in {Open, Bad} : Screen!EditFile(f)
  BY <1>7 DEF Screen!SwitchTo, Screen!LogIn, Screen!LogOut, Screen!EditFile
<1>8. CASE UNCHANGED Screen!vars
  BY <1>8 DEF Screen!vars
<1> QED
  BY <1>1, <1>2, <1>3, <1>4, <1>5, <1>6, <1>7, <1>8 DEF Screen!Next

\* Together with the slots of the overlays they are the types.
LEMMA ScreenTyped == ASSUME ScreenSlots, ScreenTypes, ScreenFlags PROVE Screen!TypeOK
BY DEF ScreenSlots, ScreenTypes, ScreenFlags, Screen!TypeOK

\* The files served, the step, the counters.
UpdateRest ==
  /\ served \in [Update!Version -> {None} \cup Update!Build]
  /\ published \in 0..MaxPublished
  /\ pc \in {"idle", "offered", "newer", "allowed", "verified", "moved", "stopping"}
  /\ hands \in 0..MaxHand /\ failures \in 0..MaxFailures
  /\ worked \subseteq Update!File

\* What is true or false of the update.
UpdateFlags == beta \in BOOLEAN /\ confirmed \in BOOLEAN /\ holding \in BOOLEAN /\ botched \in BOOLEAN

\* Steps keep what is true or false,
LEMMA UpdateFlagsStep == ASSUME UpdateFlags, [Update!Next]_(Update!vars) PROVE UpdateFlags'
<1> USE DEF UpdateFlags, Update!repo, Update!agent, Update!past, Update!Goes,
   Update!GivesUp, Update!Stops, Update!Applied
<1>1. CASE \/ \E v \in Update!Version, b \in Update!Build, ch \in Update!Channel : Update!PublishWrites(v, b, ch)
           \/ Update!RegisterAgentRelease \/ Update!ResolveDeviceUpdateChannel
  BY <1>1, Zenon DEF Update!PublishWrites, Update!RegisterAgentRelease,
     Update!ResolveDeviceUpdateChannel
<1>2. CASE \/ \E ch \in Update!Channel : Update!FetchManifest(ch)
           \/ Update!DiesWhileSaving \/ Update!Hold
  BY <1>2, Zenon DEF Update!FetchManifest, Update!DiesWhileSaving, Update!Hold
<1>3. CASE \E b \in BOOLEAN : Update!Compare(b) \/ Update!PutBack(b)
  BY <1>3, Zenon DEF Update!Compare, Update!PutBack
<1>4. CASE Update!ApplyAllowed \/ Update!Verify \/ Update!Fails \/ Update!Replace
  BY <1>4, Zenon DEF Update!ApplyAllowed, Update!Verify, Update!Fails,
     Update!Replace
<1>5. CASE Update!MoveAside \/ Update!PutNew \/ Update!Exit \/ Update!Crash
  BY <1>5, Zenon DEF Update!MoveAside, Update!PutNew, Update!Exit, Update!Crash
<1>6. CASE Update!Start \/ Update!RestoreOld \/ \E v \in Update!Version : Update!InstallByHand(v)
  BY <1>6, Zenon DEF Update!Start, Update!RestoreOld, Update!InstallByHand
<1>7. CASE UNCHANGED Update!vars
  BY <1>7, Zenon DEF Update!vars
<1> QED
  BY <1>1, <1>2, <1>3, <1>4, <1>5, <1>6, <1>7 DEF Update!Next

\* and the rest.
LEMMA UpdateRestStep ==
  ASSUME UpdateTypes, UpdateRest, [Update!Next]_(Update!vars)
  PROVE  UpdateRest'
<1> USE UpdateAssumption, ListingAssumption DEF UpdateRest, Update!repo,
   Update!disk, Update!count, Update!past
<1>1. CASE \/ \E v \in Update!Version, b \in Update!Build, ch \in Update!Channel : Update!PublishWrites(v, b, ch)
           \/ Update!RegisterAgentRelease \/ Update!ResolveDeviceUpdateChannel
  <2>1. UNCHANGED <<pc, hands, failures, worked>>
    BY <1>1, Zenon DEF Update!PublishWrites, Update!RegisterAgentRelease,
       Update!ResolveDeviceUpdateChannel, Update!agent
  <2>2. \/ \E v \in Update!Version, c \in Update!Build : served' = [served EXCEPT ![v] = c]
        \/ served' = served
    BY <1>1, Zenon DEF Update!PublishWrites, Update!RegisterAgentRelease,
       Update!ResolveDeviceUpdateChannel
  <2>3. served' \in [Update!Version -> {None} \cup Update!Build]
    BY <2>2
  <2>4. published' = published \/ (published < MaxPublished /\ published' = published + 1)
    BY <1>1, Zenon DEF Update!PublishWrites, Update!RegisterAgentRelease,
       Update!ResolveDeviceUpdateChannel
  <2> QED
    BY <2>1, <2>3, <2>4
<1>2. CASE ~(\/ \E v \in Update!Version, b \in Update!Build, ch \in Update!Channel : Update!PublishWrites(v, b, ch)
             \/ Update!RegisterAgentRelease \/ Update!ResolveDeviceUpdateChannel)
  <2>1. UNCHANGED <<served, published>>
    BY <1>2, Zenon DEF Update!Next, Update!vars, Update!FetchManifest,
       Update!DiesWhileSaving, Update!Hold, Update!Compare, Update!PutBack,
       Update!ApplyAllowed, Update!Verify, Update!Fails, Update!Replace,
       Update!MoveAside, Update!PutNew, Update!Exit, Update!Crash,
       Update!Start, Update!RestoreOld, Update!InstallByHand
  <2>2. pc' \in {"idle", "offered", "newer", "allowed", "verified", "moved", "stopping"}
    BY <1>2, Zenon DEF Update!Next, Update!vars, Update!FetchManifest,
       Update!DiesWhileSaving, Update!Hold, Update!Compare, Update!PutBack,
       Update!ApplyAllowed, Update!Verify, Update!Fails, Update!Replace,
       Update!MoveAside, Update!PutNew, Update!Exit, Update!Crash,
       Update!Start, Update!RestoreOld, Update!InstallByHand, Update!Goes,
       Update!GivesUp, Update!Stops, Update!Applied, Update!agent
  <2>3. \/ UNCHANGED failures
        \/ failures' = failures + 1 /\ failures < MaxFailures
        \/ \E b \in BOOLEAN : Update!Compare(b)
    BY <1>2, Zenon DEF Update!Next, Update!vars, Update!FetchManifest,
       Update!DiesWhileSaving, Update!Hold, Update!PutBack,
       Update!ApplyAllowed, Update!Verify, Update!Fails, Update!Replace,
       Update!MoveAside, Update!PutNew, Update!Exit, Update!Crash,
       Update!Start, Update!RestoreOld, Update!InstallByHand
  <2>4. ASSUME NEW b \in BOOLEAN, Update!Compare(b) PROVE failures' \in 0..MaxFailures
    BY <2>4 DEF Update!Compare
  <2>5. UNCHANGED hands \/ (hands < MaxHand /\ hands' = hands + 1)
    BY <1>2, Zenon DEF Update!Next, Update!vars, Update!FetchManifest,
       Update!DiesWhileSaving, Update!Hold, Update!Compare, Update!PutBack,
       Update!ApplyAllowed, Update!Verify, Update!Fails, Update!Replace,
       Update!MoveAside, Update!PutNew, Update!Exit, Update!Crash,
       Update!Start, Update!RestoreOld, Update!InstallByHand
  <2>6. \/ UNCHANGED worked
        \/ Update!Start
        \/ \E v \in Update!Version : Update!InstallByHand(v)
    BY <1>2, Zenon DEF Update!Next, Update!vars, Update!FetchManifest,
       Update!DiesWhileSaving, Update!Hold, Update!Compare, Update!PutBack,
       Update!ApplyAllowed, Update!Verify, Update!Fails, Update!Replace,
       Update!MoveAside, Update!PutNew, Update!Exit, Update!Crash,
       Update!RestoreOld
  <2>7. ASSUME Update!Start PROVE worked' \subseteq Update!File
    BY <2>7 DEF Update!Start, UpdateTypes
  <2>8. ASSUME NEW v \in Update!Version, Update!InstallByHand(v) PROVE worked' \subseteq Update!File
    <3>1. <<v, "good">> \in Update!File
      BY DEF Update!File, Update!Build
    <3>2. worked' = worked \cup {<<v, "good">>}
      BY <2>8, Zenon DEF Update!InstallByHand
    <3> QED
      BY <3>1, <3>2
  <2>9. worked' \subseteq Update!File
    BY <2>6, <2>7, <2>8
  <2>10. failures' \in 0..MaxFailures
    BY <2>3, <2>4
  <2>11. hands' \in 0..MaxHand
    BY <2>5
  <2> QED
    BY <2>1, <2>2, <2>9, <2>10, <2>11
<1> QED
  BY <1>1, <1>2

\* Together with those of the invariant they are the types.
LEMMA UpdateTyped == ASSUME UpdateTypes, UpdateRest, UpdateFlags PROVE Update!TypeOK
BY DEF UpdateTypes, UpdateRest, UpdateFlags, Update!TypeOK


\* All of them hold at the start.
LEMMA MigrateTypesInit == ASSUME Migrate!Init PROVE MigrateTypes
BY MigrateAssumption, RemovalAssumption DEF Migrate!Init, MigrateTypes

\* The same, of the screen.
LEMMA ScreenTypesInit == ASSUME Screen!Init PROVE ScreenTypes /\ ScreenFlags
<1>1. ScreenFlags
  BY Zenon DEF Screen!Init, ScreenFlags
<1>2. ScreenTypes
  BY ScreenAssumption, ListingAssumption, ScriptsAssumption DEF Screen!Init,
     ScreenTypes
<1> QED
  BY <1>1, <1>2

\* The same, of the update.
LEMMA UpdateRestInit == ASSUME Update!Init PROVE UpdateRest /\ UpdateFlags
<1>1. UpdateFlags
  BY Zenon DEF Update!Init, UpdateFlags
<1>2. UpdateRest
  BY UpdateAssumption, ListingAssumption DEF Update!Init, UpdateRest,
     Update!File, Update!Version, Update!Build
<1> QED
  BY <1>1, <1>2

-----------------------------------------------------------------------------
(* The part moves alone: a step is one of its own or leaves it as it is.   *)

\* A step while the part is the migration is one of the migration,
LEMMA MigratePartStep ==
  ASSUME [PartNext]_<<part, vars, cells>>, part = "migration"
  PROVE  part' = part /\ [Migrate!Next]_(Migrate!vars)
<1>1. CASE PartNext
  BY <1>1 DEF PartNext
<1>2. CASE UNCHANGED <<part, vars, cells>>
  BY <1>2 DEF cells, inMigration, shared, Migrate!vars, Migrate!count,
     Migrate!disk, Migrate!history
<1> QED
  BY <1>1, <1>2

\* while it is the screen one of the screen,
LEMMA ScreenPartStep ==
  ASSUME [PartNext]_<<part, vars, cells>>, part = "screen"
  PROVE  part' = part /\ [Screen!Next]_(Screen!vars)
<1>1. CASE PartNext
  BY <1>1 DEF PartNext
<1>2. CASE UNCHANGED <<part, vars, cells>>
  BY <1>2 DEF cells, inScreen, shared, Screen!vars, Screen!count, Screen!disk,
     Screen!desktop, Screen!service
<1> QED
  BY <1>1, <1>2

\* and while it is the update one of the update.
LEMMA UpdatePartStep ==
  ASSUME [PartNext]_<<part, vars, cells>>, part = "update"
  PROVE  part' = part /\ [Update!Next]_(Update!vars)
<1>1. CASE PartNext
  BY <1>1 DEF PartNext
<1>2. CASE UNCHANGED <<part, vars, cells>>
  BY <1>2 DEF cells, inUpdate, shared, Update!vars, Update!count, Update!disk,
     Update!repo, Update!past, Update!agent
<1> QED
  BY <1>1, <1>2


-----------------------------------------------------------------------------
(* StateMigration: the invariant holds in every reachable state.           *)
THEOREM MigrateInvariant ==
  PartSpec => [](part = "migration" => MigrateInv /\ MigrateTypes)
<1> DEFINE I == part = "migration" => MigrateInv /\ MigrateTypes
<1>1. PartInit => I
  BY MigrateInitInv, MigrateTypesInit DEF PartInit
<1>2. I /\ [PartNext]_<<part, vars, cells>> => I'
  <2> SUFFICES ASSUME MigrateInv, MigrateTypes, part = "migration", [PartNext]_<<part, vars, cells>>
               PROVE  MigrateInv' /\ MigrateTypes'
    BY AgentPartStays
  <2>1. [Migrate!Next]_(Migrate!vars)
    BY MigratePartStep
  <2>2. MigrateTypes'
    BY <2>1, MigrateTypesStep
  <2> QED
    BY <2>1, <2>2, MigratePlacesStep, MigrateRecordsStep, MigrateTasksStep
       DEF MigrateInv
<1> QED
  BY <1>1, <1>2, PTL DEF PartSpec

(* StateMigration: no record is lost or sent twice and no task is run      *)
(* again, whatever stops and failures the move meets, but for what they    *)
(* are known to have left.                                                 *)
THEOREM MoveSurvives == PartSpec => []StateSurvives
<1>1. (part = "migration" => MigrateInv /\ MigrateTypes) => StateSurvives
  BY DEF MigrateInv, MigrateRecords, MigrateTasks, StateSurvives,
     Migrate!StateSurvives
<1> QED
  BY <1>1, MigrateInvariant, PTL

(* LockScreen: the invariant holds in every reachable state.               *)
THEOREM ScreenInvariant ==
  PartSpec => [](part = "screen" => ScreenInv /\ ScreenTypes /\ ScreenFlags)
<1> DEFINE I == part = "screen" => ScreenInv /\ ScreenTypes /\ ScreenFlags
<1>1. PartInit => I
  BY ScreenInitInv, ScreenTypesInit DEF PartInit
<1>2. I /\ [PartNext]_<<part, vars, cells>> => I'
  <2> SUFFICES ASSUME ScreenInv, ScreenTypes, ScreenFlags, part = "screen",
                      [PartNext]_<<part, vars, cells>>
               PROVE  ScreenInv' /\ ScreenTypes' /\ ScreenFlags'
    BY AgentPartStays
  <2>1. [Screen!Next]_(Screen!vars)
    BY ScreenPartStep
  <2>2. ScreenTypes' /\ ScreenFlags'
    BY <2>1, ScreenTypesStep, ScreenFlagsStep DEF ScreenInv
  <2>3. ScreenInv'
    BY <2>1, ScreenServiceStep, ScreenOverlayStep, ScreenUserStep
       DEF Screen!Next
  <2> QED
    BY <2>2, <2>3
<1> QED
  BY <1>1, <1>2, PTL DEF PartSpec

(* LockScreen: every overlay of this life of the service that still runs   *)
(* is the one it holds, and none runs when the locker is down.             *)
THEOREM NeverLoose == PartSpec => []OverlaysAreKnown
<1>1. (part = "screen" => ScreenInv /\ ScreenTypes /\ ScreenFlags) => OverlaysAreKnown
  BY DEF ScreenInv, OverlaysAreKnown
<1> QED
  BY <1>1, ScreenInvariant, PTL

-----------------------------------------------------------------------------
(* SelfUpdate: the invariant holds in every reachable state.               *)
THEOREM UpdateInvariant ==
  PartSpec => [](part = "update" => UpdateInv /\ UpdateRest /\ UpdateFlags)
<1> DEFINE I == part = "update" => UpdateInv /\ UpdateRest /\ UpdateFlags
<1>1. PartInit => I
  BY UpdateInitInv, UpdateRestInit DEF PartInit
<1>2. I /\ [PartNext]_<<part, vars, cells>> => I'
  <2> SUFFICES ASSUME UpdateInv, UpdateRest, UpdateFlags, part = "update",
                      [PartNext]_<<part, vars, cells>>
               PROVE  UpdateInv' /\ UpdateRest' /\ UpdateFlags'
    BY AgentPartStays
  <2>1. [Update!Next]_(Update!vars)
    BY UpdatePartStep
  <2>2. UpdateRest' /\ UpdateFlags'
    BY <2>1, UpdateRestStep, UpdateFlagsStep DEF UpdateInv
  <2> QED
    BY <2>1, <2>2, UpdateStep
<1> QED
  BY <1>1, <1>2, PTL DEF PartSpec

(* SelfUpdate: after an update that does not start the machine can be      *)
(* brought back, and no floor keeps it out of what worked.                 *)
THEOREM CanRecover == PartSpec => []Recoverable
<1>1. (part = "update" => UpdateInv /\ UpdateRest /\ UpdateFlags) => Recoverable
  BY DEF UpdateInv, UpdateFloors, UpdateSides, Recoverable, Update!Recoverable
<1> QED
  BY <1>1, UpdateInvariant, PTL

(* SelfUpdate: the updater applies only what is newer than all it          *)
(* confirmed.                                                              *)
THEOREM NeverDowngrades == PartSpec => NoDowngrade
<1> DEFINE I == part = "update" => UpdateInv /\ UpdateRest /\ UpdateFlags
<1>1. ASSUME UpdateInv, Update!Next PROVE Update!NeverBack
  <2> SUFFICES ASSUME applied' \notin {0, applied} PROVE applied' > best
    BY DEF Update!NeverBack
  <2>1. CASE Update!Replace \/ Update!PutNew
    BY <1>1, <2>1 DEF Update!Replace, Update!PutNew, Update!Applied, UpdateInv,
       UpdateNewer
  <2>2. CASE ~(Update!Replace \/ Update!PutNew)
    <3>1. applied' \in {0, applied}
      BY <1>1, <2>2 DEF Update!Next, Update!PublishWrites,
         Update!RegisterAgentRelease, Update!ResolveDeviceUpdateChannel,
         Update!FetchManifest, Update!Compare, Update!PutBack,
         Update!DiesWhileSaving, Update!Hold, Update!ApplyAllowed,
         Update!Verify, Update!Fails, Update!MoveAside, Update!Exit,
         Update!Crash, Update!Start, Update!RestoreOld, Update!InstallByHand,
         Update!Stops, Update!GivesUp, Update!Goes, Update!agent
    <3> QED
      BY <3>1
  <2> QED
    BY <2>1, <2>2
<1>2. ASSUME I, [PartNext]_<<part, vars, cells>>
      PROVE  [part = "update" => Update!NeverBack]_<<part, cells>>
  <2>1. CASE PartNext
    BY <1>1, <1>2, <2>1 DEF PartNext
  <2>2. CASE UNCHANGED <<part, vars, cells>>
    BY <2>2
  <2> QED
    BY <1>2, <2>1, <2>2
<1> QED
  BY <1>2, UpdateInvariant, PTL DEF PartSpec, NoDowngrade

-----------------------------------------------------------------------------
(* Script policies (ScriptRuns): why a version starts once and why a       *)
(* result the queue took is not lost.                                      *)

\* A policy there is has a state, a script and a time.
ScriptPolicies ==
  \A p \in Policy : policy[p] # Scripts!NoPolicy =>
    /\ policy[p].state \in {"on", "off"} /\ policy[p].script \in Script
    /\ policy[p].at \in Scripts!Edit

\* Whatever the agent was sent, runs or has run was created by an operator.
ScriptBorn(p) == policy[p] # Scripts!NoPolicy \/ p \in deleted

ScriptsBorn ==
  /\ answer # None => \A e \in answer.set : ScriptBorn(e.id)
  /\ \A e \in known : ScriptBorn(e.id)
  /\ \A c \in Scripts!Caller : \A e \in caller[c].left : ScriptBorn(e.id)
  /\ \A c \in Scripts!Caller : caller[c].hand # None => ScriptBorn(caller[c].hand.id)
  /\ \A g \in runs : ScriptBorn(g.e.id)
  /\ \A r \in ended : ScriptBorn(r[2])

\* Every run has a number of its own, also when it has ended.
ScriptsNumbered ==
  /\ \A g \in runs : g.n <= started
  /\ \A g, h \in runs : g.n = h.n => g = h
  /\ \A r \in ended : r[1] <= started
  /\ \A r \in ended, g \in runs : g.n # r[1]
  /\ \A q, r \in ended : q[1] = r[1] => q = r
  /\ queue \subseteq ended

\* A version a connect started, or is about to start, is marked, and only
\* a mark that did not reach the file can be forgotten.
ScriptOnce(k) == \A a \in byConnect : a[2] = k => k \in unmarked
ScriptsMarked ==
  /\ up => file \subseteq marks
  /\ ~up => \A c \in Scripts!Caller : caller[c].hand = None
  /\ \A a \in byConnect : a[2] \in file \cup unmarked
  /\ \A c \in {"run", "stream"} : caller[c].hand # None =>
       LET k == Scripts!Key(caller[c].hand)
       IN  k \in marks /\ k \in file \cup unmarked /\ ScriptOnce(k)
  /\ caller["run"].hand # None /\ caller["stream"].hand # None =>
       Scripts!Key(caller["run"].hand) # Scripts!Key(caller["stream"].hand)

\* A run that goes on keeps its policy from being started.
ScriptsApart ==
  /\ \A g \in runs : g.e.id \in running
  /\ \A g, h \in runs : g # h => g.e.id # h.e.id
  /\ \A a, b \in byConnect : a # b /\ a[2] = b[2] => a[2] \in unmarked

ScriptsInv ==
  /\ Scripts!TypeOK /\ ScriptPolicies /\ ScriptsBorn /\ ScriptsNumbered
  /\ ScriptsMarked /\ ScriptsApart /\ Scripts!ResultKept

-----------------------------------------------------------------------------
\* The invariant holds at the start.
LEMMA ScriptsInitInv == ASSUME Scripts!Init PROVE ScriptsInv
<1> USE ScriptsAssumption DEF Scripts!Init
<1>1. Scripts!TypeOK
  <2>1. Scripts!NoPolicy \in [state : {"none", "on", "off"}, trigger : Scripts!Trigger,
                              script : Script \cup {None}, at : 0..MaxPolicyEdits]
    BY DEF Scripts!NoPolicy, Scripts!Trigger
  <2>2. Scripts!Empty \in [left : SUBSET Scripts!Entry, hand : Scripts!Entry \cup {None}]
    BY DEF Scripts!Empty
  <2> QED
    <3>1. /\ answer \in {None} \cup [set : SUBSET Scripts!Entry,
                                    version : {None} \cup SUBSET Scripts!Entry]
          /\ version \in {None} \cup SUBSET Scripts!Entry /\ known \subseteq Scripts!Entry
          /\ caller \in [Scripts!Caller -> [left : SUBSET Scripts!Entry,
                                            hand : Scripts!Entry \cup {None}]]
      BY <2>2
    <3>2. /\ script \in [Script -> 0..MaxPolicyEdits] /\ edits \in 0..MaxPolicyEdits
          /\ policy \in [Policy -> [state : {"none", "on", "off"}, trigger : Scripts!Trigger,
                                    script : Script \cup {None}, at : 0..MaxPolicyEdits]]
          /\ started \in 0..MaxRuns /\ crashes \in 0..MaxCrashes
      BY <2>1
    <3>3. /\ member \in BOOLEAN /\ held \in BOOLEAN /\ up \in BOOLEAN
          /\ ready \in BOOLEAN /\ deferred \in BOOLEAN
      OBVIOUS
    <3> QED
      BY <3>1, <3>2, <3>3 DEF Scripts!TypeOK
<1>2. \A c \in Scripts!Caller : caller[c].left = {} /\ caller[c].hand = None
  BY DEF Scripts!Empty
<1>3. "run" \in Scripts!Caller /\ "stream" \in Scripts!Caller
  BY DEF Scripts!Caller
<1> QED
  BY <1>1, <1>2, <1>3 DEF ScriptsInv, ScriptPolicies, ScriptsBorn,
     ScriptsNumbered, ScriptsMarked, ScriptsApart, Scripts!ResultKept

\* What an operator does.
ScriptsOperator ==
  \/ Scripts!AddDeviceToGroup \/ Scripts!DeleteDeviceGroup \/ Scripts!Hold
  \/ \E s \in Script : Scripts!SaveScript(s) \/ Scripts!DeleteScript(s)
  \/ \E p \in Policy :
       \/ Scripts!ToggleScriptPolicy(p) \/ Scripts!DeleteScriptPolicy(p)
       \/ Scripts!AssignPolicyToGroup(p)
       \/ \E s \in Script, t \in Scripts!Trigger :
            Scripts!CreateScriptPolicy(p, s, t) \/ Scripts!UpdateScriptPolicy(p, s, t)

ScriptRows == [state : {"none", "on", "off"}, trigger : Scripts!Trigger,
               script : Script \cup {None}, at : 0..MaxPolicyEdits]
ScriptsServer ==
  /\ script \in [Script -> 0..MaxPolicyEdits] /\ edits \in 0..MaxPolicyEdits
  /\ policy \in [Policy -> ScriptRows]
  /\ assigned \subseteq Policy /\ member \in BOOLEAN /\ held \in BOOLEAN
  /\ deleted \subseteq Policy

(* An operator's change touches a policy at most, and takes it out of      *)
(* sight only when it is deleted, with the results of its runs.            *)
LEMMA ScriptsOperatorFrame ==
  ASSUME ScriptsServer, ScriptPolicies, ScriptsOperator
  PROVE  /\ UNCHANGED <<Scripts!inAgent, Scripts!onDisk, ended, unmarked, byConnect, unstored>>
         /\ ScriptsServer' /\ ScriptPolicies'
         /\ \A p \in Policy : ScriptBorn(p) => ScriptBorn(p)'
         /\ \/ UNCHANGED <<results, deleted>>
            \/ \E p \in Policy : /\ deleted' = deleted \cup {p}
                                 /\ results' = {n \in results : <<n, p>> \notin ended}
<1> USE ScriptsAssumption DEF ScriptsServer
<1>1. ASSUME Scripts!Edited PROVE edits' \in Scripts!Edit /\ edits' \in 0..MaxPolicyEdits
  BY <1>1 DEF Scripts!Edited, Scripts!Edit
<1>2. CASE Scripts!AddDeviceToGroup \/ Scripts!DeleteDeviceGroup \/ Scripts!Hold
  <2>1. /\ edits' \in 0..MaxPolicyEdits /\ assigned' \subseteq Policy
        /\ UNCHANGED <<script, policy, results, Scripts!inAgent, Scripts!onDisk, Scripts!past>>
    BY <1>1, <1>2 DEF Scripts!AddDeviceToGroup, Scripts!DeleteDeviceGroup,
       Scripts!Hold
  <2>2. member' \in BOOLEAN /\ held' \in BOOLEAN
    BY <1>2, ZenonT(20) DEF Scripts!AddDeviceToGroup,
       Scripts!DeleteDeviceGroup, Scripts!Hold
  <2> QED
    BY <2>1, <2>2 DEF Scripts!past, ScriptPolicies, ScriptBorn
<1>3. ASSUME NEW s \in Script, Scripts!SaveScript(s) \/ Scripts!DeleteScript(s)
      PROVE  /\ script' \in [Script -> 0..MaxPolicyEdits] /\ edits' \in 0..MaxPolicyEdits
             /\ UNCHANGED <<policy, assigned, member, held, results, Scripts!inAgent,
                            Scripts!onDisk, Scripts!past>>
  BY <1>1, <1>3 DEF Scripts!SaveScript, Scripts!DeleteScript
<1>4. ASSUME NEW p \in Policy, Scripts!AssignPolicyToGroup(p)
      PROVE  /\ assigned' \subseteq Policy /\ edits' \in 0..MaxPolicyEdits
             /\ UNCHANGED <<script, policy, member, held, results, Scripts!inAgent,
                            Scripts!onDisk, Scripts!past>>
  BY <1>1, <1>4 DEF Scripts!AssignPolicyToGroup
<1>5. ASSUME NEW p \in Policy,
             NEW row1 \in [state : {"on", "off"}, trigger : Scripts!Trigger, script : Script,
                           at : Scripts!Edit],
             policy' = [policy EXCEPT ![p] = row1]
      PROVE  /\ policy' \in [Policy -> ScriptRows]
             /\ ScriptPolicies'
             /\ \A q \in Policy : policy[q] # Scripts!NoPolicy => policy'[q] # Scripts!NoPolicy
  <2>1. row1 # Scripts!NoPolicy /\ row1 \in ScriptRows
    BY DEF Scripts!NoPolicy, ScriptRows, Scripts!Edit
  <2> QED
    BY <1>5, <2>1 DEF ScriptPolicies
<1>6. ASSUME NEW p \in Policy,
             \/ Scripts!ToggleScriptPolicy(p)
             \/ \E s \in Script, t \in Scripts!Trigger :
                  Scripts!CreateScriptPolicy(p, s, t) \/ Scripts!UpdateScriptPolicy(p, s, t)
      PROVE  /\ policy' \in [Policy -> ScriptRows] /\ edits' \in 0..MaxPolicyEdits
             /\ ScriptPolicies'
             /\ \A q \in Policy : policy[q] # Scripts!NoPolicy => policy'[q] # Scripts!NoPolicy
             /\ UNCHANGED <<script, assigned, member, held, results, Scripts!inAgent,
                            Scripts!onDisk, Scripts!past>>
  <2>0. policy[p] \in ScriptRows /\ Scripts!Edited
    BY <1>6 DEF Scripts!ToggleScriptPolicy, Scripts!CreateScriptPolicy,
       Scripts!UpdateScriptPolicy
  <2>1. CASE Scripts!ToggleScriptPolicy(p)
    <3> DEFINE row1 == [policy[p] EXCEPT !.state = IF policy[p].state = "on" THEN "off" ELSE "on"]
    <3>1. row1 \in [state : {"on", "off"}, trigger : Scripts!Trigger, script : Script,
                    at : Scripts!Edit]
      BY <2>0, <2>1 DEF Scripts!ToggleScriptPolicy, ScriptPolicies, ScriptRows
    <3>2. policy' = [policy EXCEPT ![p] = row1]
      BY <2>1 DEF Scripts!ToggleScriptPolicy
    <3> QED
      BY <1>1, <1>5, <2>0, <2>1, <3>1, <3>2 DEF Scripts!ToggleScriptPolicy
  <2>2. ASSUME NEW s \in Script, NEW t \in Scripts!Trigger, Scripts!CreateScriptPolicy(p, s, t)
        PROVE  /\ ScriptPolicies' /\ policy' \in [Policy -> ScriptRows]
               /\ \A q \in Policy : policy[q] # Scripts!NoPolicy => policy'[q] # Scripts!NoPolicy
    <3>1. [state |-> "on", trigger |-> t, script |-> s, at |-> edits'] \in
            [state : {"on", "off"}, trigger : Scripts!Trigger, script : Script, at : Scripts!Edit]
      BY <1>1, <2>0
    <3> QED
      BY <1>1, <1>5, <2>0, <2>2, <3>1 DEF Scripts!CreateScriptPolicy
  <2>3. ASSUME NEW s \in Script, NEW t \in Scripts!Trigger, Scripts!UpdateScriptPolicy(p, s, t)
        PROVE  /\ ScriptPolicies' /\ policy' \in [Policy -> ScriptRows]
               /\ \A q \in Policy : policy[q] # Scripts!NoPolicy => policy'[q] # Scripts!NoPolicy
    <3> DEFINE row1 == [policy[p] EXCEPT !.trigger = t, !.script = s]
    <3>1. row1 \in [state : {"on", "off"}, trigger : Scripts!Trigger, script : Script,
                    at : Scripts!Edit]
      BY <2>0, <2>3 DEF Scripts!UpdateScriptPolicy, ScriptPolicies, ScriptRows
    <3>2. policy' = [policy EXCEPT ![p] = row1]
      BY <2>0, <2>3 DEF Scripts!UpdateScriptPolicy, ScriptRows
    <3> QED
      BY <1>1, <1>5, <2>0, <2>3, <3>1, <3>2 DEF Scripts!UpdateScriptPolicy
  <2> QED
    BY <1>1, <1>6, <2>0, <2>1, <2>2, <2>3 DEF Scripts!ToggleScriptPolicy,
       Scripts!CreateScriptPolicy, Scripts!UpdateScriptPolicy
<1>7. ASSUME NEW p \in Policy, Scripts!DeleteScriptPolicy(p)
      PROVE  /\ ScriptsServer' /\ ScriptPolicies' /\ deleted' = deleted \cup {p}
             /\ results' = {n \in results : <<n, p>> \notin ended}
             /\ \A q \in Policy : ScriptBorn(q) => ScriptBorn(q)'
             /\ UNCHANGED <<Scripts!inAgent, Scripts!onDisk, ended, unmarked, byConnect, unstored>>
  <2>1. Scripts!NoPolicy \in ScriptRows
    BY DEF Scripts!NoPolicy, ScriptRows, Scripts!Trigger
  <2> QED
    BY <1>1, <1>7, <2>1 DEF Scripts!DeleteScriptPolicy, ScriptPolicies,
       ScriptBorn
<1>8. ASSUME UNCHANGED <<policy, results, Scripts!past>>
      PROVE  /\ ScriptPolicies' /\ \A p \in Policy : ScriptBorn(p) => ScriptBorn(p)'
             /\ UNCHANGED <<results, deleted, ended, unmarked, byConnect, unstored>>
  BY <1>8 DEF Scripts!past, ScriptBorn, ScriptPolicies
<1> QED
    BY <1>2, <1>3, <1>4, <1>6, <1>7, <1>8 DEF ScriptsOperator, Scripts!past,
       ScriptBorn, ScriptPolicies
-----------------------------------------------------------------------------
\* The rest of the types: the agent's, the disk's and the history's.
ScriptHands == [left : SUBSET Scripts!Entry, hand : Scripts!Entry \cup {None}]
ScriptKeys  == Policy \X (0..MaxPolicyEdits)
ScriptsAgent ==
  /\ up \in BOOLEAN /\ ready \in BOOLEAN /\ deferred \in BOOLEAN
  /\ answer \in {None} \cup [set : SUBSET Scripts!Entry,
                             version : {None} \cup SUBSET Scripts!Entry]
  /\ version \in {None} \cup SUBSET Scripts!Entry /\ known \subseteq Scripts!Entry
  /\ caller \in [Scripts!Caller -> ScriptHands]
  /\ marks \subseteq ScriptKeys /\ file \subseteq ScriptKeys /\ unmarked \subseteq ScriptKeys
ScriptsRunning ==
  /\ running \subseteq Policy /\ started \in 0..MaxRuns /\ crashes \in 0..MaxCrashes
  /\ \A g \in runs : g.n \in Scripts!Run /\ g.e \in Scripts!Entry
  /\ queue \subseteq Scripts!Run \X Policy /\ ended \subseteq Scripts!Run \X Policy
  /\ byConnect \subseteq Scripts!Run \X ScriptKeys /\ results \subseteq Scripts!Run
  /\ unstored \subseteq Scripts!Run

\* The type invariant, in the groups the steps are taken in.
LEMMA ScriptsTypesAre == Scripts!TypeOK <=> ScriptsServer /\ ScriptsAgent /\ ScriptsRunning
  BY DEF Scripts!TypeOK, ScriptsServer, ScriptsAgent, ScriptsRunning,
     ScriptRows, ScriptHands, ScriptKeys

\* The key of an entry under which its runs are counted.
LEMMA ScriptKeyType == ASSUME NEW e \in Scripts!Entry PROVE Scripts!Key(e) \in ScriptKeys
<1>1. e.id \in Policy /\ e.at \in 1..MaxPolicyEdits
  BY DEF Scripts!Entry, Scripts!Edit
<1>2. e.at \div 2 \in 0..MaxPolicyEdits
  BY <1>1, ScriptsAssumption
<1> QED
  BY <1>1, <1>2 DEF Scripts!Key, Scripts!Second, ScriptKeys

\* What a device is told are entries of policies that are there.
LEMMA ScriptsEffective ==
  ASSUME ScriptsServer, ScriptPolicies
  PROVE  Scripts!Effective \subseteq Scripts!Entry /\ \A e \in Scripts!Effective : ScriptBorn(e.id)
<1> SUFFICES ASSUME NEW p \in assigned, policy[p].state = "on"
             PROVE  /\ policy[p].trigger \in Scripts!Trigger /\ policy[p].script \in Script
                    /\ Scripts!Later(policy[p].at, script[policy[p].script]) \in Scripts!Edit
                    /\ ScriptBorn(p)
  BY DEF Scripts!Effective, Scripts!Entry, ScriptsServer
<1>1. policy[p] # Scripts!NoPolicy /\ p \in Policy /\ policy[p] \in ScriptRows
  BY DEF Scripts!NoPolicy, ScriptsServer
<1>2. policy[p].script \in Script /\ policy[p].at \in Scripts!Edit
  BY <1>1 DEF ScriptPolicies
<1>3. script[policy[p].script] \in 0..MaxPolicyEdits
  BY <1>2 DEF ScriptsServer
<1> QED
  BY <1>1, <1>2, <1>3, ScriptsAssumption DEF ScriptRows, Scripts!Later,
     Scripts!Edit, ScriptBorn

\* What the agent holds keeps its type.
LEMMA ScriptsAgentStep ==
  ASSUME ScriptsServer, ScriptPolicies, ScriptsAgent, Scripts!Next
  PROVE  ScriptsAgent'
<1> USE DEF ScriptsAgent, ScriptHands
<1>1. CASE ScriptsOperator
  BY <1>1, ScriptsOperatorFrame DEF Scripts!inAgent, Scripts!onDisk
<1>2. CASE Scripts!FetchScriptPolicies
  BY <1>2, ScriptsEffective DEF Scripts!FetchScriptPolicies, Scripts!onDisk,
     Scripts!past
<1>3. ASSUME NEW b \in BOOLEAN, Scripts!Poll(b) PROVE ScriptsAgent'
  <2>1. answer \in [set : SUBSET Scripts!Entry, version : {None} \cup SUBSET Scripts!Entry]
    BY <1>3 DEF Scripts!Poll
  <2>2. known' \subseteq Scripts!Entry /\ version' \in {None} \cup SUBSET Scripts!Entry
    BY <1>3, <2>1 DEF Scripts!Poll, Scripts!Apply
  <2>3. deferred' \in BOOLEAN /\ ready' = TRUE /\ answer' = None
    BY <1>3 DEF Scripts!Poll
  <2>4. caller' \in [Scripts!Caller -> ScriptHands]
    BY <1>3, <2>2 DEF Scripts!Poll
  <2> QED
    BY <1>3, <2>2, <2>3, <2>4 DEF Scripts!Poll, Scripts!onDisk, Scripts!past
<1>4. CASE Scripts!OnConnect \/ Scripts!OnEvent
  <2>1. caller' \in [Scripts!Caller -> ScriptHands] /\ deferred' \in BOOLEAN
    <3>1. ASSUME NEW c \in Scripts!Caller, NEW tr, Scripts!Snapshot(c, tr)
          PROVE  caller' \in [Scripts!Caller -> ScriptHands]
      BY <3>1 DEF Scripts!Snapshot
    <3>2. "stream" \in Scripts!Caller /\ "watcher" \in Scripts!Caller
      BY DEF Scripts!Caller
    <3> QED
      BY <1>4, <3>1, <3>2 DEF Scripts!OnConnect, Scripts!OnEvent
  <2> QED
    BY <1>4, <2>1 DEF Scripts!OnConnect, Scripts!OnEvent, Scripts!onDisk,
       Scripts!past
<1>5. ASSUME NEW e \in known, Scripts!Fire(e) PROVE ScriptsAgent'
  BY <1>5 DEF Scripts!Fire, Scripts!onDisk, Scripts!past
<1>6. ASSUME NEW c \in Scripts!Caller, NEW e \in caller[c].left, NEW b \in BOOLEAN,
             Scripts!Take(c, e, b)
      PROVE  ScriptsAgent'
  <2>1. e \in Scripts!Entry /\ caller[c].left \in SUBSET Scripts!Entry /\ caller[c] \in ScriptHands
    OBVIOUS
  <2>2. caller' \in [Scripts!Caller -> ScriptHands]
    <3>1. \/ caller' = [caller EXCEPT ![c] = [left |-> caller[c].left \ {e}, hand |-> e]]
          \/ caller' = [caller EXCEPT ![c].left = caller[c].left \ {e}]
      BY <1>6 DEF Scripts!Take
    <3> QED
      BY <2>1, <3>1
  <2>3. marks' \subseteq ScriptKeys /\ file' \subseteq ScriptKeys /\ unmarked' \subseteq ScriptKeys
    BY <1>6, <2>1, ScriptKeyType DEF Scripts!Take, Scripts!MarkIfNew
  <2> QED
    BY <1>6, <2>2, <2>3 DEF Scripts!Take
<1>7. ASSUME NEW c \in Scripts!Caller, Scripts!Launch(c) PROVE ScriptsAgent'
  BY <1>7 DEF Scripts!Launch
<1>8. ASSUME NEW g \in runs, NEW b \in BOOLEAN, Scripts!Finish(g, b) PROVE ScriptsAgent'
  BY <1>8 DEF Scripts!Finish
<1>9. ASSUME NEW q \in queue, NEW b \in BOOLEAN,
             Scripts!ReportFails(q) \/ Scripts!ReportScriptResult(q, b)
      PROVE  ScriptsAgent'
  BY <1>9 DEF Scripts!ReportFails, Scripts!ReportScriptResult, Scripts!vars,
     Scripts!inAgent, Scripts!onDisk, Scripts!past
<1>10. CASE Scripts!Crash
  BY <1>10 DEF Scripts!Crash, Scripts!Empty, Scripts!past
<1>11. CASE Scripts!Start
  BY <1>11 DEF Scripts!Start, Scripts!onDisk, Scripts!past
<1> QED
  BY <1>1, <1>2, <1>3, <1>4, <1>5, <1>6, <1>7, <1>8, <1>9, <1>10, <1>11
     DEF Scripts!Next, ScriptsOperator

\* The two places a run is started from keep their type.
LEMMA ScriptsRunningStep ==
  ASSUME ScriptsServer, ScriptPolicies, ScriptsAgent, ScriptsRunning, Scripts!Next
  PROVE  ScriptsRunning'
<1> USE DEF ScriptsRunning
<1>1. CASE ScriptsOperator
  BY <1>1, ScriptsOperatorFrame DEF Scripts!inAgent, Scripts!onDisk
<1>2. CASE \/ Scripts!FetchScriptPolicies \/ Scripts!OnConnect \/ Scripts!OnEvent \/ Scripts!Start
           \/ \E b \in BOOLEAN : Scripts!Poll(b)
           \/ \E e \in known : Scripts!Fire(e)
           \/ \E q \in queue : Scripts!ReportFails(q)
           \/ \E c \in Scripts!Caller : \E e \in caller[c].left, b \in BOOLEAN : Scripts!Take(c, e, b)
  BY <1>2 DEF Scripts!FetchScriptPolicies, Scripts!OnConnect, Scripts!OnEvent,
     Scripts!Start, Scripts!Poll, Scripts!Fire, Scripts!ReportFails,
     Scripts!Take, Scripts!vars, Scripts!server, Scripts!inAgent,
     Scripts!onDisk, Scripts!past
<1>3. ASSUME NEW c \in Scripts!Caller, Scripts!Launch(c) PROVE ScriptsRunning'
  <2>1. caller[c].hand \in Scripts!Entry
    BY <1>3 DEF Scripts!Launch, ScriptsAgent, ScriptHands
  <2>2. CASE caller[c].hand.id \in running
    BY <1>3, <2>2 DEF Scripts!Launch, Scripts!server
  <2>3. CASE caller[c].hand.id \notin running
    <3> DEFINE e == caller[c].hand
    <3>1. /\ e.id \in Policy /\ running' = running \cup {e.id}
          /\ started' = started + 1 /\ started' \in Scripts!Run /\ started' \in 0..MaxRuns
          /\ runs' = runs \cup {[n |-> started', e |-> e]}
          /\ byConnect' \subseteq byConnect \cup {<<started', Scripts!Key(e)>>}
          /\ UNCHANGED <<results, queue, ended, crashes, unstored>>
      BY <1>3, <2>1, <2>3, ScriptsAssumption DEF Scripts!Launch,
         Scripts!server, Scripts!Run, Scripts!Entry
    <3>2. Scripts!Key(e) \in ScriptKeys
      BY <2>1, ScriptKeyType
    <3> QED
      BY <2>1, <3>1, <3>2
  <2> QED
    BY <2>2, <2>3
<1>4. ASSUME NEW g \in runs, NEW b \in BOOLEAN, Scripts!Finish(g, b) PROVE ScriptsRunning'
  <2>1. <<g.n, g.e.id>> \in Scripts!Run \X Policy
    BY DEF Scripts!Entry
  <2> QED
    BY <1>4, <2>1 DEF Scripts!Finish, Scripts!server
<1>5. ASSUME NEW q \in queue, NEW b \in BOOLEAN, Scripts!ReportScriptResult(q, b)
      PROVE  ScriptsRunning'
  BY <1>5 DEF Scripts!ReportScriptResult, Scripts!SaveScriptResult,
     Scripts!inAgent, Scripts!past
<1>6. CASE Scripts!Crash
  BY <1>6, ScriptsAssumption DEF Scripts!Crash, Scripts!server, Scripts!past
<1> QED
  BY <1>1, <1>2, <1>3, <1>4, <1>5, <1>6 DEF Scripts!Next, ScriptsOperator
-----------------------------------------------------------------------------
(* What the agent holds was created, over the agent's steps.               *)
LEMMA ScriptsBornStep ==
  ASSUME ScriptsServer, ScriptPolicies, ScriptsAgent, ScriptsRunning, ScriptsBorn, Scripts!Next
  PROVE  ScriptsBorn'
<1> USE DEF ScriptsBorn
<1>1. CASE ScriptsOperator
  <2>1. \A e \in Scripts!Entry : ScriptBorn(e.id) => ScriptBorn(e.id)'
    BY <1>1, ScriptsOperatorFrame DEF Scripts!Entry
  <2>2. \A p \in Policy : ScriptBorn(p) => ScriptBorn(p)'
    BY <1>1, ScriptsOperatorFrame
  <2>3. UNCHANGED <<answer, known, caller, runs, ended>>
    BY <1>1, ScriptsOperatorFrame DEF Scripts!inAgent
  <2>4. /\ answer # None => answer.set \subseteq Scripts!Entry
        /\ known \subseteq Scripts!Entry
        /\ \A c \in Scripts!Caller : /\ caller[c].left \subseteq Scripts!Entry
                                     /\ caller[c].hand # None => caller[c].hand \in Scripts!Entry
        /\ \A g \in runs : g.e \in Scripts!Entry
        /\ \A r \in ended : r[2] \in Policy
    BY DEF ScriptsAgent, ScriptsRunning, ScriptHands
  <2> QED
    BY <2>1, <2>2, <2>3, <2>4
<1>2. ASSUME UNCHANGED Scripts!server, UNCHANGED deleted
      PROVE  \A p : ScriptBorn(p)' <=> ScriptBorn(p)
  BY <1>2 DEF Scripts!server, ScriptBorn
<1>3. CASE Scripts!FetchScriptPolicies
  <2>1. \A e \in answer'.set : ScriptBorn(e.id)
    BY <1>3, ScriptsEffective DEF Scripts!FetchScriptPolicies
  <2> QED
    BY <1>2, <1>3, <2>1 DEF Scripts!FetchScriptPolicies, Scripts!onDisk,
       Scripts!past
<1>4. ASSUME NEW b \in BOOLEAN, Scripts!Poll(b) PROVE ScriptsBorn'
  <2>1. answer # None /\ answer' = None /\ \A e \in known' : ScriptBorn(e.id)
    BY <1>4 DEF Scripts!Poll, Scripts!Apply
  <2>2. \A c \in Scripts!Caller : /\ caller'[c].hand = caller[c].hand
                                  /\ \A e \in caller'[c].left : ScriptBorn(e.id)
    BY <1>4, <2>1 DEF Scripts!Poll, ScriptsAgent, ScriptHands
  <2> QED
    BY <1>2, <1>4, <2>1, <2>2 DEF Scripts!Poll, Scripts!onDisk, Scripts!past
<1>5. CASE Scripts!OnConnect \/ Scripts!OnEvent
  <2>1. \A c \in Scripts!Caller : /\ caller'[c].hand = caller[c].hand
                                  /\ \A e \in caller'[c].left : ScriptBorn(e.id)
    BY <1>5 DEF Scripts!OnConnect, Scripts!OnEvent, Scripts!Snapshot,
       ScriptsAgent, ScriptHands
  <2> QED
    BY <1>2, <1>5, <2>1 DEF Scripts!OnConnect, Scripts!OnEvent, Scripts!onDisk,
       Scripts!past
<1>6. ASSUME NEW e \in known, Scripts!Fire(e) PROVE ScriptsBorn'
  <2>1. \A c \in Scripts!Caller : /\ caller'[c].hand \in {caller[c].hand, e}
                                  /\ caller'[c].left = caller[c].left
    BY <1>6 DEF Scripts!Fire, ScriptsAgent, ScriptHands
  <2> QED
    BY <1>2, <1>6, <2>1 DEF Scripts!Fire, Scripts!onDisk, Scripts!past
<1>7. ASSUME NEW c \in Scripts!Caller, NEW e \in caller[c].left, NEW b \in BOOLEAN,
             Scripts!Take(c, e, b)
      PROVE  ScriptsBorn'
  <2>1. \A d \in Scripts!Caller :
          /\ caller'[d].left \subseteq caller[d].left
          /\ caller'[d].hand # caller[d].hand => d = c /\ caller'[d].hand = e
    BY <1>7 DEF Scripts!Take, ScriptsAgent, ScriptHands
  <2> QED
    BY <1>2, <1>7, <2>1 DEF Scripts!Take
<1>8. ASSUME NEW c \in Scripts!Caller, Scripts!Launch(c) PROVE ScriptsBorn'
  <2>1. \A d \in Scripts!Caller : /\ caller'[d].left = caller[d].left
                                  /\ caller'[d].hand \in {caller[d].hand, None}
    BY <1>8 DEF Scripts!Launch, ScriptsAgent, ScriptHands
  <2>2. \A g \in runs' \ runs : g.e = caller[c].hand /\ caller[c].hand # None
    BY <1>8 DEF Scripts!Launch
  <2> QED
    BY <1>2, <1>8, <2>1, <2>2 DEF Scripts!Launch
<1>9. ASSUME NEW g \in runs, NEW b \in BOOLEAN, Scripts!Finish(g, b) PROVE ScriptsBorn'
  BY <1>2, <1>9 DEF Scripts!Finish
<1>10. ASSUME NEW q \in queue, NEW b \in BOOLEAN,
              Scripts!ReportFails(q) \/ Scripts!ReportScriptResult(q, b)
       PROVE  ScriptsBorn'
  BY <1>10 DEF Scripts!ReportFails, Scripts!ReportScriptResult, Scripts!vars,
     Scripts!server, Scripts!inAgent, Scripts!onDisk, Scripts!past, ScriptBorn
<1>11. CASE Scripts!Crash
  <2>1. \A c \in Scripts!Caller : caller'[c].left = {} /\ caller'[c].hand = None
    BY <1>11 DEF Scripts!Crash, Scripts!Empty
  <2> QED
    BY <1>2, <1>11, <2>1 DEF Scripts!Crash, Scripts!past
<1>12. CASE Scripts!Start
  BY <1>2, <1>12 DEF Scripts!Start, Scripts!onDisk, Scripts!past
<1> QED
  BY <1>1, <1>3, <1>4, <1>5, <1>6, <1>7, <1>8, <1>9, <1>10, <1>11, <1>12
     DEF Scripts!Next, ScriptsOperator

-----------------------------------------------------------------------------
(* The steps that neither start a run nor end one.                         *)
LEMMA ScriptsOtherSteps ==
  ASSUME Scripts!Next, ScriptsServer, ScriptPolicies
  PROVE  \/ \E c \in Scripts!Caller : Scripts!Launch(c)
         \/ \E g \in runs, b \in BOOLEAN : Scripts!Finish(g, b)
         \/ \E q \in queue, b \in BOOLEAN : Scripts!ReportScriptResult(q, b)
         \/ Scripts!Crash
         \/ ScriptsOperator
         \/ UNCHANGED <<Scripts!server, running, runs, started, queue, ended, byConnect, deleted,
                        unstored>>
  BY DEF Scripts!Next, ScriptsOperator, Scripts!FetchScriptPolicies,
     Scripts!OnConnect, Scripts!OnEvent, Scripts!Start, Scripts!Poll,
     Scripts!Fire, Scripts!ReportFails, Scripts!Take, Scripts!vars,
     Scripts!server, Scripts!inAgent, Scripts!onDisk, Scripts!past

\* Results, marks and runs keep their bounds.
LEMMA ScriptsNumberedStep ==
  ASSUME ScriptsServer, ScriptPolicies, ScriptsRunning, ScriptsNumbered, Scripts!Next
  PROVE  ScriptsNumbered'
<1> USE DEF ScriptsNumbered
<1>1. ASSUME NEW c \in Scripts!Caller, Scripts!Launch(c) PROVE ScriptsNumbered'
  <2>1. /\ UNCHANGED <<ended, queue>>
        /\ \/ UNCHANGED <<runs, started>>
           \/ /\ started' = started + 1
              /\ runs' = runs \cup {[n |-> started', e |-> caller[c].hand]}
    BY <1>1 DEF Scripts!Launch
  <2>2. started \in Int /\ \A g \in runs : g.n \in Int /\ \A r \in ended : r[1] \in Int
    BY DEF ScriptsRunning, Scripts!Run
  <2>3. \A r \in ended : r[1] \in Int
    BY DEF ScriptsRunning, Scripts!Run
  <2> QED
    BY <2>1, <2>2, <2>3
<1>2. ASSUME NEW g \in runs, NEW b \in BOOLEAN, Scripts!Finish(g, b) PROVE ScriptsNumbered'
  BY <1>2 DEF Scripts!Finish
<1>3. ASSUME NEW q \in queue, NEW b \in BOOLEAN, Scripts!ReportScriptResult(q, b)
      PROVE  ScriptsNumbered'
  BY <1>3 DEF Scripts!ReportScriptResult, Scripts!inAgent, Scripts!past
<1>4. CASE Scripts!Crash
  BY <1>4 DEF Scripts!Crash, Scripts!past
<1>5. CASE ScriptsOperator
  BY <1>5, ScriptsOperatorFrame DEF Scripts!inAgent, Scripts!onDisk
<1> QED
  BY <1>1, <1>2, <1>3, <1>4, <1>5, ScriptsOtherSteps

(* A result goes from the queue to the server, or is acknowledged over a   *)
(* failed COMMIT; from the server it goes with its policy only.            *)
LEMMA ScriptsKeptStep ==
  ASSUME ScriptsServer, ScriptPolicies, ScriptsRunning, ScriptsNumbered, ScriptsBorn,
         Scripts!ResultKept, Scripts!Next
  PROVE  Scripts!ResultKept'
<1> USE DEF Scripts!ResultKept
<1>1. ASSUME NEW c \in Scripts!Caller, Scripts!Launch(c) PROVE Scripts!ResultKept'
  BY <1>1 DEF Scripts!Launch, Scripts!server
<1>2. ASSUME NEW g \in runs, NEW b \in BOOLEAN, Scripts!Finish(g, b) PROVE Scripts!ResultKept'
  BY <1>2 DEF Scripts!Finish, Scripts!server
<1>3. ASSUME NEW q \in queue, NEW b \in BOOLEAN, Scripts!ReportScriptResult(q, b)
      PROVE  Scripts!ResultKept'
  <2>1. q[1] \in results' \cup unstored' \/ q[2] \in deleted
    BY <1>3 DEF Scripts!ReportScriptResult, Scripts!SaveScriptResult,
       ScriptsBorn, ScriptBorn, ScriptsNumbered
  <2> QED
    BY <1>3, <2>1 DEF Scripts!ReportScriptResult, Scripts!SaveScriptResult,
       Scripts!past
<1>4. CASE Scripts!Crash
  BY <1>4 DEF Scripts!Crash, Scripts!server, Scripts!past
<1>5. CASE ScriptsOperator
  <2>1. UNCHANGED <<ended, queue, unstored>>
    BY <1>5, ScriptsOperatorFrame DEF Scripts!onDisk
  <2>2. CASE UNCHANGED <<results, deleted>>
    BY <2>1, <2>2
  <2>3. ASSUME NEW p \in Policy, deleted' = deleted \cup {p},
               results' = {n \in results : <<n, p>> \notin ended}
        PROVE  Scripts!ResultKept'
    <3>1. ASSUME NEW r \in ended, r[1] \in results, r[1] \notin results' PROVE r[2] = p
      <4>1. <<r[1], p>> \in ended
        BY <2>3, <3>1
      <4>2. r = <<r[1], p>>
        BY <4>1 DEF ScriptsNumbered
      <4> QED
        BY <4>2
    <3> QED
      BY <2>1, <2>3, <3>1
  <2> QED
    BY <1>5, <2>2, <2>3, ScriptsOperatorFrame
<1> QED
  BY <1>1, <1>2, <1>3, <1>4, <1>5, ScriptsOtherSteps DEF Scripts!server
-----------------------------------------------------------------------------
(* The marks change when an entry is taken and when the process dies or    *)
(* starts.                                                                 *)
LEMMA ScriptsMarkedStep ==
  ASSUME ScriptsServer, ScriptPolicies, ScriptsAgent, ScriptsMarked, Scripts!Next
  PROVE  ScriptsMarked'
<1> USE DEF ScriptsMarked, ScriptOnce
<1>0. "run" \in Scripts!Caller /\ "stream" \in Scripts!Caller /\ "cron" \in Scripts!Caller
  BY DEF Scripts!Caller
<1>1. ASSUME UNCHANGED <<up, file, marks, byConnect, unmarked>>,
             \A c \in {"run", "stream"} : caller'[c].hand \in {caller[c].hand, None},
             \A c \in Scripts!Caller : ~up => caller'[c].hand = caller[c].hand
      PROVE  ScriptsMarked'
  BY <1>0, <1>1
<1>2. CASE ScriptsOperator
  BY <1>1, <1>2, ScriptsOperatorFrame DEF Scripts!inAgent, Scripts!onDisk
<1>3. CASE Scripts!FetchScriptPolicies
  BY <1>1, <1>3 DEF Scripts!FetchScriptPolicies, Scripts!onDisk, Scripts!past
<1>4. ASSUME NEW b \in BOOLEAN, Scripts!Poll(b) PROVE ScriptsMarked'
  <2>1. \A c \in Scripts!Caller : caller'[c].hand = caller[c].hand
    BY <1>4 DEF Scripts!Poll, ScriptsAgent, ScriptHands
  <2> QED
    BY <1>0, <1>1, <1>4, <2>1 DEF Scripts!Poll, Scripts!onDisk, Scripts!past
<1>5. CASE Scripts!OnConnect \/ Scripts!OnEvent
  <2>1. \A c \in Scripts!Caller : caller'[c].hand = caller[c].hand
    BY <1>5 DEF Scripts!OnConnect, Scripts!OnEvent, Scripts!Snapshot,
       ScriptsAgent, ScriptHands
  <2> QED
    BY <1>0, <1>1, <1>5, <2>1 DEF Scripts!OnConnect, Scripts!OnEvent,
       Scripts!onDisk, Scripts!past
<1>6. ASSUME NEW e \in known, Scripts!Fire(e) PROVE ScriptsMarked'
  <2>1. \A c \in Scripts!Caller : c # "cron" => caller'[c].hand = caller[c].hand
    BY <1>6 DEF Scripts!Fire, ScriptsAgent, ScriptHands
  <2> QED
    BY <1>0, <1>1, <1>6, <2>1 DEF Scripts!Fire, Scripts!onDisk, Scripts!past
<1>7. ASSUME NEW c \in Scripts!Caller, NEW e \in caller[c].left, NEW b \in BOOLEAN,
             Scripts!Take(c, e, b)
      PROVE  ScriptsMarked'
  <2>0. up /\ up' = up /\ caller[c].hand = None /\ e \in Scripts!Entry /\ UNCHANGED byConnect
    BY <1>7 DEF Scripts!Take, ScriptsAgent, ScriptHands
  <2>1. \A d \in Scripts!Caller \ {c} : caller'[d].hand = caller[d].hand
    BY <1>7 DEF Scripts!Take, ScriptsAgent, ScriptHands
  <2>2. CASE UNCHANGED <<marks, file, unmarked>> /\ (c \in {"cron", "watcher"} \/ caller'[c].hand = None)
    BY <1>0, <1>1, <2>0, <2>1, <2>2
  <2>3. CASE Scripts!Key(e) \notin marks /\ caller'[c].hand = e /\ Scripts!MarkIfNew(e, b)
    <3> DEFINE k == Scripts!Key(e)
    <3>1. /\ marks' = marks \cup {k} /\ k \in file' \cup unmarked' /\ file' \subseteq file \cup {k}
          /\ file \subseteq file' /\ unmarked \subseteq unmarked'
      BY <2>3 DEF Scripts!MarkIfNew
    <3>2. \A a \in byConnect : a[2] = k => k \in unmarked
      BY <2>0, <2>3
    <3>3. \A d \in {"run", "stream"} \ {c} :
            caller[d].hand # None => Scripts!Key(caller[d].hand) # k
      BY <2>3
    <3> QED
      BY <1>0, <2>0, <2>1, <2>3, <3>1, <3>2, <3>3
  <2> QED
    BY <1>7, <2>0, <2>2, <2>3 DEF Scripts!Take, ScriptsAgent, ScriptHands
<1>8. ASSUME NEW c \in Scripts!Caller, Scripts!Launch(c) PROVE ScriptsMarked'
  <2>1. /\ \A d \in Scripts!Caller \ {c} : caller'[d].hand = caller[d].hand
        /\ caller'[c].hand = None /\ caller[c].hand # None
    BY <1>8 DEF Scripts!Launch, ScriptsAgent, ScriptHands
  <2>2. /\ UNCHANGED <<up, file, marks, unmarked>> /\ up
        /\ \/ UNCHANGED byConnect
           \/ c \in {"run", "stream"} /\ byConnect' =
                byConnect \cup {<<started', Scripts!Key(caller[c].hand)>>}
    BY <1>8 DEF Scripts!Launch
  <2> QED
    BY <1>0, <2>1, <2>2
<1>9. ASSUME NEW g \in runs, NEW b \in BOOLEAN, Scripts!Finish(g, b) PROVE ScriptsMarked'
  BY <1>1, <1>9 DEF Scripts!Finish
<1>10. ASSUME NEW q \in queue, NEW b \in BOOLEAN,
              Scripts!ReportFails(q) \/ Scripts!ReportScriptResult(q, b)
       PROVE  ScriptsMarked'
  BY <1>1, <1>10 DEF Scripts!ReportFails, Scripts!ReportScriptResult,
     Scripts!vars, Scripts!inAgent, Scripts!onDisk, Scripts!past
<1>11. CASE Scripts!Crash
  <2>1. \A c \in Scripts!Caller : caller'[c].hand = None
    BY <1>11 DEF Scripts!Crash, Scripts!Empty
  <2> QED
    BY <1>0, <1>11, <2>1 DEF Scripts!Crash, Scripts!past
<1>12. CASE Scripts!Start
  BY <1>0, <1>12 DEF Scripts!Start, Scripts!onDisk, Scripts!past
<1> QED
  BY <1>2, <1>3, <1>4, <1>5, <1>6, <1>7, <1>8, <1>9, <1>10, <1>11, <1>12
     DEF Scripts!Next, ScriptsOperator

\* A policy is run in one place at a time.
LEMMA ScriptsApartStep ==
  ASSUME ScriptsServer, ScriptPolicies, ScriptsNumbered, ScriptsMarked, ScriptsApart,
         Scripts!Next
  PROVE  ScriptsApart'
<1> USE DEF ScriptsApart
<1>1. ASSUME NEW c \in Scripts!Caller, Scripts!Launch(c) PROVE ScriptsApart'
  <2>1. CASE UNCHANGED <<running, runs, byConnect>>
    BY <1>1, <2>1 DEF Scripts!Launch
  <2>2. CASE /\ caller[c].hand.id \notin running /\ running' = running \cup {caller[c].hand.id}
             /\ runs' = runs \cup {[n |-> started', e |-> caller[c].hand]}
    <3>1. \A g, h \in runs' : g # h => g.e.id # h.e.id
      BY <2>2
    <3>2. \A a, b \in byConnect' : a # b /\ a[2] = b[2] => a[2] \in unmarked
      BY <1>1 DEF Scripts!Launch, ScriptsMarked, ScriptOnce
    <3> QED
      BY <1>1, <2>2, <3>1, <3>2 DEF Scripts!Launch
  <2> QED
    BY <1>1, <2>1, <2>2 DEF Scripts!Launch
<1>2. ASSUME NEW g \in runs, NEW b \in BOOLEAN, Scripts!Finish(g, b) PROVE ScriptsApart'
  BY <1>2 DEF Scripts!Finish
<1>3. ASSUME UNCHANGED byConnect, unmarked \subseteq unmarked',
             runs' = {} \/ UNCHANGED <<running, runs>>
      PROVE  ScriptsApart'
  BY <1>3
<1>4. unmarked \subseteq unmarked' \/ ScriptsOperator
  BY DEF Scripts!Next, ScriptsOperator, Scripts!FetchScriptPolicies,
     Scripts!OnConnect, Scripts!OnEvent, Scripts!Start, Scripts!Crash,
     Scripts!Poll, Scripts!Fire, Scripts!ReportFails,
     Scripts!ReportScriptResult, Scripts!Take, Scripts!MarkIfNew,
     Scripts!Launch, Scripts!Finish, Scripts!vars, Scripts!past
<1>5. ASSUME NEW q \in queue, NEW b \in BOOLEAN, Scripts!ReportScriptResult(q, b)
      PROVE  ScriptsApart'
  BY <1>3, <1>5 DEF Scripts!ReportScriptResult, Scripts!inAgent, Scripts!past
<1>6. CASE Scripts!Crash
  BY <1>3, <1>6 DEF Scripts!Crash, Scripts!past
<1>7. CASE ScriptsOperator
  BY <1>3, <1>7, ScriptsOperatorFrame DEF Scripts!inAgent, Scripts!onDisk
<1> QED
  BY <1>1, <1>2, <1>3, <1>4, <1>5, <1>6, <1>7, ScriptsOtherSteps

\* Every step keeps the invariant.
LEMMA ScriptsStep == ASSUME ScriptsInv, [Scripts!Next]_(Scripts!vars) PROVE ScriptsInv'
<1>1. CASE Scripts!Next
  <2>1. ScriptsServer /\ ScriptsAgent /\ ScriptsRunning
    BY ScriptsTypesAre DEF ScriptsInv
  <2>2. ScriptsServer' /\ ScriptPolicies'
    <3>1. CASE ScriptsOperator
      BY <2>1, <3>1, ScriptsOperatorFrame DEF ScriptsInv
    <3>2. CASE ~ScriptsOperator
      <4>1. UNCHANGED <<script, policy, assigned, member, held, edits, deleted>>
        BY <1>1, <3>2 DEF Scripts!Next, ScriptsOperator,
           Scripts!FetchScriptPolicies, Scripts!OnConnect, Scripts!OnEvent,
           Scripts!Start, Scripts!Crash, Scripts!Poll, Scripts!Fire,
           Scripts!ReportFails, Scripts!ReportScriptResult, Scripts!Take,
           Scripts!Launch, Scripts!Finish, Scripts!vars, Scripts!server,
           Scripts!past
      <4> QED
        BY <2>1, <4>1 DEF ScriptsInv, ScriptsServer, ScriptPolicies
    <3> QED
      BY <3>1, <3>2
  <2>3. ScriptsAgent' /\ ScriptsRunning'
    BY <1>1, <2>1, ScriptsAgentStep, ScriptsRunningStep DEF ScriptsInv
  <2>4. Scripts!TypeOK'
    BY <2>2, <2>3 DEF Scripts!TypeOK, ScriptsServer, ScriptsAgent,
       ScriptsRunning, ScriptRows, ScriptHands, ScriptKeys
  <2> QED
    BY <1>1, <2>1, <2>2, <2>4, ScriptsBornStep, ScriptsNumberedStep,
       ScriptsMarkedStep, ScriptsApartStep, ScriptsKeptStep DEF ScriptsInv
<1>2. CASE UNCHANGED Scripts!vars
  BY <1>2 DEF ScriptsInv, Scripts!vars, Scripts!server, Scripts!inAgent,
     Scripts!onDisk, Scripts!past, Scripts!TypeOK, ScriptPolicies, ScriptsBorn,
     ScriptBorn, ScriptsNumbered, ScriptsMarked, ScriptOnce, ScriptsApart,
     Scripts!ResultKept
<1> QED
  BY <1>1, <1>2

\* A step of the parts is one of this part, or leaves it alone.
LEMMA ScriptsPartStep ==
  ASSUME [PartNext]_<<part, vars, cells>>, part = "scripts"
  PROVE  part' = part /\ [Scripts!Next]_(Scripts!vars)
<1>1. CASE PartNext
  BY <1>1 DEF PartNext
<1>2. CASE UNCHANGED <<part, vars, cells>>
  BY <1>2 DEF cells, inScripts, shared, Scripts!vars, Scripts!server,
     Scripts!inAgent, Scripts!onDisk, Scripts!past
<1> QED
  BY <1>1, <1>2

(* ScriptRuns: the invariant holds in every reachable state.               *)
THEOREM ScriptsInvariant == PartSpec => [](part = "scripts" => ScriptsInv)
<1> DEFINE I == part = "scripts" => ScriptsInv
<1>1. PartInit => I
  BY ScriptsInitInv DEF PartInit
<1>2. I /\ [PartNext]_<<part, vars, cells>> => I'
  BY AgentPartStays, ScriptsPartStep, ScriptsStep
<1> QED
  BY <1>1, <1>2, PTL DEF PartSpec

(* ScriptRuns: an on_connect version starts once at most, over reconnects  *)
(* and restarts, and a policy never runs twice at a time.                  *)
THEOREM StartsOnce == PartSpec => []RunsOnce
<1>1. (part = "scripts" => ScriptsInv) => RunsOnce
  BY DEF ScriptsInv, ScriptsApart, RunsOnce, Scripts!RunsOnce
<1> QED
  BY <1>1, ScriptsInvariant, PTL

(* ScriptRuns: a result the queue took is there or with the server until   *)
(* its policy is deleted, but for one acknowledged over a failed COMMIT.   *)
THEOREM NoResultLost == PartSpec => []ResultKept
<1>1. (part = "scripts" => ScriptsInv) => ResultKept
  BY DEF ScriptsInv, ResultKept
<1> QED
  BY <1>1, ScriptsInvariant, PTL

-----------------------------------------------------------------------------
(* Lists of software (Policies): why the agent and the server speak of     *)
(* the same list and of the same snapshot.                                 *)

\* A version names the forbidden software of the rules it is computed from.
ListingSays(v) == {n \in ProgramName : v[<<n, "forbidden">>] # 0}
ListingTold(l) == l.version # None => l.list = ListingSays(l.version)

\* There are as many rules as edits at most: a version counts them.
ListingRules == IsFiniteSet(rules) /\ Cardinality(rules) <= edits

\* A list is the one its version stands for, and the one on the device the
\* one the server spoke of last.
ListingLists ==
  /\ answer # None => ListingTold(answer)
  /\ file # None => ListingTold(file) /\ file.list = told

\* The server holds the snapshot the agent takes for sent, but where the row
\* is gone or an answer was lost.
ListingSent ==
  /\ row = None => blurred
  /\ row # None /\ lastHash # None /\ ~blurred => row.software = lastHash.software

ListingInv == Listing!TypeOK /\ ListingRules /\ ListingLists /\ ListingSent

-----------------------------------------------------------------------------
\* The groups of the types.
ListingServer  == rules \subseteq Listing!Rule /\ groups \subseteq Group /\ row \in Listing!Row \cup {None}
ListingSyncer  ==
  file \in Listing!List \cup {None} /\ answer \in Listing!List \cup {None} /\ told \subseteq ProgramName
ListingSender  ==
  /\ lastHash \in Listing!Snapshot \cup {None} /\ report \in Listing!Snapshot \cup {None}
  /\ blurred \in BOOLEAN
ListingMachine == installed \subseteq Listing!Item /\ session \in BOOLEAN
ListingCount   == edits \in 0..MaxRuleEdits /\ changes \in 0..MaxChanges /\ failures \in 0..MaxFailures

\* The type invariant, in the groups the steps are taken in.
LEMMA ListingTypesAre ==
  Listing!TypeOK <=> ListingServer /\ ListingSyncer /\ ListingSender /\ ListingMachine /\ ListingCount
  BY DEF Listing!TypeOK, ListingServer, ListingSyncer, ListingSender,
     ListingMachine, ListingCount

(* The cardinality of the policies' module is the one of FiniteSets.       *)
LEMMA ListingCardinality == \A S : Listing!Cardinality(S) = Cardinality(S)
  BY DEF Listing!Cardinality, Cardinality

\* The invariant holds at the start.
LEMMA ListingInitInv == ASSUME Listing!Init PROVE ListingInv
<1> USE ListingAssumption DEF Listing!Init
<1>1. Listing!NewRow \in Listing!Row
  BY DEF Listing!NewRow, Listing!Row
<1>2. Listing!TypeOK
  <2>1. ListingServer /\ ListingSyncer
    BY <1>1 DEF ListingServer, ListingSyncer
  <2>2. ListingSender /\ ListingMachine
    BY DEF ListingSender, ListingMachine
  <2>3. ListingCount
    BY DEF ListingCount
  <2> QED
    BY <2>1, <2>2, <2>3, ListingTypesAre
<1>3. ListingRules
  BY FS_EmptySet DEF ListingRules
<1>4. ListingLists
  BY DEF ListingLists
<1>5. ListingSent
  <2>1. row # None
    BY <1>1
  <2> QED
    BY <2>1 DEF ListingSent
<1> QED
  BY <1>2, <1>3, <1>4, <1>5 DEF ListingInv

(* Which steps change what.                                                *)
ListingRule(r) ==
  /\ r \in [id : {edits'}, name : ProgramName, type : Listing!Type, where : {"all", "device"} \cup Group,
           platforms : SUBSET Listing!Platform]
ListingMoves ==
  /\ edits' \in {edits, edits + 1} /\ ListingCount'
  /\ \/ rules' \subseteq rules
     \/ edits' = edits + 1 /\ \E r : rules' = rules \cup {r} /\ ListingRule(r)
  /\ groups' \subseteq Group
  /\ \/ row' = row /\ UNCHANGED blurred /\ lastHash' \in {lastHash, None}
     \/ row' = None /\ blurred' = TRUE /\ UNCHANGED lastHash
     \/ row = None /\ row' = Listing!NewRow /\ UNCHANGED <<lastHash, blurred>>
     \/ /\ row # None /\ row' \in Listing!Row /\ row'.software = row.software
        /\ UNCHANGED blurred /\ lastHash' \in {lastHash, None}
     \/ Listing!ReportInventory
  /\ UNCHANGED <<file, told>> \/ Listing!FetchPolicy \/ Listing!WriteList
  /\ answer' \in {answer, None} \/ Listing!FetchPolicy
  /\ report' \in {report, None} \/ Listing!ReportOnce
  /\ ListingMachine'

\* What each action changes of lists, reports and rules.
LEMMA ListingMovesStep == ASSUME Listing!TypeOK, Listing!Next PROVE ListingMoves
<1> USE ListingAssumption
<1> USE DEF ListingMoves, Listing!server, Listing!syncer, Listing!sender,
   Listing!machine, Listing!count
<1>0. ListingServer /\ ListingSyncer /\ ListingSender /\ ListingMachine /\ ListingCount
  BY ListingTypesAre
<1>1. /\ UNCHANGED Listing!count => edits' = edits /\ ListingCount'
      /\ Listing!Fault => edits' = edits /\ ListingCount'
      /\ Listing!Change => edits' = edits /\ ListingCount'
      /\ Listing!Edit => edits' = edits + 1 /\ ListingCount'
      /\ UNCHANGED Listing!machine => ListingMachine'
  BY <1>0 DEF ListingCount, ListingMachine, Listing!Fault, Listing!Change,
     Listing!Edit
<1>2. ASSUME row # None PROVE row \in Listing!Row
  BY <1>0, <1>2 DEF ListingServer
<1>3. ASSUME NEW n \in ProgramName, NEW t \in Listing!Type, NEW w \in {"all", "device"}, NEW p \in Filters,
             Listing!CreatePolicy(n, t, w, p)
      PROVE  ListingMoves
  <2> DEFINE q == IF p = Listing!Platform THEN {} ELSE p
             r == [id |-> edits', name |-> n, type |-> t, where |-> w, platforms |-> q]
  <2>1. q \in SUBSET Listing!Platform
    OBVIOUS
  <2>2. rules' = rules \cup {r}
    BY <1>3 DEF Listing!CreatePolicy, Listing!CreatePolicyRule
  <2> HIDE DEF q
  <2>3. ListingRule(r)
    BY <2>1 DEF ListingRule
  <2> QED
    BY <1>0, <1>1, <1>3, <2>2, <2>3 DEF Listing!CreatePolicy, ListingServer
<1>4. ASSUME NEW n \in ProgramName, NEW t \in Listing!Type, NEW g \in Group,
             Listing!AssignSoftwarePolicyToGroup(g, n, t)
      PROVE  ListingMoves
  <2> DEFINE r == [id |-> edits', name |-> n, type |-> t, where |-> g, platforms |-> {}]
  <2>1. rules' = rules \cup {r} /\ ListingRule(r)
    BY <1>4 DEF Listing!AssignSoftwarePolicyToGroup, Listing!CreatePolicyRule,
       ListingRule
  <2> QED
    BY <1>0, <1>1, <1>4, <2>1 DEF Listing!AssignSoftwarePolicyToGroup,
       ListingServer
<1>5. ASSUME NEW r \in rules, Listing!DeletePolicy(r) PROVE ListingMoves
  BY <1>0, <1>1, <1>5 DEF Listing!DeletePolicy, ListingServer
<1>6. ASSUME NEW g \in Group, Listing!CreateDeviceGroup(g) PROVE ListingMoves
  BY <1>0, <1>1, <1>6 DEF Listing!CreateDeviceGroup, ListingServer
<1>7. ASSUME NEW g \in Group, Listing!DeleteDeviceGroup(g) PROVE ListingMoves
  <2>1. row # None => row' \in Listing!Row /\ row'.software = row.software
    BY <1>2, <1>7 DEF Listing!DeleteDeviceGroup, Listing!Row
  <2>2. row = None => row' = row
    BY <1>7 DEF Listing!DeleteDeviceGroup
  <2> QED
    BY <1>0, <1>1, <1>7, <2>1, <2>2 DEF Listing!DeleteDeviceGroup,
       ListingServer
<1>8. ASSUME NEW g \in Group, Listing!AddGroupMember(g) \/ Listing!RemoveGroupMember(g)
      PROVE  ListingMoves
  <2>1. row # None /\ row' \in Listing!Row /\ row'.software = row.software
    BY <1>2, <1>8 DEF Listing!AddGroupMember, Listing!RemoveGroupMember,
       Listing!Row
  <2> QED
    BY <1>0, <1>1, <1>8, <2>1 DEF Listing!AddGroupMember,
       Listing!RemoveGroupMember, ListingServer
<1>9. CASE Listing!ApproveDevice \/ Listing!FinalizeBulkEnroll
  <2>1. row # None /\ row' \in Listing!Row /\ row'.software = row.software
    BY <1>2, <1>9 DEF Listing!ApproveDevice, Listing!FinalizeBulkEnroll,
       Listing!Row
  <2> QED
    BY <1>0, <1>1, <1>9, <2>1 DEF Listing!ApproveDevice,
       Listing!FinalizeBulkEnroll, ListingServer
<1>10. CASE Listing!DeleteDevice \/ Listing!UpsertDeviceHeartbeat \/ Listing!RestartAgent
  BY <1>0, <1>1, <1>10 DEF Listing!DeleteDevice, Listing!UpsertDeviceHeartbeat,
     Listing!RestartAgent, ListingServer
<1>11. CASE Listing!FetchPolicy
  BY <1>0, <1>1, <1>11 DEF Listing!FetchPolicy, Listing!NoFault, ListingServer
<1>12. CASE Listing!WriteList
  BY <1>0, <1>1, <1>12 DEF Listing!WriteList, Listing!NoFault, ListingServer
<1>13. CASE Listing!ReportOnce
  BY <1>0, <1>1, <1>13 DEF Listing!ReportOnce, Listing!NoFault, ListingServer
<1>14. CASE Listing!ReportInventory
  BY <1>0, <1>1, <1>14 DEF Listing!ReportInventory, Listing!NoFault,
     ListingServer
<1>15. CASE Listing!SendFails
  BY <1>0, <1>1, <1>15 DEF Listing!SendFails, Listing!NoFault, ListingServer
<1>16. CASE Listing!MachineChanges
  <2>1. ListingMachine'
    BY <1>0, <1>16, Zenon DEF Listing!MachineChanges, ListingMachine
  <2> QED
    BY <1>0, <1>1, <1>16, <2>1 DEF Listing!MachineChanges, ListingServer
<1> QED
  BY <1>3, <1>4, <1>5, <1>6, <1>7, <1>8, <1>9, <1>10, <1>11, <1>12, <1>13,
     <1>14, <1>15, <1>16 DEF Listing!Next
(* A version is one, and says what the rules it counts forbid.             *)
LEMMA ListingVersionSays ==
  ASSUME ListingInv, NEW set \in SUBSET rules
  PROVE  /\ Listing!PolicySetVersion(set) \in Listing!Version
         /\ Listing!Forbidden(set) = ListingSays(Listing!PolicySetVersion(set))
         /\ Listing!Forbidden(set) \subseteq ProgramName
<1> USE ListingAssumption
<1>0. /\ rules \subseteq Listing!Rule /\ IsFiniteSet(rules) /\ Cardinality(rules) <= edits
      /\ edits \in 0..MaxRuleEdits
  BY ListingTypesAre DEF ListingInv, ListingServer, ListingRules, ListingCount
<1> DEFINE Of(i) == {r \in set : <<r.name, r.type>> = i}
<1>1. ASSUME NEW i PROVE /\ IsFiniteSet(Of(i)) /\ Cardinality(Of(i)) \in 0..MaxRuleEdits
                         /\ Cardinality(Of(i)) = 0 <=> Of(i) = {}
  <2>1. IsFiniteSet(Of(i)) /\ Cardinality(Of(i)) <= Cardinality(rules)
    BY <1>0, FS_Subset
  <2>2. Cardinality(Of(i)) \in Nat /\ Cardinality(rules) \in Nat
    BY <1>0, <2>1, FS_CardinalityType
  <2>3. Cardinality(Of(i)) = 0 <=> Of(i) = {}
    BY <2>1, FS_EmptySet
  <2> HIDE DEF Of
  <2> QED
    BY <1>0, <2>1, <2>2, <2>3
<1>2. Listing!PolicySetVersion(set) = [i \in ProgramName \X Listing!Type |-> Cardinality(Of(i))]
  BY ListingCardinality, Zenon DEF Listing!PolicySetVersion
<1>3. Listing!PolicySetVersion(set) \in Listing!Version
  <2> HIDE DEF Of
  <2> QED
    BY <1>1, <1>2 DEF Listing!Version
<1>4. Listing!Forbidden(set) \subseteq ProgramName
  BY <1>0 DEF Listing!Forbidden, Listing!Rule
<1>5. ASSUME NEW n \in ProgramName
      PROVE  n \in Listing!Forbidden(set) <=> n \in ListingSays(Listing!PolicySetVersion(set))
  <2>1. <<n, "forbidden">> \in ProgramName \X Listing!Type
    BY DEF Listing!Type
  <2>2. Listing!PolicySetVersion(set)[<<n, "forbidden">>] = Cardinality(Of(<<n, "forbidden">>))
    BY <1>2, <2>1
  <2>3. n \in Listing!Forbidden(set) <=> Of(<<n, "forbidden">>) # {}
    BY DEF Listing!Forbidden
  <2> HIDE DEF Of
  <2> QED
    BY <1>1, <2>2, <2>3 DEF ListingSays
<1>6. ListingSays(Listing!PolicySetVersion(set)) \subseteq ProgramName
  BY DEF ListingSays
<1> QED
  BY <1>3, <1>4, <1>5, <1>6

\* The rules of a device are rules that are there.
LEMMA ListingFetched == Listing!FetchPolicyRules \subseteq rules
  BY DEF Listing!FetchPolicyRules

\* Every step keeps the types.
LEMMA ListingTypesStep == ASSUME ListingInv, Listing!Next PROVE Listing!TypeOK'
<1> USE ListingAssumption
<1>0. /\ ListingServer /\ ListingSyncer /\ ListingSender /\ ListingMachine /\ ListingCount
      /\ ListingMoves
  BY ListingTypesAre, ListingMovesStep DEF ListingInv
<1>1. ListingCount' /\ ListingMachine'
  BY <1>0 DEF ListingMoves
<1>2. ListingServer'
  <2>1. rules' \subseteq Listing!Rule
    <3>1. ASSUME edits' = edits + 1, NEW r, ListingRule(r) PROVE r \in Listing!Rule
      BY <1>0, <1>1, <3>1 DEF ListingRule, Listing!Rule, ListingCount
    <3> QED
      BY <1>0, <3>1 DEF ListingMoves, ListingServer
  <2>2. row' \in Listing!Row \cup {None}
    <3>1. CASE Listing!ReportInventory
      <4>1. report \in Listing!Snapshot /\ row \in Listing!Row
        BY <1>0, <3>1 DEF Listing!ReportInventory, ListingSender, ListingServer
      <4> QED
        BY <3>1, <4>1 DEF Listing!ReportInventory, Listing!Row,
           Listing!Snapshot
    <3>2. Listing!NewRow \in Listing!Row
      BY DEF Listing!NewRow, Listing!Row
    <3> QED
      BY <1>0, <3>1, <3>2 DEF ListingMoves, ListingServer
  <2>3. groups' \subseteq Group
    BY <1>0 DEF ListingMoves
  <2> QED
    BY <2>1, <2>2, <2>3 DEF ListingServer
<1>3. ListingSyncer'
  <2>1. CASE Listing!FetchPolicy
    <3> DEFINE set == Listing!FetchPolicyRules
    <3>1. /\ Listing!PolicySetVersion(set) \in Listing!Version
          /\ Listing!Forbidden(set) \subseteq ProgramName
      BY ListingVersionSays, ListingFetched
    <3>2. /\ [version |-> None, list |-> {}] \in Listing!List
          /\ [version |-> Listing!PolicySetVersion(set), list |-> Listing!Forbidden(set)]
               \in Listing!List
      BY <3>1 DEF Listing!List
    <3> HIDE DEF set
    <3>3. file' = file
      BY <1>0, <2>1 DEF Listing!FetchPolicy
    <3>4. /\ \/ answer' = [version |-> None, list |-> {}]
             \/ answer' = [version |-> Listing!PolicySetVersion(set), list |-> Listing!Forbidden(set)]
             \/ answer' = answer
          /\ told' \in {told, Listing!Forbidden(set)}
      BY <2>1, Zenon DEF Listing!FetchPolicy, set
    <3> QED
      BY <1>0, <3>1, <3>2, <3>3, <3>4 DEF ListingSyncer
  <2>2. CASE Listing!WriteList
    BY <1>0, <2>2 DEF Listing!WriteList, ListingSyncer, Listing!List
  <2>3. CASE UNCHANGED <<file, told>> /\ answer' \in {answer, None}
    BY <1>0, <2>3 DEF ListingSyncer
  <2> QED
    BY <1>0, <2>1, <2>2, <2>3 DEF ListingMoves, Listing!FetchPolicy,
       Listing!WriteList
<1>4. ListingSender'
  <2>1. blurred' \in BOOLEAN /\ lastHash' \in Listing!Snapshot \cup {None}
    <3>1. CASE Listing!ReportInventory
      BY <1>0, <3>1 DEF Listing!ReportInventory, ListingSender
    <3> QED
      BY <1>0, <3>1 DEF ListingMoves, ListingSender
  <2>2. report' \in Listing!Snapshot \cup {None}
    <3>1. CASE Listing!ReportOnce
      <4>1. \A failing \in BOOLEAN : Listing!InstalledSoftware(failing) \subseteq Listing!Item
        BY <1>0 DEF Listing!InstalledSoftware, Listing!DedupeSoftware,
           Listing!CollectWindows, Listing!CollectDarwin, Listing!CollectLinux,
           ListingMachine
      <4>2. \E failing \in BOOLEAN :
              report' = [os |-> OS, software |-> Listing!InstalledSoftware(failing)]
        BY <3>1 DEF Listing!ReportOnce
      <4> QED
        BY <4>1, <4>2 DEF Listing!Snapshot
    <3> QED
      BY <1>0, <3>1 DEF ListingMoves, ListingSender
  <2> QED
    BY <2>1, <2>2 DEF ListingSender
<1> QED
  BY <1>1, <1>2, <1>3, <1>4 DEF Listing!TypeOK, ListingServer, ListingSyncer,
     ListingSender, ListingMachine, ListingCount

\* Every step adds one rule for one edit.
LEMMA ListingRulesStep == ASSUME ListingInv, Listing!Next PROVE ListingRules'
<1>0. /\ ListingRules /\ ListingCount /\ ListingMoves
  BY ListingTypesAre, ListingMovesStep DEF ListingInv
<1>1. edits \in Nat /\ edits' \in Nat /\ edits <= edits' /\ Cardinality(rules) \in Nat
  BY <1>0, ListingAssumption, FS_CardinalityType DEF ListingCount,
     ListingMoves, ListingRules
<1>2. CASE rules' \subseteq rules
  <2>1. IsFiniteSet(rules') /\ Cardinality(rules') <= Cardinality(rules)
    BY <1>0, <1>2, FS_Subset DEF ListingRules
  <2>2. Cardinality(rules') \in Nat
    BY <2>1, FS_CardinalityType
  <2> QED
    BY <1>0, <1>1, <2>1, <2>2 DEF ListingRules
<1>3. ASSUME NEW r, edits' = edits + 1, rules' = rules \cup {r} PROVE ListingRules'
  <2>1. IsFiniteSet(rules') /\ Cardinality(rules') \in {Cardinality(rules), Cardinality(rules) + 1}
    BY <1>0, <1>3, FS_AddElement DEF ListingRules
  <2> QED
    BY <1>0, <1>1, <1>3, <2>1 DEF ListingRules
<1> QED
  BY <1>0, <1>2, <1>3 DEF ListingMoves

\* A list stays the one its version stands for.
LEMMA ListingListsStep == ASSUME ListingInv, Listing!Next PROVE ListingLists'
<1>0. /\ ListingLists /\ ListingSyncer /\ ListingMoves
  BY ListingTypesAre, ListingMovesStep DEF ListingInv
<1> USE ListingAssumption DEF ListingLists, ListingTold
<1>1. CASE Listing!FetchPolicy
  <2> DEFINE set == Listing!FetchPolicyRules
             current == Listing!PolicySetVersion(set)
  <2>1. current \in Listing!Version /\ Listing!Forbidden(set) = ListingSays(current)
    BY ListingVersionSays, ListingFetched
  <2>2. file' = file /\ answer = None
    BY <1>1 DEF Listing!FetchPolicy, Listing!PendingApproval
  <2>3. \/ answer' = [version |-> None, list |-> {}] /\ told' = told
        \/ answer' = [version |-> current, list |-> Listing!Forbidden(set)] /\ told' = told
        \/ answer' = answer /\ Listing!KnownVersion = current /\ told' = Listing!Forbidden(set)
    BY <1>1, Zenon DEF Listing!FetchPolicy
  <2> HIDE DEF set, current
  <2>4. CASE answer' = [version |-> None, list |-> {}] /\ told' = told
    BY <1>0, <2>2, <2>4
  <2>5. CASE answer' = [version |-> current, list |-> Listing!Forbidden(set)] /\ told' = told
    BY <1>0, <2>1, <2>2, <2>5
  <2>6. CASE answer' = answer /\ Listing!KnownVersion = current /\ told' = Listing!Forbidden(set)
    <3>1. current # None
      BY <2>1
    <3>2. file # None => file.version = current
      BY <2>6 DEF Listing!KnownVersion
    <3> QED
      BY <1>0, <2>1, <2>2, <2>6, <3>1, <3>2
  <2> QED
    BY <2>3, <2>4, <2>5, <2>6
<1>2. CASE Listing!WriteList
  BY <1>0, <1>2 DEF Listing!WriteList
<1>3. CASE UNCHANGED <<file, told>> /\ answer' \in {answer, None}
  BY <1>0, <1>3
<1> QED
  BY <1>0, <1>1, <1>2, <1>3 DEF ListingMoves

\* The snapshot taken for sent stays the one the server holds.
LEMMA ListingSentStep == ASSUME ListingInv, Listing!Next PROVE ListingSent'
<1>0. ListingSent /\ ListingServer /\ ListingSender /\ ListingMoves
  BY ListingTypesAre, ListingMovesStep DEF ListingInv
<1> USE ListingAssumption DEF ListingSent
<1>1. CASE Listing!ReportInventory
  <2>1. row \in Listing!Row /\ report \in Listing!Snapshot
    BY <1>0, <1>1 DEF Listing!ReportInventory, ListingServer, ListingSender
  <2>2. row' \in Listing!Row /\ row'.software = report.software
    BY <1>1, <2>1 DEF Listing!ReportInventory, Listing!Row, Listing!Snapshot
  <2>3. lastHash' = report \/ blurred' = TRUE
    BY <1>1 DEF Listing!ReportInventory
  <2> QED
    BY <2>2, <2>3
<1>2. CASE ~Listing!ReportInventory
  BY <1>0, <1>2 DEF ListingMoves, ListingServer
<1> QED
  BY <1>1, <1>2

\* Every step keeps the invariant.
LEMMA ListingStep == ASSUME ListingInv, [Listing!Next]_(Listing!vars) PROVE ListingInv'
<1>1. CASE Listing!Next
  BY <1>1, ListingTypesStep, ListingRulesStep, ListingListsStep,
     ListingSentStep DEF ListingInv
<1>2. CASE UNCHANGED Listing!vars
  BY <1>2 DEF ListingInv, Listing!vars, Listing!server, Listing!syncer,
     Listing!sender, Listing!machine, Listing!count, Listing!TypeOK,
     ListingRules, ListingLists, ListingTold, ListingSent
<1> QED
  BY <1>1, <1>2

\* A step of the parts is one of this part, or leaves it alone.
LEMMA ListingPartStep ==
  ASSUME [PartNext]_<<part, vars, cells>>, part = "policies"
  PROVE  [Listing!Next]_(Listing!vars)
<1>1. CASE PartNext
  BY <1>1 DEF PartNext
<1>2. CASE UNCHANGED <<part, vars, cells>>
  BY <1>2 DEF cells, inPolicies, shared, Listing!vars, Listing!server,
     Listing!syncer, Listing!sender, Listing!machine, Listing!count
<1> QED
  BY <1>1, <1>2

(* Policies: the invariant holds in every reachable state.                 *)
THEOREM ListingInvariant == PartSpec => [](part = "policies" => ListingInv)
<1> DEFINE I == part = "policies" => ListingInv
<1>1. PartInit => I
  BY ListingInitInv DEF PartInit
<1>2. I /\ [PartNext]_<<part, vars, cells>> => I'
  BY AgentPartStays, ListingPartStep, ListingStep
<1> QED
  BY <1>1, <1>2, PTL DEF PartSpec

(* Policies: the list on the device is the one the server spoke of last,   *)
(* and what the console counts is what the agent has by the rules it is    *)
(* given.                                                                  *)
THEOREM ListsAgree == PartSpec => []EndsAgree
<1>1. (part = "policies" => ListingInv) => EndsAgree
  <2> SUFFICES ASSUME part = "policies", ListingInv PROVE Listing!EndsAgree
    BY DEF EndsAgree
  <2>1. Listing!ListAsAnswered
    BY DEF ListingInv, ListingLists, Listing!ListAsAnswered
  <2>2. ASSUME row # None, lastHash # None, ~blurred
        PROVE  Listing!Forbidden({r \in rules : Listing!ListSoftwarePolicyCompliance(r) = "fail"})
                 = Listing!Forbidden(Listing!FetchPolicyRules) \cap {s.name : s \in lastHash.software}
    <3>1. row.software = lastHash.software
      BY <2>2 DEF ListingInv, ListingSent
    <3>2. ASSUME NEW r \in rules
          PROVE  Listing!ListSoftwarePolicyCompliance(r) = "fail" <=>
                   /\ r.type = "forbidden" /\ r \in Listing!FetchPolicyRules
                   /\ \E s \in lastHash.software : s.name = r.name
      <4>1. Listing!InScope(r) <=> r \in Listing!FetchPolicyRules
        BY <2>2 DEF Listing!InScope, Listing!FetchPolicyRules,
           Listing!PlatformMatches
      <4> QED
        BY <3>1, <4>1 DEF Listing!ListSoftwarePolicyCompliance
    <3> QED
      BY <3>2, ListingFetched DEF Listing!Forbidden
  <2> QED
    BY <2>1, <2>2 DEF Listing!EndsAgree, Listing!ComplianceTrue
<1> QED
  BY <1>1, ListingInvariant, PTL

-----------------------------------------------------------------------------
(* Removal (Removal): why only the chosen record goes, and why a teardown  *)
(* that has ended has ended whole.                                         *)

\* The record is the one the selector names, and not the agent.
RemovalChosen(r, sel) ==
  sel.ver \in {0, r.ver} /\ r.method = sel.method /\ r.sign = "none"

\* A task that is worked on or to be answered is there, and the task of an
\* uninstall has its selector.
RemovalRows ==
  \A t \in Remove!Id :
    /\ work[t] # "idle" \/ t \in outbox => task[t] # None
    /\ task[t] # None /\ task[t].kind = "uninstall" => task[t].sel \in Remove!Selector

\* What the uninstaller is about to take off was chosen for the task at hand.
RemovalTargets ==
  /\ \A t \in Remove!Id : work[t] = "exec" =>
       /\ task[t].kind = "uninstall" /\ found[t] \in Record
       /\ RemovalChosen(found[t], task[t].sel)
  /\ \A p \in removed : RemovalChosen(p[1], p[2])

\* What the teardown has passed is gone, or the OS refused it.
RemovalGone(x) == x \in left => x \in stuck
RemovalTeardown ==
  /\ platform = "linux" => "autostart" \notin left
  /\ mode = "teardown" =>
       /\ step # "service" /\ platform # "darwin" => RemovalGone("service")
       /\ step \in {"files", "dirs", "exe", "last"} => RemovalGone("stored")
       /\ step \in {"dirs", "exe", "last"} => RemovalGone("cert") /\ RemovalGone("token")
       /\ step = "last" => RemovalGone("state") /\ RemovalGone("exe")
  /\ mode = "gone" /\ deleter = "none" => left \subseteq stuck

RemovalInv == Remove!TypeOK /\ RemovalRows /\ RemovalTargets /\ RemovalTeardown

-----------------------------------------------------------------------------
\* The groups of the types.
RemovalServer ==
  /\ device \in {"active", "blocked", "decommissioned"}
  /\ inventory \subseteq Record /\ counted \in BOOLEAN
RemovalTable == task \in [Remove!Id -> Remove!Row \cup {None}]
RemovalPlaces ==
  /\ platform \in Remove!Platform /\ installed \subseteq Record /\ left \subseteq Remove!Part
  /\ deleter \in {"none", "msi", "del"} /\ stuck \subseteq Remove!Part
RemovalFlag == due \in BOOLEAN
RemovalModes ==
  /\ mode \in {"up", "ending", "teardown", "down", "gone"}
  /\ step \in {"none", "service", "store", "files", "dirs", "exe", "last"}
RemovalWork ==
  /\ seen \subseteq Remove!Id /\ work \in [Remove!Id -> Remove!Place]
  /\ found \in [Remove!Id -> Record \cup {None}] /\ result \in [Remove!Id -> Remove!Report]
  /\ outbox \subseteq Remove!Id
RemovalCounts == failures \in 0..MaxErrors /\ changes \in 0..MaxChanges
RemovalPast == removed \subseteq Record \X Remove!Selector

\* The type invariant, in the groups the steps are taken in.
LEMMA RemovalTypesAre ==
  Remove!TypeOK <=> /\ RemovalServer /\ RemovalTable /\ RemovalPlaces /\ RemovalFlag
                    /\ RemovalModes /\ RemovalWork /\ RemovalCounts /\ RemovalPast
<1>1. Record \subseteq Remove!AnyRecord
  BY RemovalAssumption
<1> QED
  BY <1>1, Zenon DEF Remove!TypeOK, RemovalServer, RemovalTable, RemovalPlaces,
     RemovalFlag, RemovalModes, RemovalWork, RemovalCounts, RemovalPast

(* Which steps change what.                                                *)
RemovalAnswers(t) ==
  \/ Remove!Receive(t) \/ Remove!ReportDirectly(t) \/ Remove!Flush(t)
  \/ Remove!ReportBeforeReboot(t) \/ Remove!ConfirmDecommission(t)
RemovalMoves ==
  /\ UNCHANGED <<device, task>> \/ Remove!ServerStep \/ \E t \in Remove!Id : RemovalAnswers(t)
  /\ inventory' = inventory \/ inventory' = installed
  /\ counted' = counted \/ counted' = TRUE \/ counted' = FALSE
  /\ platform' = platform
  /\ \/ UNCHANGED <<installed, removed>>
     \/ \E t \in Remove!Id : Remove!Execute(t)
     \/ removed' = removed /\ \E r \in Record : Remove!SoftwareChanges(r)
  /\ UNCHANGED <<left, stuck, deleter>> \/ Remove!TeardownStep \/ Remove!Reboot
  /\ due' = due \/ due' = TRUE \/ due' = FALSE
  /\ \/ UNCHANGED <<mode, step>> \/ Remove!TeardownStep \/ Remove!Reboot \/ Remove!Crash
     \/ Remove!Restart \/ \E t \in Remove!Id : Remove!ConfirmDecommission(t)
  /\ \/ UNCHANGED <<seen, work, found, result, outbox>> \/ Remove!Reboot \/ Remove!Crash
     \/ \E t \in Remove!Id : Remove!TaskStep(t)
  /\ \/ UNCHANGED <<failures, changes>> \/ Remove!Fault
     \/ \E r \in Record : Remove!SoftwareChanges(r)

\* Which actions change what.
LEMMA RemovalMovesStep == ASSUME Remove!Next PROVE RemovalMoves
<1> USE DEF RemovalMoves, Remove!server, Remove!places, Remove!agent,
   Remove!count, Remove!past, Remove!NoFault, Remove!restOfTeardown
<1>1. CASE Remove!ServerStep
  BY <1>1 DEF Remove!ServerStep, Remove!UpdateDeviceStatus,
     Remove!DecommissionDevice, Remove!RebootDevice, Remove!RebootGroup,
     Remove!FanOutRebootToGroup, Remove!CreateUninstallTask, Remove!Sweep
<1>2. ASSUME NEW t \in Remove!Id, Remove!TaskStep(t) PROVE RemovalMoves
  <2>1. CASE Remove!Receive(t)
    BY <1>2, <2>1 DEF Remove!Receive, RemovalAnswers, Remove!GoTo
  <2>2. CASE Remove!Deliver(t)
    BY <1>2, <2>2 DEF Remove!Deliver
  <2>3. CASE Remove!ReportDirectly(t)
    BY <1>2, <2>3 DEF Remove!ReportDirectly, RemovalAnswers, Remove!Call,
       Remove!Lost
  <2>4. CASE Remove!Flush(t)
    BY <1>2, <2>4 DEF Remove!Flush, RemovalAnswers, Remove!Call
  <2>5. CASE Remove!HandleReboot(t)
    BY <1>2, <2>5 DEF Remove!HandleReboot
  <2>6. CASE Remove!ReportBeforeReboot(t)
    BY <1>2, <2>6 DEF Remove!ReportBeforeReboot, RemovalAnswers, Remove!Call,
       Remove!Lost
  <2>7. CASE Remove!HandleUninstall(t)
    BY <1>2, <2>7 DEF Remove!HandleUninstall
  <2>8. CASE Remove!Execute(t)
    BY <1>2, <2>8 DEF Remove!Execute
  <2>9. CASE Remove!Rescan(t)
    BY <1>2, <2>9 DEF Remove!Rescan
  <2>10. CASE Remove!HandleDecommission(t)
    BY <1>2, <2>10 DEF Remove!HandleDecommission
  <2>11. CASE Remove!ConfirmDecommission(t)
    BY <1>2, <2>11 DEF Remove!ConfirmDecommission, RemovalAnswers, Remove!Call,
       Remove!Lost
  <2> QED
    BY <1>2, <2>1, <2>2, <2>3, <2>4, <2>5, <2>6, <2>7, <2>8, <2>9, <2>10, <2>11
       DEF Remove!TaskStep
<1>3. CASE Remove!TeardownStep
  <2> USE <1>3 DEF Remove!Remove
  <2>1. CASE Remove!RunDecommission
    BY <2>1 DEF Remove!RunDecommission
  <2>2. CASE Remove!UninstallService
    BY <2>2 DEF Remove!UninstallService
  <2>3. CASE Remove!StopServiceEarlyDarwin
    BY <2>3 DEF Remove!StopServiceEarlyDarwin
  <2>4. CASE Remove!PurgeKeystore
    BY <2>4 DEF Remove!PurgeKeystore
  <2>5. CASE Remove!RemoveFiles
    BY <2>5 DEF Remove!RemoveFiles
  <2>6. CASE Remove!RemoveDirs
    BY <2>6 DEF Remove!RemoveDirs
  <2>7. CASE Remove!ScheduleSelfDeleteWindows
    BY <2>7 DEF Remove!ScheduleSelfDeleteWindows
  <2>8. CASE Remove!Msiexec
    BY <2>8 DEF Remove!Msiexec
  <2>9. CASE Remove!BuildDeleterScript
    BY <2>9 DEF Remove!BuildDeleterScript
  <2>10. CASE Remove!UnregisterMSI
    BY <2>10 DEF Remove!UnregisterMSI
  <2>11. CASE Remove!RemoveExecutable
    BY <2>11 DEF Remove!RemoveExecutable
  <2>12. CASE Remove!DeregisterPackage
    BY <2>12 DEF Remove!DeregisterPackage
  <2>13. CASE Remove!UninstallServiceDarwin
    BY <2>13 DEF Remove!UninstallServiceDarwin
  <2> QED
    BY <2>1, <2>2, <2>3, <2>4, <2>5, <2>6, <2>7, <2>8, <2>9, <2>10, <2>11,
       <2>12, <2>13 DEF Remove!TeardownStep
<1>4. CASE Remove!ReportInventory
  BY <1>4 DEF Remove!ReportInventory
<1>5. ASSUME NEW r \in Record, Remove!SoftwareChanges(r) PROVE RemovalMoves
  BY <1>5 DEF Remove!SoftwareChanges
<1>6. CASE Remove!Reboot
  BY <1>6 DEF Remove!Reboot, Remove!Stops
<1>7. CASE Remove!Crash
  BY <1>7 DEF Remove!Crash, Remove!Stops
<1>8. CASE Remove!Restart
  BY <1>8 DEF Remove!Restart
<1> QED
  BY <1>1, <1>2, <1>3, <1>4, <1>5, <1>6, <1>7, <1>8 DEF Remove!Next

\* Counters and places keep their type.
LEMMA RemovalCountsStep ==
  ASSUME Remove!TypeOK, Remove!Next PROVE RemovalCounts' /\ RemovalServer' /\ RemovalFlag'
<1>0. RemovalMoves /\ RemovalCounts /\ RemovalServer /\ RemovalFlag /\ RemovalPlaces
  BY RemovalTypesAre, RemovalMovesStep
<1>1. MaxErrors \in Nat /\ MaxChanges \in Nat
  BY RemovalAssumption
<1>2. RemovalCounts'
  BY <1>0, <1>1 DEF RemovalMoves, RemovalCounts, Remove!Fault,
     Remove!SoftwareChanges
<1>3. device' \in {"active", "blocked", "decommissioned"}
  <2>1. ASSUME NEW t, Remove!Call(t) PROVE device' \in {"active", "blocked", "decommissioned"}
    BY <1>0, <2>1 DEF RemovalServer, Remove!Call, Remove!ReportTaskResult
  <2>2. CASE Remove!ServerStep
    BY <1>0, <2>2 DEF RemovalServer, Remove!ServerStep,
       Remove!UpdateDeviceStatus, Remove!DecommissionDevice,
       Remove!RebootDevice, Remove!RebootGroup, Remove!FanOutRebootToGroup,
       Remove!CreateUninstallTask, Remove!Sweep
  <2>3. ASSUME NEW t, RemovalAnswers(t) PROVE device' = device \/ Remove!Call(t)
    BY <2>3 DEF RemovalAnswers, Remove!Receive, Remove!ReportDirectly,
       Remove!Flush, Remove!ReportBeforeReboot, Remove!ConfirmDecommission,
       Remove!Lost
  <2> QED
    BY <1>0, <2>1, <2>2, <2>3 DEF RemovalMoves, RemovalServer
<1>4. inventory' \subseteq Record
  BY <1>0 DEF RemovalMoves, RemovalServer, RemovalPlaces
<1>5. counted' \in BOOLEAN
  BY <1>0 DEF RemovalMoves, RemovalServer
<1>6. due' \in BOOLEAN
  BY <1>0 DEF RemovalMoves, RemovalFlag
<1> QED
  BY <1>2, <1>3, <1>4, <1>5, <1>6 DEF RemovalServer, RemovalFlag

(* The table of the tasks.                                                 *)
LEMMA RemovalRowKept ==
  /\ \A r \in Remove!Row, s \in {"pending", "acked", "completed", "failed"} :
       /\ [r EXCEPT !.status = s] \in Remove!Row
       /\ [r EXCEPT !.status = s].kind = r.kind /\ [r EXCEPT !.status = s].sel = r.sel
       /\ [r EXCEPT !.status = s].outcome = r.outcome
  /\ \A r \in Remove!Row, o \in Remove!Outcome \cup {None} :
       /\ [r EXCEPT !.outcome = o] \in Remove!Row
       /\ [r EXCEPT !.outcome = o].kind = r.kind /\ [r EXCEPT !.outcome = o].sel = r.sel
BY DEF Remove!Row

RemovalSameTask(t) ==
  /\ task'[t] \in Remove!Row /\ task'[t].kind = task[t].kind /\ task'[t].sel = task[t].sel

\* What a call of the operator makes of the table of tasks.
LEMMA RemovalCalled ==
  ASSUME RemovalTable, NEW t \in Remove!Id, task[t] # None, Remove!Call(t)
  PROVE  RemovalTable' /\ RemovalSameTask(t) /\ \A u \in Remove!Id \ {t} : task'[u] = task[u]
<1>1. task[t] \in Remove!Row /\ DOMAIN task = Remove!Id
  BY DEF RemovalTable
<1>2. PICK s \in {"pending", "acked", "completed", "failed"}, o \in Remove!Outcome \cup {None} :
        task' = [task EXCEPT ![t] = [[task[t] EXCEPT !.status = s] EXCEPT !.outcome = o]]
  <2>1. PICK kept \in BOOLEAN : Remove!ReportTaskResult(t, kept)
    BY DEF Remove!Call
  <2> DEFINE s == IF result[t] \in {"ok", "removed", "absent"} THEN "completed" ELSE "failed"
             o == IF kept /\ Remove!SetTaskUninstallOutcome(t) THEN result[t] ELSE task[t].outcome
  <2>2. s \in {"pending", "acked", "completed", "failed"}
    OBVIOUS
  <2>3. o \in Remove!Outcome \cup {None}
    BY <1>1 DEF Remove!Row, Remove!SetTaskUninstallOutcome
  <2>4. [task[t] EXCEPT !.status = s].outcome = task[t].outcome
    BY <1>1, <2>2, RemovalRowKept
  <2>5. task' = [[task EXCEPT ![t] = [task[t] EXCEPT !.status = s]]
                   EXCEPT ![t] = [[task[t] EXCEPT !.status = s] EXCEPT !.outcome = o]]
    BY <1>1, <2>1, <2>4 DEF Remove!ReportTaskResult
  <2> HIDE DEF s, o
  <2>6. task' = [task EXCEPT ![t] = [[task[t] EXCEPT !.status = s] EXCEPT !.outcome = o]]
    BY <2>5
  <2> QED
    BY <2>2, <2>3, <2>6
<1> DEFINE one == [task[t] EXCEPT !.status = s]
           two == [one EXCEPT !.outcome = o]
<1>3. one \in Remove!Row /\ one.kind = task[t].kind /\ one.sel = task[t].sel
  BY <1>1, <1>2, RemovalRowKept
<1> HIDE DEF one
<1>4. two \in Remove!Row /\ two.kind = task[t].kind /\ two.sel = task[t].sel
  BY <1>2, <1>3, RemovalRowKept
<1>5. task' = [task EXCEPT ![t] = two]
  BY <1>2 DEF one
<1> HIDE DEF two
<1> QED
  BY <1>1, <1>4, <1>5 DEF RemovalTable, RemovalSameTask
\* A row stays as it is, or is new.
RemovalRowMoves ==
  \A t \in Remove!Id :
    /\ task[t] # None => RemovalSameTask(t)
    /\ task[t] = None => \/ task'[t] = None
                         \/ /\ task'[t] \in Remove!Row
                            /\ task'[t].kind = "uninstall" => task'[t].sel \in Remove!Selector

\* An insertion fills a free row.
LEMMA RemovalInserted ==
  ASSUME RemovalTable, NEW new \in Remove!Row, Remove!Insert(new),
         new.kind = "uninstall" => new.sel \in Remove!Selector
  PROVE  RemovalTable' /\ RemovalRowMoves
BY RemovalAssumption DEF RemovalTable, Remove!Insert, RemovalRowMoves,
   RemovalSameTask

\* The table of tasks keeps its type, and a task its kind and target.
LEMMA RemovalTasksStep ==
  ASSUME RemovalInv, Remove!Next PROVE RemovalTable' /\ RemovalRowMoves
<1>0. /\ RemovalMoves /\ RemovalTable /\ RemovalServer /\ RemovalRows
      /\ DOMAIN task = Remove!Id /\ None \notin Remove!Row
  BY RemovalTypesAre, RemovalMovesStep, RemovalAssumption DEF RemovalInv,
     RemovalTable
<1>1. CASE task' = task
  BY <1>0, <1>1 DEF RemovalTable, RemovalRowMoves, RemovalSameTask
<1>2. ASSUME NEW k \in {"reboot", "decommission"}, Remove!Insert(Remove!New(k, None))
      PROVE  RemovalTable' /\ RemovalRowMoves
  <2>1. Remove!New(k, None) \in Remove!Row /\ Remove!New(k, None).kind # "uninstall"
    BY <1>2 DEF Remove!New, Remove!Row, Remove!Kind
  <2> QED
    BY <1>0, <1>2, <2>1, RemovalInserted
<1>3. ASSUME NEW r \in Record, NEW k \in BOOLEAN, Remove!CreateUninstallTask(r, k)
      PROVE  RemovalTable' /\ RemovalRowMoves
  <2> DEFINE sel == [ver |-> IF k THEN r.ver ELSE 0, method |-> r.method,
                     sign |-> IF r.sign = "path" THEN "path" ELSE "none"]
  <2>1. sel \in Remove!Selector
    BY RemovalAssumption DEF Remove!AnyRecord, Remove!Selector
  <2>2. task' = task \/ Remove!Insert(Remove!New("uninstall", sel))
    BY <1>3 DEF Remove!CreateUninstallTask
  <2> HIDE DEF sel
  <2>3. /\ Remove!New("uninstall", sel) \in Remove!Row
        /\ Remove!New("uninstall", sel).sel \in Remove!Selector
    BY <2>1 DEF Remove!New, Remove!Row, Remove!Kind
  <2> QED
    BY <1>0, <1>1, <2>2, <2>3, RemovalInserted
<1>4. ASSUME NEW t \in Remove!Id, task[t] # None, NEW s \in {"acked", "failed"},
             task' = [task EXCEPT ![t].status = s]
      PROVE  RemovalTable' /\ RemovalRowMoves
  <2>1. task[t] \in Remove!Row
    BY <1>0, <1>4 DEF RemovalTable
  <2> DEFINE one == [task[t] EXCEPT !.status = s]
  <2>2. one \in Remove!Row /\ one.kind = task[t].kind /\ one.sel = task[t].sel
    BY <2>1 DEF Remove!Row
  <2>3. task' = [task EXCEPT ![t] = one]
    BY <1>0, <1>4
  <2> HIDE DEF one
  <2>4. RemovalTable'
    BY <1>0, <2>2, <2>3 DEF RemovalTable
  <2>5. RemovalSameTask(t)
    BY <1>0, <2>2, <2>3 DEF RemovalSameTask
  <2>6. \A u \in Remove!Id \ {t} : task'[u] = task[u]
    BY <1>0, <2>3
  <2> QED
    BY <1>0, <1>4, <2>4, <2>5, <2>6 DEF RemovalTable, RemovalRowMoves,
       RemovalSameTask
<1>5. ASSUME NEW t \in Remove!Id, task[t] # None, Remove!Call(t)
      PROVE  RemovalTable' /\ RemovalRowMoves
  BY <1>0, <1>5, RemovalCalled DEF RemovalRowMoves, RemovalSameTask,
     RemovalTable
<1>6. CASE Remove!ServerStep
  <2>1. CASE Remove!UpdateDeviceStatus \/ \E n \in 0..1 : Remove!RebootGroup(n)
    BY <1>1, <2>1 DEF Remove!UpdateDeviceStatus, Remove!RebootGroup
  <2>2. CASE Remove!DecommissionDevice
    BY <1>2, <2>2 DEF Remove!DecommissionDevice
  <2>3. CASE Remove!RebootDevice \/ Remove!FanOutRebootToGroup
    BY <1>1, <1>2, <2>3 DEF Remove!RebootDevice, Remove!FanOutRebootToGroup,
       Remove!CreateRebootTask
  <2>4. ASSUME NEW t \in Remove!Id, Remove!Sweep(t) PROVE RemovalTable' /\ RemovalRowMoves
    BY <1>4, <2>4 DEF Remove!Sweep
  <2> QED
    BY <1>3, <1>6, <2>1, <2>2, <2>3, <2>4 DEF Remove!ServerStep
<1>7. ASSUME NEW t \in Remove!Id, RemovalAnswers(t) PROVE RemovalTable' /\ RemovalRowMoves
  <2>1. CASE Remove!Receive(t)
    BY <1>1, <1>4, <2>1 DEF Remove!Receive
  <2>2. CASE ~Remove!Receive(t)
    <3>1. /\ task' = task \/ Remove!Call(t)
          /\ work[t] # "idle" \/ t \in outbox
      BY <1>7, <2>2 DEF RemovalAnswers, Remove!ReportDirectly, Remove!Flush,
         Remove!ReportBeforeReboot, Remove!ConfirmDecommission, Remove!Lost
    <3>2. task[t] # None
      BY <1>0, <3>1 DEF RemovalRows
    <3> QED
      BY <1>1, <1>5, <3>1, <3>2
  <2> QED
    BY <2>1, <2>2
<1> QED
  BY <1>0, <1>1, <1>6, <1>7 DEF RemovalMoves

(* The agent's work on its tasks.                                          *)
LEMMA RemovalWorkStep ==
  ASSUME RemovalInv, Remove!Next PROVE RemovalWork'
<1>0. RemovalMoves /\ RemovalWork /\ RemovalPlaces
  BY RemovalTypesAre, RemovalMovesStep DEF RemovalInv
<1>1. CASE UNCHANGED <<seen, work, found, result, outbox>>
  BY <1>0, <1>1 DEF RemovalWork
<1>2. CASE Remove!Reboot \/ Remove!Crash
  BY <1>0, <1>2 DEF RemovalWork, Remove!Reboot, Remove!Crash, Remove!Stops,
     Remove!Place
<1>3. ASSUME NEW t \in Remove!Id, Remove!TaskStep(t) PROVE RemovalWork'
  <2>1. work' \in [Remove!Id -> Remove!Place]
    <3>1. \E p \in Remove!Place : work' = [work EXCEPT ![t] = p] \/ work' = work
      BY <1>3 DEF Remove!TaskStep, Remove!Receive, Remove!Deliver,
         Remove!ReportDirectly, Remove!Flush, Remove!HandleReboot,
         Remove!ReportBeforeReboot, Remove!HandleUninstall, Remove!Execute,
         Remove!Rescan, Remove!HandleDecommission, Remove!ConfirmDecommission,
         Remove!GoTo, Remove!Place
    <3> QED
      BY <1>0, <3>1 DEF RemovalWork
  <2>2. result' \in [Remove!Id -> Remove!Report]
    <3>1. \E p \in Remove!Report : result' = [result EXCEPT ![t] = p] \/ result' = result
      BY <1>3 DEF Remove!TaskStep, Remove!Receive, Remove!Deliver,
         Remove!ReportDirectly, Remove!Flush, Remove!HandleReboot,
         Remove!ReportBeforeReboot, Remove!HandleUninstall, Remove!Execute,
         Remove!Rescan, Remove!HandleDecommission, Remove!ConfirmDecommission,
         Remove!Gives, Remove!Report, Remove!Outcome
    <3> QED
      BY <1>0, <3>1 DEF RemovalWork
  <2>3. found' \in [Remove!Id -> Record \cup {None}]
    <3>1. (\E r \in Record : found' = [found EXCEPT ![t] = r]) \/ found' = found
      BY <1>0, <1>3 DEF Remove!TaskStep, Remove!Receive, Remove!Deliver,
         Remove!ReportDirectly, Remove!Flush, Remove!HandleReboot,
         Remove!ReportBeforeReboot, Remove!HandleUninstall, Remove!Execute,
         Remove!Rescan, Remove!HandleDecommission, Remove!ConfirmDecommission,
         Remove!Candidates, RemovalPlaces
    <3> QED
      BY <1>0, <3>1 DEF RemovalWork
  <2>4. seen' \subseteq Remove!Id /\ outbox' \subseteq Remove!Id
    <3>1. seen' \subseteq seen \cup {t} /\ outbox' \subseteq outbox \cup {t}
      BY <1>3 DEF Remove!TaskStep, Remove!Receive, Remove!Deliver,
         Remove!ReportDirectly, Remove!Flush, Remove!HandleReboot,
         Remove!ReportBeforeReboot, Remove!HandleUninstall, Remove!Execute,
         Remove!Rescan, Remove!HandleDecommission, Remove!ConfirmDecommission
    <3> QED
      BY <1>0, <3>1 DEF RemovalWork
  <2> QED
    BY <2>1, <2>2, <2>3, <2>4 DEF RemovalWork
<1> QED
  BY <1>0, <1>1, <1>2, <1>3 DEF RemovalMoves

\* What is worked on or answered stays a task that is there.
LEMMA RemovalRowsStep ==
  ASSUME RemovalInv, Remove!Next PROVE RemovalRows'
<1>0. RemovalMoves /\ RemovalRows /\ RemovalTable /\ RemovalRowMoves /\ RemovalWork
      /\ None \notin Remove!Row
  BY RemovalTypesAre, RemovalMovesStep, RemovalTasksStep, RemovalAssumption
     DEF RemovalInv
<1>1. SUFFICES ASSUME NEW u \in Remove!Id
               PROVE  /\ work'[u] # "idle" \/ u \in outbox' => task'[u] # None
                      /\ task'[u] # None /\ task'[u].kind = "uninstall" =>
                           task'[u].sel \in Remove!Selector
  BY DEF RemovalRows
<1>2. task'[u] # None /\ task'[u].kind = "uninstall" => task'[u].sel \in Remove!Selector
  BY <1>0 DEF RemovalRowMoves, RemovalSameTask, RemovalRows
<1>3. task[u] # None => task'[u] # None
  BY <1>0 DEF RemovalRowMoves, RemovalSameTask
<1>4. CASE UNCHANGED <<seen, work, found, result, outbox>>
  BY <1>0, <1>2, <1>3, <1>4 DEF RemovalRows
<1>5. CASE Remove!Reboot \/ Remove!Crash
  BY <1>0, <1>2, <1>3, <1>5 DEF RemovalRows, Remove!Reboot, Remove!Crash,
     Remove!Stops
<1>6. ASSUME NEW t \in Remove!Id, Remove!TaskStep(t) PROVE work'[u] # "idle" \/ u \in outbox' => task'[u] # None
  <2>1. task[t] # None
    BY <1>0, <1>6 DEF RemovalRows, Remove!TaskStep, Remove!Receive,
       Remove!Deliver, Remove!ReportDirectly, Remove!Flush,
       Remove!HandleReboot, Remove!ReportBeforeReboot, Remove!HandleUninstall,
       Remove!Execute, Remove!Rescan, Remove!HandleDecommission,
       Remove!ConfirmDecommission
  <2>2. outbox' \subseteq outbox \cup {t} /\ \E p : work' = [work EXCEPT ![t] = p] \/ work' = work
    BY <1>6 DEF Remove!TaskStep, Remove!Receive, Remove!Deliver,
       Remove!ReportDirectly, Remove!Flush, Remove!HandleReboot,
       Remove!ReportBeforeReboot, Remove!HandleUninstall, Remove!Execute,
       Remove!Rescan, Remove!HandleDecommission, Remove!ConfirmDecommission,
       Remove!GoTo
  <2> QED
    BY <1>0, <1>3, <2>1, <2>2 DEF RemovalRows, RemovalWork
<1> QED
  BY <1>0, <1>2, <1>4, <1>5, <1>6 DEF RemovalMoves

\* What the uninstaller is given is what the selector names.
LEMMA RemovalHandled ==
  ASSUME RemovalInv, NEW t \in Remove!Id, Remove!HandleUninstall(t), work'[t] = "exec"
  PROVE  /\ task[t].kind = "uninstall" /\ task' = task
         /\ \E r \in Record : found'[t] = r /\ RemovalChosen(r, task[t].sel)
<1>0. RemovalWork /\ RemovalPlaces /\ RemovalRows
  BY RemovalTypesAre DEF RemovalInv
<1>1. task[t].kind = "uninstall" /\ task' = task /\ work[t] = "start"
  BY DEF Remove!HandleUninstall, Remove!server
<1>2. task[t].sel \in Remove!Selector
  BY <1>0, <1>1 DEF RemovalRows
<1>3. PICK r \in Remove!Candidates(task[t].sel) :
        r.sign = "none" /\ r.method = task[t].sel.method /\ found' = [found EXCEPT ![t] = r]
  BY <1>0 DEF Remove!HandleUninstall, Remove!GoTo, RemovalWork
<1>4. r \in Record /\ r.ver \in 1..2
  BY <1>0, RemovalAssumption DEF Remove!Candidates, RemovalPlaces,
     Remove!AnyRecord
<1>5. task[t].sel.ver \in {0, r.ver}
  BY <1>2, <1>3 DEF Remove!Candidates, Remove!MatchesSelector, Remove!Selector
<1> QED
  BY <1>0, <1>1, <1>3, <1>4, <1>5 DEF RemovalChosen, RemovalWork

\* What is taken off stays what was chosen.
LEMMA RemovalTargetsStep ==
  ASSUME RemovalInv, Remove!Next PROVE RemovalTargets' /\ RemovalPast'
<1>0. RemovalMoves /\ RemovalRows /\ RemovalRowMoves /\ RemovalWork /\ RemovalTargets
      /\ RemovalPast
  BY RemovalTypesAre, RemovalMovesStep, RemovalTasksStep DEF RemovalInv
<1>1. ASSUME NEW u \in Remove!Id, work[u] = "exec", found'[u] = found[u]
      PROVE  /\ task'[u].kind = "uninstall" /\ found'[u] \in Record
             /\ RemovalChosen(found'[u], task'[u].sel)
  <2>1. task[u] # None
    BY <1>0, <1>1 DEF RemovalRows
  <2>2. task'[u].kind = task[u].kind /\ task'[u].sel = task[u].sel
    BY <1>0, <2>1 DEF RemovalRowMoves, RemovalSameTask
  <2> QED
    BY <1>0, <1>1, <2>2 DEF RemovalTargets
<1>2. ASSUME NEW u \in Remove!Id, work'[u] = "exec"
      PROVE  /\ task'[u].kind = "uninstall" /\ found'[u] \in Record
             /\ RemovalChosen(found'[u], task'[u].sel)
  <2>1. CASE UNCHANGED <<seen, work, found, result, outbox>>
    BY <1>1, <1>2, <2>1
  <2>2. CASE Remove!Reboot \/ Remove!Crash
    BY <1>2, <2>2 DEF Remove!Reboot, Remove!Crash, Remove!Stops
  <2>3. CASE Remove!HandleUninstall(u)
    BY <1>2, <2>3, RemovalHandled
  <2>4. ASSUME NEW t \in Remove!Id, Remove!TaskStep(t), ~Remove!HandleUninstall(u)
        PROVE  work[u] = "exec" /\ found'[u] = found[u]
    <3>1. CASE Remove!HandleUninstall(t)
      <4>1. t # u
        BY <2>4, <3>1
      <4>2. (\E p : work' = [work EXCEPT ![t] = p])
            /\ (found' = found \/ \E r : found' = [found EXCEPT ![t] = r])
        BY <3>1 DEF Remove!HandleUninstall, Remove!GoTo
      <4> QED
        BY <1>0, <1>2, <4>1, <4>2 DEF RemovalWork
    <3>2. CASE ~Remove!HandleUninstall(t)
      <4>1. /\ found' = found
            /\ work' = work \/ \E p \in Remove!Place \ {"exec"} : work' = [work EXCEPT ![t] = p]
        BY <2>4, <3>2 DEF Remove!TaskStep, Remove!Receive, Remove!Deliver,
           Remove!ReportDirectly, Remove!Flush, Remove!HandleReboot,
           Remove!ReportBeforeReboot, Remove!Execute, Remove!Rescan,
           Remove!HandleDecommission, Remove!ConfirmDecommission, Remove!GoTo,
           Remove!Place
      <4> QED
        BY <1>0, <1>2, <4>1 DEF RemovalWork
    <3> QED
      BY <3>1, <3>2
  <2> QED
    BY <1>0, <1>1, <2>1, <2>2, <2>3, <2>4 DEF RemovalMoves
<1>3. (\A p \in removed' : RemovalChosen(p[1], p[2])) /\ RemovalPast'
  <2>1. CASE removed' = removed
    BY <1>0, <2>1 DEF RemovalTargets, RemovalPast
  <2>2. ASSUME NEW t \in Remove!Id, Remove!Execute(t)
        PROVE  (\A p \in removed' : RemovalChosen(p[1], p[2])) /\ RemovalPast'
    <3>1. work[t] = "exec" /\ (removed' = removed \/ removed' = removed \cup {<<found[t], task[t].sel>>})
      BY <2>2 DEF Remove!Execute
    <3>2. found[t] \in Record /\ RemovalChosen(found[t], task[t].sel) /\ task[t].sel \in Remove!Selector
      BY <1>0, <3>1 DEF RemovalTargets, RemovalRows
    <3> QED
      BY <1>0, <3>1, <3>2 DEF RemovalTargets, RemovalPast
  <2> QED
    BY <1>0, <2>1, <2>2 DEF RemovalMoves
<1> QED
  BY <1>2, <1>3 DEF RemovalTargets
(* The teardown.                                                           *)
LEMMA RemovalShrinks ==
  ASSUME Remove!TeardownStep
  PROVE  left' \subseteq left /\ stuck \subseteq stuck' /\ stuck' \subseteq stuck \cup left
<1> USE DEF Remove!Remove, Remove!places, Remove!past, Remove!count,
   Remove!restOfTeardown
<1>1. CASE Remove!RunDecommission \/ Remove!UninstallService \/ Remove!StopServiceEarlyDarwin
  BY <1>1 DEF Remove!RunDecommission, Remove!UninstallService,
     Remove!StopServiceEarlyDarwin
<1>2. CASE Remove!PurgeKeystore \/ Remove!RemoveFiles \/ Remove!RemoveDirs
  BY <1>2 DEF Remove!PurgeKeystore, Remove!RemoveFiles, Remove!RemoveDirs
<1>3. CASE Remove!ScheduleSelfDeleteWindows \/ Remove!Msiexec
  BY <1>3 DEF Remove!ScheduleSelfDeleteWindows, Remove!Msiexec
<1>4. CASE Remove!BuildDeleterScript \/ Remove!UnregisterMSI
  BY <1>4 DEF Remove!BuildDeleterScript, Remove!UnregisterMSI
<1>5. CASE Remove!RemoveExecutable \/ Remove!DeregisterPackage \/ Remove!UninstallServiceDarwin
  BY <1>5 DEF Remove!RemoveExecutable, Remove!DeregisterPackage,
     Remove!UninstallServiceDarwin
<1> QED
  BY <1>1, <1>2, <1>3, <1>4, <1>5 DEF Remove!TeardownStep

\* The teardown and the deleter keep their places.
LEMMA RemovalPlacesStep ==
  ASSUME RemovalInv, Remove!Next PROVE RemovalPlaces' /\ RemovalModes'
<1>0. RemovalMoves /\ RemovalPlaces /\ RemovalModes
  BY RemovalTypesAre, RemovalMovesStep DEF RemovalInv
<1>1. installed' \subseteq Record
  BY <1>0 DEF RemovalMoves, RemovalPlaces, Remove!Execute,
     Remove!SoftwareChanges
<1>2. left' \subseteq Remove!Part /\ stuck' \subseteq Remove!Part
  <2>1. CASE Remove!Reboot
    BY <1>0, <2>1 DEF Remove!Reboot, RemovalPlaces
  <2> QED
    BY <1>0, <2>1, RemovalShrinks DEF RemovalMoves, RemovalPlaces
<1>3. deleter' \in {"none", "msi", "del"}
  <2>1. CASE Remove!TeardownStep
    BY <1>0, <2>1 DEF RemovalPlaces, Remove!TeardownStep,
       Remove!RunDecommission, Remove!UninstallService,
       Remove!StopServiceEarlyDarwin, Remove!PurgeKeystore, Remove!RemoveFiles,
       Remove!RemoveDirs, Remove!ScheduleSelfDeleteWindows, Remove!Msiexec,
       Remove!BuildDeleterScript, Remove!UnregisterMSI,
       Remove!RemoveExecutable, Remove!DeregisterPackage,
       Remove!UninstallServiceDarwin, Remove!places
  <2> QED
    BY <1>0, <2>1 DEF RemovalMoves, RemovalPlaces, Remove!Reboot
<1>4. RemovalModes'
  <2>1. CASE Remove!TeardownStep
    BY <1>0, <2>1 DEF RemovalModes, Remove!TeardownStep, Remove!Teardown,
       Remove!RunDecommission, Remove!UninstallService,
       Remove!StopServiceEarlyDarwin, Remove!PurgeKeystore, Remove!RemoveFiles,
       Remove!RemoveDirs, Remove!ScheduleSelfDeleteWindows, Remove!Msiexec,
       Remove!BuildDeleterScript, Remove!UnregisterMSI,
       Remove!RemoveExecutable, Remove!DeregisterPackage,
       Remove!UninstallServiceDarwin, Remove!agent
  <2> QED
    BY <1>0, <2>1 DEF RemovalMoves, RemovalModes, Remove!Reboot, Remove!Crash,
       Remove!Stops, Remove!Restart, Remove!ConfirmDecommission
<1> QED
  BY <1>0, <1>1, <1>2, <1>3, <1>4 DEF RemovalMoves, RemovalPlaces

\* A teardown goes on with what it has not removed.
LEMMA RemovalTeardownStep ==
  ASSUME RemovalInv, Remove!Next PROVE RemovalTeardown'
<1>0. /\ RemovalMoves /\ RemovalPlaces /\ RemovalModes /\ RemovalTeardown
      /\ platform' = platform
  BY RemovalTypesAre, RemovalMovesStep DEF RemovalInv, RemovalMoves
<1>1. CASE UNCHANGED <<left, stuck, deleter, mode, step>>
  BY <1>0, <1>1 DEF RemovalTeardown, RemovalGone
<1>2. CASE Remove!Reboot \/ Remove!Crash \/ Remove!Restart
  BY <1>0, <1>2 DEF RemovalTeardown, Remove!Reboot, Remove!Crash, Remove!Stops,
     Remove!Restart, Remove!places, Remove!past
<1>3. ASSUME NEW t, Remove!ConfirmDecommission(t) PROVE RemovalTeardown'
  BY <1>0, <1>3 DEF RemovalTeardown, Remove!ConfirmDecommission, Remove!places,
     Remove!past
<1>4. CASE Remove!TeardownStep
  <2>1. left' \subseteq left /\ stuck \subseteq stuck'
    BY <1>4, RemovalShrinks
  <2>2. platform = "linux" => "autostart" \notin left'
    BY <1>0, <2>1 DEF RemovalTeardown
  <2>3. \A x : RemovalGone(x) => RemovalGone(x)'
    BY <2>1 DEF RemovalGone
  <2>4. ASSUME mode' = "teardown"
        PROVE /\ step' # "service" /\ platform # "darwin" => RemovalGone("service")'
              /\ step' \in {"files", "dirs", "exe", "last"} => RemovalGone("stored")'
              /\ step' \in {"dirs", "exe", "last"} => RemovalGone("cert")' /\ RemovalGone("token")'
              /\ step' = "last" => RemovalGone("state")' /\ RemovalGone("exe")'
    <3> USE DEF Remove!Teardown
    <3>1. CASE Remove!RunDecommission
      BY <3>1 DEF Remove!RunDecommission
    <3>2. CASE Remove!UninstallService
      <4>1. mode = "teardown" /\ step' = "store" /\ RemovalGone("service")'
        BY <2>4, <3>2 DEF Remove!UninstallService, Remove!Remove, RemovalGone
      <4> QED
        BY <4>1
    <3>3. CASE Remove!StopServiceEarlyDarwin
      BY <3>3 DEF Remove!StopServiceEarlyDarwin
    <3>4. CASE Remove!PurgeKeystore
      <4>1. mode = "teardown" /\ step = "store" /\ step' = "files" /\ RemovalGone("stored")'
        BY <2>4, <3>4 DEF Remove!PurgeKeystore, Remove!Remove, RemovalGone
      <4> QED
        BY <1>0, <2>3, <4>1 DEF RemovalTeardown
    <3>5. CASE Remove!RemoveFiles
      <4>1. /\ mode = "teardown" /\ step = "files" /\ step' = "dirs"
            /\ RemovalGone("cert")' /\ RemovalGone("token")'
        BY <2>4, <3>5 DEF Remove!RemoveFiles, Remove!Remove, RemovalGone
      <4> QED
        BY <1>0, <2>3, <4>1 DEF RemovalTeardown
    <3>6. CASE Remove!RemoveDirs
      <4>1. mode = "teardown" /\ step = "dirs" /\ step' = "exe"
        BY <2>4, <3>6 DEF Remove!RemoveDirs
      <4> QED
        BY <1>0, <2>3, <4>1 DEF RemovalTeardown
    <3>7. CASE Remove!RemoveExecutable
      <4>1. /\ mode = "teardown" /\ step = "exe" /\ step' = "last"
            /\ RemovalGone("state")' /\ RemovalGone("exe")'
        BY <2>4, <3>7 DEF Remove!RemoveExecutable, Remove!Remove, RemovalGone
      <4> QED
        BY <1>0, <2>3, <4>1 DEF RemovalTeardown
    <3>8. CASE \/ Remove!ScheduleSelfDeleteWindows \/ Remove!Msiexec \/ Remove!BuildDeleterScript
               \/ Remove!UnregisterMSI \/ Remove!DeregisterPackage \/ Remove!UninstallServiceDarwin
      BY <2>4, <3>8 DEF Remove!ScheduleSelfDeleteWindows, Remove!Msiexec,
         Remove!BuildDeleterScript, Remove!UnregisterMSI,
         Remove!DeregisterPackage, Remove!UninstallServiceDarwin, Remove!agent
    <3> QED
      BY <1>4, <3>1, <3>2, <3>3, <3>4, <3>5, <3>6, <3>7, <3>8
         DEF Remove!TeardownStep
  <2>5. ASSUME mode' = "gone", deleter' = "none" PROVE left' \subseteq stuck'
    <3> USE DEF Remove!Teardown
    <3>1. CASE Remove!ScheduleSelfDeleteWindows
      BY <2>5, <3>1 DEF Remove!ScheduleSelfDeleteWindows
    <3>2. CASE Remove!Msiexec
      BY <2>5, <3>2 DEF Remove!Msiexec
    <3>3. CASE Remove!BuildDeleterScript
      BY <3>3 DEF Remove!BuildDeleterScript
    <3>4. CASE Remove!UnregisterMSI
      <4>1. mode = "gone" /\ deleter = "none"
        BY <3>4 DEF Remove!UnregisterMSI
      <4> QED
        BY <1>0, <2>1, <4>1 DEF RemovalTeardown
    <3>5. CASE Remove!DeregisterPackage
      <4>1. mode = "teardown" /\ step = "last" /\ platform = "linux"
        BY <3>5 DEF Remove!DeregisterPackage
      <4>2. left \subseteq stuck \cup {"package"}
        BY <1>0, <4>1 DEF RemovalTeardown, RemovalGone, RemovalPlaces,
           Remove!Part
      <4> QED
        BY <3>5, <4>2 DEF Remove!DeregisterPackage, Remove!Remove
    <3>6. CASE Remove!UninstallServiceDarwin
      <4>1. mode = "teardown" /\ step = "last"
        BY <3>6 DEF Remove!UninstallServiceDarwin
      <4>2. left \subseteq stuck \cup {"autostart", "package", "service"}
        BY <1>0, <4>1 DEF RemovalTeardown, RemovalGone, RemovalPlaces,
           Remove!Part
      <4> QED
        BY <3>6, <4>2 DEF Remove!UninstallServiceDarwin, Remove!Remove
    <3>7. CASE \/ Remove!RunDecommission \/ Remove!UninstallService \/ Remove!StopServiceEarlyDarwin
               \/ Remove!PurgeKeystore \/ Remove!RemoveFiles \/ Remove!RemoveDirs
               \/ Remove!RemoveExecutable
      BY <2>5, <3>7 DEF Remove!RunDecommission, Remove!UninstallService,
         Remove!StopServiceEarlyDarwin, Remove!PurgeKeystore,
         Remove!RemoveFiles, Remove!RemoveDirs, Remove!RemoveExecutable
    <3> QED
      BY <1>4, <3>1, <3>2, <3>3, <3>4, <3>5, <3>6, <3>7 DEF Remove!TeardownStep
  <2> QED
    BY <1>0, <2>2, <2>4, <2>5 DEF RemovalTeardown
<1> QED
  BY <1>0, <1>1, <1>2, <1>3, <1>4 DEF RemovalMoves

\* The invariant holds at the start.
LEMMA RemovalInitInv == ASSUME Remove!Init PROVE RemovalInv
<1>1. /\ device = "active" /\ counted = FALSE /\ due = FALSE /\ deleter = "none"
      /\ mode = "up" /\ step = "none" /\ seen = {} /\ outbox = {} /\ removed = {} /\ stuck = {}
  BY DEF Remove!Init
<1>2. failures = 0 /\ changes = 0
  BY DEF Remove!Init
<1>3. /\ task = [t \in Remove!Id |-> None] /\ work = [t \in Remove!Id |-> "idle"]
      /\ found = [t \in Remove!Id |-> None] /\ result = [t \in Remove!Id |-> None]
  BY DEF Remove!Init
<1>4. installed \subseteq Record /\ inventory = installed
  BY DEF Remove!Init
<1>5. /\ platform \in Remove!Platform /\ left \subseteq Remove!Part
      /\ platform = "linux" => "autostart" \notin left
  BY DEF Remove!Init, Remove!Installation, Remove!Part
<1>6. RemovalCounts
  BY <1>2, RemovalAssumption DEF RemovalCounts
<1>7. RemovalWork
  BY <1>1, <1>3 DEF RemovalWork, Remove!Place, Remove!Report
<1>8. RemovalTable
  BY <1>3 DEF RemovalTable
<1>9. RemovalServer /\ RemovalPlaces /\ RemovalFlag /\ RemovalModes /\ RemovalPast
  BY <1>1, <1>4, <1>5 DEF RemovalServer, RemovalPlaces, RemovalFlag,
     RemovalModes, RemovalPast
<1>10. RemovalRows /\ RemovalTargets /\ RemovalTeardown
  BY <1>1, <1>3, <1>5 DEF RemovalRows, RemovalTargets, RemovalTeardown
<1> QED
  BY <1>6, <1>7, <1>8, <1>9, <1>10, RemovalTypesAre DEF RemovalInv

\* Every step keeps the invariant.
LEMMA RemovalStep ==
  ASSUME RemovalInv, [Remove!Next]_(Remove!vars) PROVE RemovalInv'
<1>1. CASE Remove!Next
  <2>1. /\ RemovalServer' /\ RemovalTable' /\ RemovalPlaces' /\ RemovalFlag' /\ RemovalModes'
        /\ RemovalWork' /\ RemovalCounts' /\ RemovalPast'
    BY <1>1, RemovalCountsStep, RemovalTasksStep, RemovalPlacesStep,
       RemovalWorkStep, RemovalTargetsStep DEF RemovalInv
  <2>2. Record \subseteq Remove!AnyRecord
    BY RemovalAssumption
  <2>3. Remove!TypeOK'
    BY <2>1, <2>2, Zenon DEF Remove!TypeOK, RemovalServer, RemovalTable,
       RemovalPlaces, RemovalFlag, RemovalModes, RemovalWork, RemovalCounts,
       RemovalPast
  <2> QED
    BY <1>1, <2>3, RemovalRowsStep, RemovalTargetsStep, RemovalTeardownStep
       DEF RemovalInv
<1>2. CASE UNCHANGED Remove!vars
  <2> USE <1>2 DEF Remove!vars, Remove!server, Remove!places, Remove!agent,
     Remove!count, Remove!past
  <2>1. Remove!TypeOK'
    BY DEF RemovalInv, Remove!TypeOK
  <2>2. RemovalRows' /\ RemovalTargets' /\ RemovalTeardown'
    BY DEF RemovalInv, RemovalRows, RemovalTargets, RemovalTeardown,
       RemovalGone
  <2> QED
    BY <2>1, <2>2 DEF RemovalInv
<1> QED
  BY <1>1, <1>2

\* A step of the parts is one of this part, or leaves it alone.
LEMMA RemovalPartStep ==
  ASSUME [PartNext]_<<part, vars, cells>>, part = "removal"
  PROVE  [Remove!Next]_(Remove!vars)
<1>1. CASE PartNext
  BY <1>1 DEF PartNext
<1>2. CASE UNCHANGED <<part, vars, cells>>
  BY <1>2 DEF cells, inRemoval, shared, Remove!vars, Remove!server,
     Remove!places, Remove!agent, Remove!count, Remove!past
<1> QED
  BY <1>1, <1>2

(* Removal: the invariant holds in every reachable state.                  *)
THEOREM RemovalInvariant == PartSpec => [](part = "removal" => RemovalInv)
<1> DEFINE I == part = "removal" => RemovalInv
<1>1. PartInit => I
  BY RemovalInitInv DEF PartInit
<1>2. I /\ [PartNext]_<<part, vars, cells>> => I'
  BY AgentPartStays, RemovalPartStep, RemovalStep
<1> QED
  BY <1>1, <1>2, PTL DEF PartSpec

(* Removal: what is taken off a device is the record the operator chose,   *)
(* and never the agent.                                                    *)
THEOREM TakesTheTarget == PartSpec => []OnlyTheTarget
<1>1. (part = "removal" => RemovalInv) => OnlyTheTarget
  <2> SUFFICES ASSUME part = "removal", RemovalInv, NEW p \in removed
               PROVE  p[2].ver \in {0, p[1].ver} /\ p[1].method = p[2].method /\ p[1].sign = "none"
    BY DEF OnlyTheTarget, Remove!OnlyTheTarget
  <2> QED
    BY DEF RemovalInv, RemovalTargets, RemovalChosen
<1> QED
  BY <1>1, RemovalInvariant, PTL

(* Removal: a teardown that has ended leaves only what the OS refused.     *)
THEOREM TeardownEndsWhole == PartSpec => []TornDownWhole
<1>1. (part = "removal" => RemovalInv) => TornDownWhole
  BY DEF TornDownWhole, Remove!TornDownWhole, RemovalInv, RemovalTeardown
<1> QED
  BY <1>1, RemovalInvariant, PTL
=============================================================================
