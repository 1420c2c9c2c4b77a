----------------------------- MODULE LockScreen -----------------------------
(***************************************************************************)
(* The lock screen: the service keeps one `agent lock-screen` process in   *)
(* the user's active session while the device is locked.                   *)
(*   - service: lock.Manager as far as the screen depends on it, and the   *)
(*     SessionLocker of each system (agent/lock/locker_session_*.go);      *)
(*   - the overlay process (agent/lockui), which knows only the state file *)
(*     and may only ask the service to unlock.                             *)
(* DeviceLock models who decides that the device is locked; here a lock is *)
(* the password that takes it off.  Time is left out: a tick of the 3 s    *)
(* loop, of the overlay's watchdog or of its timeout may come at any step. *)
(***************************************************************************)
EXTENDS FiniteSets, Integers

CONSTANTS
  Proc,                \* slots for overlay processes
  Session,             \* graphical sessions, each of its own user
  Wayland,             \* sessions that are not X11
  Password,            \* unlock passwords; a lock is named by its own
  MaxLocks,            \* bound: locks set
  MaxActs,         \* bound: what the user does
  MaxFaults,           \* bound: failed writes and reads, a screen that fails
  MaxCrashes,          \* bound: crashes of the service
  Open, Bad, None      \* file: not locked, unreadable

VARIABLES
  os,                  \* which SessionLocker and which overlay: fixed by the build
  \* the service
  running,
  lock,                \* Manager.state: the password, or Open
  up,                  \* SessionLocker.cancel # nil: Show was called, Hide was not
  handle,              \* cmd (Unix) or proc (Windows): the overlay the service knows
  \* the disk
  file,                \* lock.json
  requests,            \* unlock-request-*.json
  \* the machine
  logged, active,      \* sessions; the one on the screen
  overlay,             \* the process in each slot
  locks, acts, faults, crashes

service == <<running, lock, up, handle>>
disk    == <<file, requests>>
desktop == <<logged, active>>
count   == <<locks, acts, faults, crashes>>
vars    == <<os, service, disk, desktop, overlay, count>>

Overlay == [st : {"starting", "shown", "ended"}, mine : BOOLEAN, session : Session,
            hash : Password \cup {None}, typed : Password \cup {None}, pending : BOOLEAN]

TypeOK ==
  /\ os \in {"linux", "darwin", "windows"}
  /\ running \in BOOLEAN /\ lock \in Password \cup {Open}
  /\ up \in BOOLEAN /\ handle \in Proc \cup {None}
  /\ file \in Password \cup {Open, Bad} /\ requests \subseteq Password
  /\ logged \subseteq Session /\ active \in logged \cup {None}
  /\ overlay \in [Proc -> Overlay \cup {None}]
  /\ locks \in 0..MaxLocks /\ acts \in 0..MaxActs
  /\ faults \in 0..MaxFaults /\ crashes \in 0..MaxCrashes

Init ==
  /\ os \in {"linux", "darwin", "windows"}
  /\ running = TRUE /\ lock = Open /\ up = FALSE /\ handle = None
  /\ file = Open /\ requests = {}
  /\ logged = {} /\ active = None
  /\ overlay = [p \in Proc |-> None]
  /\ locks = 0 /\ acts = 0 /\ faults = 0 /\ crashes = 0

Fault   == faults < MaxFaults /\ faults' = faults + 1 /\ UNCHANGED <<locks, acts, crashes>>
Act     == acts < MaxActs /\ acts' = acts + 1
           /\ UNCHANGED <<locks, faults, crashes>>
NoFault == UNCHANGED count

Shown(p)  == overlay[p] # None /\ overlay[p].st = "shown"
Living(p) == overlay[p] # None /\ overlay[p].st # "ended"

\* What is left of a process that ended when the service knows `h`: on Unix a
\* child of this service until its Wait returns, on Windows what `h` holds open.
Remains(p, h) ==
  IF overlay[p] # None /\ overlay[p].mine /\ (os # "windows" \/ h = p)
  THEN [overlay[p] EXCEPT !.st = "ended", !.typed = None, !.pending = FALSE]
  ELSE None
End(p) == overlay' = [overlay EXCEPT ![p] = Remains(p, handle)]

-----------------------------------------------------------------------------
(* The session the screen belongs to.                                      *)

\* logind: the first active local session that is x11 or wayland; an overlay
\* is possible on X11 only.
PickGraphicalSession     == {s \in logged : s = active}
SessionBackend(s)        == IF s \in Wayland THEN "wayland" ELSE "x11"
DiscoverGraphicalSession == {s \in PickGraphicalSession : SessionBackend(s) = "x11"}

\* The user at the console; None: root's login window.
ActiveConsoleUID == {s \in logged : s = active}

\* The session on the screen, if a user has logged on to it.
ActiveSession == {s \in logged : s = active}

-----------------------------------------------------------------------------
(* SessionLocker.                                                          *)

Show == up' = TRUE /\ UNCHANGED handle

\* The loop is cancelled and the overlay the service knows is killed.
Hide ==
  /\ up' = FALSE /\ handle' = None
  /\ overlay' = IF up /\ handle # None
                THEN [overlay EXCEPT ![handle] = Remains(handle, None)] ELSE overlay

Started(s) == [st |-> "starting", mine |-> TRUE, session |-> s, hash |-> None,
               typed |-> None, pending |-> FALSE]

\* The process may fail to start: then the next tick tries again.
Launch(procs, sessions) ==
  \/ /\ \E p \in {q \in Proc : procs[q] = None}, s \in sessions :
          /\ overlay' = [procs EXCEPT ![p] = Started(s)]
          /\ handle' = p
     /\ UNCHANGED up
  \/ overlay' = procs /\ handle' = None /\ UNCHANGED up

EnsureOverlayLinux ==
  /\ os = "linux" /\ up /\ handle = None
  /\ Launch(overlay, DiscoverGraphicalSession)

EnsureOverlayDarwin ==
  /\ os = "darwin" /\ up /\ handle = None
  /\ Launch(overlay, ActiveConsoleUID)

\* The handle is what the service asks for the process's end, and closes then.
OverlayAlive == handle # None /\ Living(handle)

EnsureOverlayWindows ==
  /\ os = "windows" /\ up /\ ~OverlayAlive
  /\ Launch(IF handle = None THEN overlay ELSE [overlay EXCEPT ![handle] = None], ActiveSession)

EnsureOverlay == EnsureOverlayLinux \/ EnsureOverlayDarwin \/ EnsureOverlayWindows

\* Asked for out of turn, it does nothing while the overlay is there.
Reassert ==
  \/ EnsureOverlay
  \/ /\ ~up \/ (handle # None /\ (os = "windows" => OverlayAlive))
     /\ UNCHANGED <<up, handle, overlay>>

\* The loop of a Show.  One that Hide cancelled may tick once more: it sees
\* what the locker is now.
EnsureLoop ==
  /\ running /\ EnsureOverlay
  /\ UNCHANGED <<os, running, lock, disk, desktop, count>>

\* Mutant of Wait: the handle is cleared whoever it is of.
WaitForgetsAny(p) ==
  /\ running /\ os # "windows"
  /\ overlay[p] # None /\ overlay[p].st = "ended"
  /\ handle' = None /\ overlay' = [overlay EXCEPT ![p] = None]
  /\ UNCHANGED <<os, running, lock, up, disk, desktop, count>>

\* The goroutine that waits for one child: it forgets that child only.
Wait(p) ==
  /\ running /\ os # "windows"
  /\ overlay[p] # None /\ overlay[p].st = "ended"
  /\ handle' = IF handle = p THEN None ELSE handle
  /\ overlay' = [overlay EXCEPT ![p] = None]
  /\ UNCHANGED <<os, running, lock, up, disk, desktop, count>>

-----------------------------------------------------------------------------
(* lock.Manager: what it does to the file and to the screen.               *)

\* Another lock may replace the one that holds: the overlay stays.
Lock(h) ==
  /\ running /\ locks < MaxLocks /\ h # lock
  /\ locks' = locks + 1 /\ UNCHANGED <<acts, faults, crashes>>
  /\ lock' = h /\ file' = h /\ Show
  /\ UNCHANGED <<os, running, requests, desktop, overlay>>

\* The lock goes and the screen with it, whether the file is written or not.
UnlockLocked ==
  /\ lock' = Open /\ Hide
  /\ \/ file' = Open /\ NoFault
     \/ file' = file /\ Fault

Unlock ==
  /\ running /\ lock # Open /\ UnlockLocked
  /\ UNCHANGED <<os, running, requests, desktop>>

\* A request is used up whatever comes of it, read or not.
ProcessUnlockRequests(w) ==
  /\ running /\ w \in requests /\ requests' = requests \ {w}
  /\ \/ w = lock /\ UnlockLocked
     \/ w # lock /\ UNCHANGED <<lock, up, handle, overlay, file>> /\ NoFault
     \/ UNCHANGED <<lock, up, handle, overlay, file>> /\ Fault
  /\ UNCHANGED <<os, running, desktop>>

\* The file was edited: it is written again and the screen looked after.
DetectOfflineUnlock ==
  /\ running /\ lock # Open /\ file = Open
  /\ \/ file' = lock /\ NoFault
     \/ UNCHANGED file /\ Fault
  /\ Reassert
  /\ UNCHANGED <<os, running, lock, requests, desktop>>

\* The overlays are processes of their own: some die with the service (a
\* system that kills its group), the others are nobody's children.
Crash ==
  /\ running /\ crashes < MaxCrashes
  /\ crashes' = crashes + 1 /\ UNCHANGED <<locks, acts, faults>>
  /\ running' = FALSE /\ lock' = Open /\ up' = FALSE /\ handle' = None
  /\ \E dead \in SUBSET {p \in Proc : Living(p)} :
       overlay' = [p \in Proc |-> IF Living(p) /\ p \notin dead
                                THEN [overlay[p] EXCEPT !.mine = FALSE] ELSE None]
  /\ UNCHANGED <<os, disk, desktop>>

Load ==
  /\ ~running /\ running' = TRUE
  /\ lock' = IF file \in Password THEN file ELSE Open
  /\ IF file \in Password THEN Show ELSE UNCHANGED <<up, handle>>
  /\ UNCHANGED <<os, disk, desktop, overlay, count>>

-----------------------------------------------------------------------------
(* The overlay process.                                                    *)

Exits(p) == End(p) /\ UNCHANGED <<os, service, disk, desktop, count>>

Others(p) == {q \in Proc \ {p} : Shown(q)}
Alone(p)  == \A q \in Others(p) : overlay[q].session # overlay[p].session

\* A lock file in the user's runtime directory.
OneForTheUser(p) == {Alone(p)}

\* A mutex of the machine, which another user's process may be unable to open:
\* it shows its window then.
OneForTheMachine(p) == {Alone(p)} \cup (IF Others(p) = {} THEN {} ELSE {FALSE})

\* On macOS nothing keeps two windows apart.
SingleInstance(p) == CASE os = "linux"   -> OneForTheUser(p)
                       [] os = "windows" -> OneForTheMachine(p)
                       [] OTHER          -> {TRUE}

Run(p) ==
  /\ overlay[p] # None /\ overlay[p].st = "starting"
  /\ \E only \in SingleInstance(p) :
       \/ /\ file \in Password /\ only
          /\ overlay' = [overlay EXCEPT ![p].st = "shown", ![p].hash = file]
          /\ UNCHANGED <<os, service, disk, desktop, count>>
       \/ (file \in Password => ~only) /\ Exits(p)

\* No keyboard, no window: the process gives up and the loop starts another.
SetupFails(p) ==
  /\ overlay[p] # None /\ overlay[p].st = "starting"
  /\ Fault /\ End(p) /\ UNCHANGED <<os, service, disk, desktop>>

\* While a request is being answered the field is frozen (macOS has no wait).
HandleKey(p, w) ==
  /\ Shown(p) /\ ~overlay[p].pending /\ overlay[p].typed # w
  /\ overlay' = [overlay EXCEPT ![p].typed = w]
  /\ UNCHANGED <<os, service, disk, desktop, count>>

\* Linux and Windows compare with the file as it is now, not as it was when
\* the window came up; a file that cannot be read keeps the screen.
Compare(p, unsent) ==
  /\ Shown(p) /\ overlay[p].typed # None /\ ~overlay[p].pending
  /\ \/ file = Open /\ Exits(p)
     \/ /\ file \in Password /\ file # overlay[p].typed
        /\ overlay' = [overlay EXCEPT ![p].typed = None]
        /\ UNCHANGED <<os, service, disk, desktop, count>>
     \/ /\ file = overlay[p].typed /\ requests' = requests \cup {file} /\ NoFault
        /\ overlay' = [overlay EXCEPT ![p].typed = None, ![p].pending = TRUE]
        /\ UNCHANGED <<os, service, file, desktop>>
     \/ /\ file = overlay[p].typed /\ Fault
        /\ overlay' = [overlay EXCEPT ![p].typed = unsent]
        /\ UNCHANGED <<os, service, disk, desktop>>

\* When the request cannot be written, Windows leaves what was typed.
SubmitLinux(p)   == os = "linux" /\ Compare(p, None)
SubmitWindows(p) == os = "windows" /\ Compare(p, overlay[p].typed)

\* macOS: the password of the lock the window came up for takes the window
\* away, whether the request was written or not.
LockuiVerify(p) ==
  /\ os = "darwin" /\ Shown(p) /\ overlay[p].typed # None
  /\ \/ /\ overlay[p].typed = overlay[p].hash
        /\ \/ requests' = requests \cup {overlay[p].hash} /\ NoFault
           \/ UNCHANGED requests /\ Fault
        /\ End(p)
     \/ /\ overlay[p].typed # overlay[p].hash
        /\ overlay' = [overlay EXCEPT ![p].typed = None] /\ NoFault /\ UNCHANGED requests
  /\ UNCHANGED <<os, service, file, desktop>>

\* Every second, on Linux and Windows: the file alone closes the window, and
\* a request nobody answered gives the field back.
Watchdog(p) ==
  /\ os # "darwin" /\ Shown(p)
  /\ \/ file = Open /\ Exits(p)
     \/ /\ file # Open /\ overlay[p].pending
        /\ overlay' = [overlay EXCEPT ![p].pending = FALSE]
        /\ UNCHANGED <<os, service, disk, desktop, count>>

-----------------------------------------------------------------------------
(* The user.                                                               *)

LogIn(s) ==
  /\ s \notin logged /\ Act
  /\ logged' = logged \cup {s} /\ active' = s
  /\ UNCHANGED <<os, service, disk, overlay>>

SwitchTo(s) ==
  /\ s \in logged \cup {None} /\ s # active /\ Act
  /\ active' = s /\ UNCHANGED <<os, service, disk, logged, overlay>>

\* The session's processes end with it.
LogOut(s) ==
  /\ s \in logged /\ Act
  /\ logged' = logged \ {s} /\ active' = IF active = s THEN None ELSE active
  /\ overlay' = [p \in Proc |-> IF Living(p) /\ overlay[p].session = s
                               THEN Remains(p, handle) ELSE overlay[p]]
  /\ UNCHANGED <<os, service, disk>>

Kill(p) == Living(p) /\ Act /\ End(p) /\ UNCHANGED <<os, service, disk, desktop>>

\* lock.json lies in a directory the user may write to.
EditFile(f) ==
  /\ f \in {Open, Bad} /\ f # file /\ Act
  /\ file' = f /\ UNCHANGED <<os, service, requests, desktop, overlay>>

Next ==
  \/ \E h \in Password : Lock(h)
  \/ Unlock \/ DetectOfflineUnlock \/ EnsureLoop \/ Crash \/ Load
  \/ \E w \in Password : ProcessUnlockRequests(w)
  \/ \E p \in Proc : Wait(p) \/ Run(p) \/ SetupFails(p) \/ SubmitLinux(p) \/ SubmitWindows(p)
                     \/ LockuiVerify(p) \/ Watchdog(p) \/ Kill(p)
  \/ \E p \in Proc, w \in Password : HandleKey(p, w)
  \/ \E s \in Session \cup {None} : SwitchTo(s)
  \/ \E s \in Session : LogIn(s) \/ LogOut(s)
  \/ \E f \in {Open, Bad} : EditFile(f)

Spec == Init /\ [][Next]_vars

-----------------------------------------------------------------------------
(* Properties.                                                             *)

\* Every overlay this life of the service started and that still runs is the
\* one it holds: whatever the order of Show, Hide, the loop's ticks, a killed
\* overlay and the goroutines that wait for the earlier ones, Hide can take
\* the screen away, and nothing is on it once the locker is down
\* (locker_session_linux.go ensureOverlay and its Wait, Hide).
OverlaysAreKnown == \A p \in Proc : Living(p) /\ overlay[p].mine => up /\ handle = p

=============================================================================
