------------------------------ MODULE SelfUpdate ------------------------------
(***************************************************************************)
(* The agent's own update, from the release to the restart:                *)
(*   - publishing a build into a channel (cmd/publish-release, releases.go)*)
(*     and the manifest a device is offered (update_manifest.go, channels. *)
(*     go, agentVersion);                                                  *)
(*   - the updater: confirming the version that runs, the floor below which*)
(*     nothing is taken, waiting for a screen session to end, download and *)
(*     verification (selfupdate.go, hold.go), and the replacement of the   *)
(*     executable, in two renames on Windows and one elsewhere;            *)
(*   - the supervisor that starts whatever executable is there, and the    *)
(*     operator who puts one back or installs another.                     *)
(* A file is <<version, build>>; a "junk" build passes the guards of       *)
(* publish-release and does not start.  One platform and one device.       *)
(***************************************************************************)
EXTENDS Integers

CONSTANTS
  MaxVersion,            \* bound: versions are 1..MaxVersion, compared as semver
  MaxPublished, MaxHand, MaxFaults, \* bounds: publications, installations by hand, crashes and disk faults
  Gone                   \* no file

VARIABLES
  \* the server
  release,   \* agent_releases: channel and build (its sha256) of a version
  served,    \* the file under /downloads
  publishing, published,
  beta,      \* the device is in a group of the beta channel
  \* the device
  windows,
  exe, old,  \* the executable and the one an update pushed aside
  floor,     \* the file of the floor: 0 for none, "torn" for unreadable
  proc,      \* the version that runs, 0 for none
  pc, offer, \* the updater's step and the manifest it works on
  confirmed, applied, holding,
  hands, faults,
  \* history
  worked,    \* files that ran here or that an installer put
  best,      \* the newest version whose floor was saved and is still readable
  botched    \* a rollback of the renames failed

repo  == <<release, served, publishing, published, beta>>
disk  == <<windows, exe, old, floor>>
agent == <<proc, pc, offer, confirmed, applied, holding>>
count == <<hands, faults>>
past  == <<worked, best, botched>>
vars  == <<repo, disk, agent, count, past>>

Version == 1..MaxVersion
Build   == {"good", "junk", "rebuilt"}   \* "rebuilt": other bytes that start
Channel == {"stable", "beta"}
File    == Version \X Build
Idle    == [v |-> 0, build |-> "junk"]
Torn    == MaxVersion + 1

TypeOK ==
  /\ release \in [Version -> {Gone} \cup (Channel \X Build)] /\ served \in [Version -> {Gone} \cup Build]
  /\ publishing \in {Gone} \cup (Version \X Build \X Channel) /\ published \in 0..MaxPublished
  /\ beta \in BOOLEAN /\ windows \in BOOLEAN
  /\ exe \in {Gone} \cup File /\ old \in {Gone} \cup File /\ floor \in 0..Torn
  /\ proc \in 0..MaxVersion /\ pc \in {"idle", "offered", "newer", "allowed", "verified", "moved", "stopping"}
  /\ offer \in [v : 0..MaxVersion, build : Build]
  /\ confirmed \in BOOLEAN /\ applied \in 0..MaxVersion /\ holding \in BOOLEAN
  /\ hands \in 0..MaxHand /\ faults \in 0..MaxFaults
  /\ worked \subseteq File /\ best \in 0..MaxVersion /\ botched \in BOOLEAN

\* An agent installed and running version 1.
Init ==
  /\ release = [v \in Version |-> Gone] /\ served = [v \in Version |-> Gone]
  /\ publishing = Gone /\ published = 0 /\ beta \in BOOLEAN
  /\ windows \in BOOLEAN /\ exe = <<1, "good">> /\ old = Gone /\ floor = 0
  /\ proc = 1 /\ pc = "idle" /\ offer = Idle /\ confirmed = FALSE /\ applied = 0 /\ holding = FALSE
  /\ hands = 0 /\ faults = 0
  /\ worked = {<<1, "good">>} /\ best = 0 /\ botched = FALSE

Newest(a, b) == IF a > b THEN a ELSE b

-----------------------------------------------------------------------------
(* The server.                                                             *)

\* publish-release writes the file, and then registers it.
PublishWrites(v, b, ch) ==
  /\ publishing = Gone /\ published < MaxPublished
  /\ served' = [served EXCEPT ![v] = b]
  /\ publishing' = <<v, b, ch>> /\ published' = published + 1
  /\ UNCHANGED <<release, beta, disk, agent, count, past>>

\* A registered version keeps its build; the same build changes its channel.
RegisterAgentRelease ==
  /\ publishing # Gone
  /\ LET v == publishing[1]
         b == publishing[2]
     IN  release' = IF release[v] = Gone \/ release[v][2] = b
                    THEN [release EXCEPT ![v] = <<publishing[3], b>>] ELSE release
  /\ publishing' = Gone
  /\ UNCHANGED <<served, published, beta, disk, agent, count, past>>

ResolveDeviceUpdateChannel ==   \* what the operator makes of it
  /\ beta' = ~beta
  /\ UNCHANGED <<release, served, publishing, published, disk, agent, count, past>>

Visible(ch) == {v \in Version : release[v] # Gone /\ (ch = "beta" \/ release[v][1] = "stable")}

\* GetLatestAgentReleaseForChannel: the newest by version, not by time.
Latest(ch) == {v \in Visible(ch) : \A w \in Visible(ch) : w <= v}

-----------------------------------------------------------------------------
(* The updater.                                                            *)

Goes(step) == pc' = step /\ UNCHANGED <<proc, offer, confirmed, applied, holding>>
GivesUp == pc' = "idle" /\ offer' = Idle /\ UNCHANGED <<proc, confirmed, applied, holding>>

\* fetchManifest: by the device's channel and, when that fails, the stable one
\* everybody is offered.
FetchManifest(ch) ==
  /\ proc # 0 /\ pc = "idle" /\ ch \in {"stable", IF beta THEN "beta" ELSE "stable"}
  /\ \E v \in Latest(ch) : offer' = [v |-> v, build |-> release[v][2]]
  /\ pc' = "offered"
  /\ UNCHANGED <<repo, disk, proc, confirmed, applied, holding, count, past>>

\* confirmRunning: an answer came, so this version works.  The floor rises to
\* it, unless it is higher; an unreadable one is replaced; .old is dropped.
ConfirmRunning(saved) ==
  IF confirmed THEN UNCHANGED <<floor, old, best>>
  ELSE /\ floor' = IF saved /\ (floor = Torn \/ floor < proc) THEN proc ELSE floor
       /\ best' = IF saved /\ floor' = proc THEN Newest(best, proc) ELSE best
       /\ old' = IF windows THEN Gone ELSE old

\* Mutant of Baseline: the floor is not read.
BaselineInMemory == Newest(proc, applied)

Baseline == Newest(Newest(proc, IF floor' = Torn THEN 0 ELSE floor'), applied)

Compare(saved) ==
  /\ pc = "offered"
  /\ ConfirmRunning(saved) /\ confirmed' = TRUE
  /\ IF offer.v > Baseline THEN pc' = "newer" /\ UNCHANGED offer ELSE pc' = "idle" /\ offer' = Idle
  /\ faults' = IF saved THEN faults ELSE faults + 1
  /\ faults' <= MaxFaults
  /\ UNCHANGED <<repo, windows, exe, proc, applied, holding, hands, worked, botched>>

\* The process dies in the middle of writing the floor.
DiesWhileSaving ==
  /\ pc = "offered" /\ ~confirmed /\ (floor = Torn \/ floor < proc)
  /\ faults < MaxFaults /\ faults' = faults + 1
  /\ floor' = Torn /\ best' = 0
  /\ proc' = 0 /\ pc' = "idle" /\ offer' = Idle /\ confirmed' = FALSE /\ applied' = 0
  /\ UNCHANGED <<repo, windows, exe, old, holding, hands, worked, botched>>

\* A screen session starts or ends.
Hold ==
  /\ proc # 0 /\ holding' = ~holding
  /\ UNCHANGED <<repo, disk, proc, pc, offer, confirmed, applied, count, past>>

\* applyAllowed: a session puts the update off, up to a cap, then it is asked
\* to end and given a grace; it is the end of it that lets the update go on.
ApplyAllowed ==
  /\ pc = "newer"
  /\ IF holding THEN GivesUp ELSE Goes("allowed")
  /\ UNCHANGED <<repo, disk, count, past>>

\* Download and verify: the file there now against the manifest read before.
Verify ==
  /\ pc = "allowed"
  /\ IF served[offer.v] = offer.build THEN Goes("verified") ELSE GivesUp
  /\ UNCHANGED <<repo, disk, count, past>>

\* A step of the update fails, and the next check starts again.
Fails ==
  /\ pc \in {"offered", "newer", "allowed", "verified"} /\ faults < MaxFaults
  /\ faults' = faults + 1
  /\ GivesUp
  /\ UNCHANGED <<repo, disk, hands, past>>

Applied ==
  /\ applied' = offer.v /\ pc' = "stopping" /\ offer' = Idle
  /\ UNCHANGED <<proc, confirmed, holding>>

Replace ==   \* elsewhere than on Windows: one rename
  /\ pc = "verified" /\ ~windows
  /\ exe' = <<offer.v, offer.build>>
  /\ Applied
  /\ UNCHANGED <<repo, windows, old, floor, count, past>>

\* Windows: the .old of the last update is removed and the executable, if it
\* is there, takes its name.
MoveAside ==
  /\ pc = "verified" /\ windows
  /\ old' = exe /\ exe' = Gone
  /\ IF exe = Gone THEN GivesUp ELSE Goes("moved")
  /\ UNCHANGED <<repo, windows, floor, count, past>>

\* Mutant of PutNew: .old is removed before the new version has run.
PutNewTidily ==
  /\ pc = "moved"
  /\ exe' = <<offer.v, offer.build>> /\ old' = Gone
  /\ Applied
  /\ UNCHANGED <<repo, windows, floor, count, past>>

PutNew ==
  /\ pc = "moved"
  /\ exe' = <<offer.v, offer.build>>
  /\ Applied
  /\ UNCHANGED <<repo, windows, old, floor, count, past>>

\* The new file cannot take the name: the old one takes it back, if it can.
PutBack(fails) ==
  /\ pc = "moved" /\ faults < MaxFaults
  /\ faults' = faults + 1
  /\ IF fails THEN botched' = TRUE /\ UNCHANGED <<exe, old>>
     ELSE exe' = old /\ old' = Gone /\ UNCHANGED botched
  /\ GivesUp
  /\ UNCHANGED <<repo, windows, floor, hands, worked, best>>

-----------------------------------------------------------------------------
(* The supervisor and the operator.                                        *)

Stops == proc' = 0 /\ pc' = "idle" /\ offer' = Idle /\ confirmed' = FALSE /\ applied' = 0 /\ holding' = FALSE

Exit ==
  /\ pc = "stopping"
  /\ Stops
  /\ UNCHANGED <<repo, disk, count, past>>

Crash ==
  /\ proc # 0 /\ faults < MaxFaults
  /\ faults' = faults + 1 /\ Stops
  /\ UNCHANGED <<repo, disk, hands, past>>

Start ==
  /\ proc = 0 /\ exe # Gone /\ exe[2] # "junk"
  /\ proc' = exe[1]
  /\ worked' = worked \cup {exe}
  /\ UNCHANGED <<repo, disk, pc, offer, confirmed, applied, holding, count, best, botched>>

\* What was pushed aside is put back by hand.
RestoreOld ==
  /\ proc = 0 /\ old # Gone /\ hands < MaxHand
  /\ hands' = hands + 1
  /\ exe' = old /\ old' = Gone
  /\ UNCHANGED <<repo, windows, floor, agent, faults, past>>

\* An installer stops the agent and puts a version that starts.
InstallByHand(v) ==
  /\ hands < MaxHand /\ hands' = hands + 1
  /\ exe' = <<v, "good">> /\ worked' = worked \cup {exe'}
  /\ Stops
  /\ UNCHANGED <<repo, windows, old, floor, faults, best, botched>>

-----------------------------------------------------------------------------
Next ==
  \/ \E v \in Version, b \in Build, ch \in Channel : PublishWrites(v, b, ch)
  \/ RegisterAgentRelease \/ ResolveDeviceUpdateChannel
  \/ \E ch \in Channel : FetchManifest(ch)
  \/ \E b \in BOOLEAN : Compare(b) \/ PutBack(b)
  \/ DiesWhileSaving \/ Hold \/ ApplyAllowed \/ Verify \/ Fails
  \/ Replace \/ MoveAside \/ PutNew
  \/ Exit \/ Crash \/ Start \/ RestoreOld
  \/ \E v \in Version : InstallByHand(v)

Spec == Init /\ [][Next]_vars

-----------------------------------------------------------------------------
\* After an update that does not start, the machine can be brought back: on
\* Windows a file that has worked here is there, as the executable or as .old
\* (unless the renames and their rollback both failed), and the floor is a
\* version that ran here, so that nothing holds the machine out of a version
\* it never saw work.
Recoverable ==
  /\ windows /\ ~botched => exe \in worked \/ old \in worked
  /\ floor \in {0, Torn} \/ \E f \in worked : f[1] = floor

\* The updater never goes back: whatever was installed by hand in between and
\* however old the manifest, it takes only what is newer than every version
\* it confirmed and recorded.
NeverBack   == applied' \notin {0, applied} => applied' > best
NoDowngrade == [][NeverBack]_vars
=============================================================================
