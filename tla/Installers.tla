----------------------------- MODULE Installers -----------------------------
(***************************************************************************)
(* How the desktop app puts executables in their place: the providers it   *)
(* downloads (install_provider in commands.rs, provider_installer.rs) and  *)
(* its own update (commands.rs; on Windows tunnelmux-updater.rs, which     *)
(* replaces the files once the app is gone). Several commands may be under *)
(* way at once, any step on the disk may fail, and the app may be ended    *)
(* between two of them. The files are not synced: a crash of the whole     *)
(* machine is not modelled.                                                *)
(*                                                                         *)
(* A file is not there, partly written, or holds what it was given: a tool *)
(* that is good or not what the manifest says, an old or a new binary.     *)
(***************************************************************************)
EXTENDS Naturals, FiniteSets

CONSTANTS
  Tools,        \* the providers' tools, named by their binaries
  OnPath,       \* those that the system has anyway
  Jobs,         \* commands about the tools, each with the task it spawns
  Binaries,     \* the app's own executables
  Updates,      \* commands that update the app
  Systems,      \* "unix" and "windows"
  MaxMishaps    \* bound on failures, interruptions and refused downloads

ASSUME InstallersAssumption ==
  OnPath \subseteq Tools /\ Systems \subseteq {"unix", "windows"} /\ MaxMishaps \in Nat

VARIABLES
  live,       \* GuiAppState::provider_install_statuses
  saved,      \* provider-install-statuses.json
  tools,      \* by tool: the stable file, its .tmp, the one of the version
  jobs,
  update,     \* by command, and on Windows the helper that ends it
  unpacked,   \* the directory into which every update unpacks its archive
  own,        \* by binary: the file in its place, its .new and its .old
  system,
  up,         \* the app runs
  mishaps,
  unsaved,    \* history: tools whose install could not be noted when it began
  cut,        \* history: binaries whose replacement was cut short
  overlap     \* history: two updates were under way at once

installVars == <<live, saved, tools, jobs, unsaved>>
updateVars == <<update, unpacked, own, cut, overlap>>
installersVars == <<installVars, updateVars, system, up, mishaps>>

Gone == "gone"
States == {"none", "downloading", "failed", "installed"}

(***************************************************************************)
(* What the window shows.                                                  *)
(***************************************************************************)
(* resolve_provider_availability: the app's own tools, then the directories *)
(* of the PATH and the usual ones.                                          *)
InSearchDirs(t) == t \in OnPath
Detected(t) == tools[t].stable # Gone \/ InSearchDirs(t)

(* What the file says of t. A download that is not in this process any more *)
(* has been interrupted.                                                    *)
NormalizedStatus(t, statuses) ==
  CASE Detected(t) -> "none"
    [] statuses[t] \in {"downloading", "failed"} -> "failed"
    [] OTHER -> "none"

Shown(t) == IF live[t] # "none" THEN live[t] ELSE NormalizedStatus(t, saved)

(***************************************************************************)
(* install_provider. The file of statuses is read before the lock is taken *)
(* and written after it is left.                                           *)
(***************************************************************************)
NoJob == [at |-> "idle", tool |-> "", read |-> [t \in Tools |-> "none"],
          good |-> TRUE, ends |-> "installed"]

Mishap == mishaps < MaxMishaps /\ mishaps' = mishaps + 1

JobAt(j, place) == up /\ jobs[j].at = place
JobGoes(j, place) == jobs' = [jobs EXCEPT ![j].at = place]
JobEnds(j, as) == jobs' = [jobs EXCEPT ![j].at = "ended", ![j].ends = as]

(* Any step on the disk or the network may fail; the task then notes it. *)
JobFails(j) == Mishap /\ JobEnds(j, "failed")

SetTool(t, place, file) == tools' = [tools EXCEPT ![t][place] = file]

SaveStatuses(statuses) ==
  \/ saved' = statuses /\ UNCHANGED mishaps
  \/ Mishap /\ UNCHANGED saved

(* load_provider_availability_snapshot: what is shown is written back. *)
ShowTools(j) ==
  /\ JobAt(j, "idle") /\ jobs' = [jobs EXCEPT ![j].at = "shown", ![j].read = saved]
  /\ UNCHANGED <<live, saved, tools, unsaved, mishaps>>

WriteShown(j) ==
  /\ JobAt(j, "shown") /\ JobGoes(j, "idle")
  /\ SaveStatuses([t \in Tools |-> NormalizedStatus(t, jobs[j].read)])
  /\ UNCHANGED <<live, tools, unsaved>>

InstallAsk(j, t) ==
  /\ JobAt(j, "idle")
  /\ jobs' = [jobs EXCEPT ![j] = [NoJob EXCEPT !.at = "asked", !.tool = t, !.read = saved]]
  /\ UNCHANGED <<live, saved, tools, unsaved, mishaps>>

InstallClaim_Twice(j) ==
  /\ JobAt(j, "asked")
  /\ live' = [live EXCEPT ![jobs[j].tool] = "downloading"] /\ JobGoes(j, "claimed")
  /\ UNCHANGED <<saved, tools, unsaved, mishaps>>

(* One download of a tool at a time. *)
InstallClaim(j) ==
  LET t == jobs[j].tool IN
  /\ JobAt(j, "asked")
  /\ IF live[t] = "downloading"
       THEN JobGoes(j, "idle") /\ UNCHANGED live
       ELSE JobGoes(j, "claimed") /\ live' = [live EXCEPT ![t] = "downloading"]
  /\ UNCHANGED <<saved, tools, unsaved, mishaps>>

(* When the statuses cannot be saved there is no task, and the one in       *)
(* memory stays.                                                            *)
InstallSave(j) ==
  LET t == jobs[j].tool IN
  /\ JobAt(j, "claimed")
  /\ \/ /\ saved' = [jobs[j].read EXCEPT ![t] = "downloading"]
        /\ JobGoes(j, "download") /\ UNCHANGED <<unsaved, mishaps>>
     \/ Mishap /\ unsaved' = unsaved \union {t} /\ JobGoes(j, "idle") /\ UNCHANGED saved
  /\ UNCHANGED <<live, tools>>

InstallDownload(j) ==
  /\ JobAt(j, "download")
  /\ \/ JobGoes(j, "downloaded") /\ UNCHANGED mishaps
     \/ Mishap /\ jobs' = [jobs EXCEPT ![j].at = "downloaded", ![j].good = FALSE]
     \/ JobFails(j)
  /\ UNCHANGED <<live, saved, tools, unsaved>>

(* The checksum of the archive, and its unpacking into a directory of its   *)
(* own under .tmp.                                                          *)
InstallExtract(j) ==
  /\ JobAt(j, "downloaded")
  /\ \/ jobs[j].good /\ JobGoes(j, "extracted") /\ UNCHANGED mishaps
     \/ ~jobs[j].good /\ JobEnds(j, "failed") /\ UNCHANGED mishaps
     \/ JobFails(j)
  /\ UNCHANGED <<live, saved, tools, unsaved>>

(* The directory takes the place of the version's old one. *)
InstallPromote(j) ==
  /\ JobAt(j, "extracted")
  /\ \/ /\ SetTool(jobs[j].tool, "version", IF jobs[j].good THEN "good" ELSE "bad")
        /\ JobGoes(j, "promoted") /\ UNCHANGED mishaps
     \/ SetTool(jobs[j].tool, "version", Gone) /\ JobFails(j)
  /\ UNCHANGED <<live, saved, unsaved>>

InstallCopy(j) ==
  /\ JobAt(j, "promoted")
  /\ \/ SetTool(jobs[j].tool, "tmp", "partial") /\ JobGoes(j, "copying") /\ UNCHANGED mishaps
     \/ JobFails(j) /\ UNCHANGED tools
  /\ UNCHANGED <<live, saved, unsaved>>

InstallCopied(j) ==
  LET t == jobs[j].tool IN
  /\ JobAt(j, "copying")
  /\ \/ tools[t].tmp # Gone /\ SetTool(t, "tmp", tools[t].version)
        /\ JobGoes(j, "copied") /\ UNCHANGED mishaps
     \/ tools[t].tmp = Gone /\ JobEnds(j, "failed") /\ UNCHANGED <<tools, mishaps>>
     \/ JobFails(j) /\ UNCHANGED tools
  /\ UNCHANGED <<live, saved, unsaved>>

(* The old tool is removed and the new one renamed into its place. *)
InstallRemove(j) ==
  /\ JobAt(j, "copied")
  /\ \/ SetTool(jobs[j].tool, "stable", Gone) /\ JobGoes(j, "removed") /\ UNCHANGED mishaps
     \/ JobFails(j) /\ UNCHANGED tools
  /\ UNCHANGED <<live, saved, unsaved>>

InstallPut(j) ==
  LET t == jobs[j].tool IN
  /\ JobAt(j, "removed")
  /\ \/ /\ tools[t].tmp # Gone
        /\ tools' = [tools EXCEPT ![t].stable = tools[t].tmp, ![t].tmp = Gone]
        /\ JobEnds(j, "installed") /\ UNCHANGED mishaps
     \/ tools[t].tmp = Gone /\ JobEnds(j, "failed") /\ UNCHANGED <<tools, mishaps>>
     \/ JobFails(j) /\ UNCHANGED tools
  /\ UNCHANGED <<live, saved, unsaved>>

(* The end is noted in memory, and then in the file as it is found. *)
InstallNote(j) ==
  /\ JobAt(j, "ended")
  /\ live' = [live EXCEPT ![jobs[j].tool] = jobs[j].ends] /\ JobGoes(j, "noted")
  /\ UNCHANGED <<saved, tools, unsaved, mishaps>>

InstallReread(j) ==
  /\ JobAt(j, "noted")
  /\ jobs' = [jobs EXCEPT ![j].at = "reread", ![j].read = saved]
  /\ UNCHANGED <<live, saved, tools, unsaved, mishaps>>

InstallWrite(j) ==
  LET end == IF jobs[j].ends = "installed" THEN "none" ELSE "failed" IN
  /\ JobAt(j, "reread") /\ JobGoes(j, "idle")
  /\ SaveStatuses([jobs[j].read EXCEPT ![jobs[j].tool] = end])
  /\ UNCHANGED <<live, tools, unsaved>>

InstallStep(j) ==
  /\ \/ InstallClaim(j) \/ InstallSave(j) \/ InstallDownload(j) \/ InstallExtract(j)
     \/ InstallPromote(j) \/ InstallCopy(j) \/ InstallCopied(j) \/ InstallRemove(j)
     \/ InstallPut(j) \/ InstallNote(j) \/ InstallReread(j) \/ InstallWrite(j)
     \/ ShowTools(j) \/ WriteShown(j) \/ \E t \in Tools : InstallAsk(j, t)
  /\ UNCHANGED <<updateVars, system, up>>

(***************************************************************************)
(* The update of the app, from the offer of a release with a checksummed    *)
(* asset for this system. Nothing keeps a second one from beginning. On     *)
(* unix the app replaces its binaries itself; on Windows it stages them and *)
(* starts a helper, which waits for the app's end.                          *)
(***************************************************************************)
NoUpdate == [at |-> "idle", done |-> {}, binary |-> "", payload |-> "new"]
InApp == {"idle", "offered", "unpacking"}

UpdateAt(w, place) == update[w].at = place /\ UNCHANGED <<system, up, installVars>>
UpdateGoes(w, place) == update' = [update EXCEPT ![w].at = place]
UpdateEnds(w) == update' = [update EXCEPT ![w] = NoUpdate]

(* What is read from the directory: while another update unpacks into it,   *)
(* or has failed to, perhaps half a file.                                   *)
Unpacked == IF unpacked = "new" THEN {"new"} ELSE {"new", "partial"}

(* The release's manifest, or GitHub's list and its SHA256SUMS. *)
UpdateCheck(w) ==
  /\ up /\ UpdateAt(w, "idle") /\ UpdateGoes(w, "offered")
  /\ UNCHANGED <<unpacked, own, cut, overlap, mishaps>>

(* Downloaded, compared with its checksum, and the directory made anew. *)
UpdateUnpack(w) ==
  /\ up /\ UpdateAt(w, "offered")
  /\ \/ /\ UpdateGoes(w, "unpacking") /\ unpacked' = "partial" /\ UNCHANGED mishaps
        /\ overlap' = (overlap \/ \E v \in Updates \ {w} : update[v].at \notin {"idle", "offered"})
     \/ Mishap /\ UpdateEnds(w) /\ UNCHANGED <<unpacked, overlap>>
  /\ UNCHANGED <<own, cut>>

UpdateUnpacked(w) ==
  /\ up /\ UpdateAt(w, "unpacking")
  /\ \/ /\ unpacked' = IF \E v \in Updates \ {w} : update[v].at = "unpacking"
                         THEN "partial" ELSE "new"
        /\ IF system = "unix" THEN UpdateGoes(w, "next") ELSE UpdateGoes(w, "staging")
        /\ UNCHANGED mishaps
     \/ Mishap /\ UpdateEnds(w) /\ UNCHANGED unpacked
  /\ UNCHANGED <<own, cut, overlap>>

(* stage_windows_update, and the helper is on its way. *)
UpdateStage(w) ==
  /\ up /\ UpdateAt(w, "staging")
  /\ \/ /\ \E file \in Unpacked :
             update' = [update EXCEPT ![w].at = "staged", ![w].payload = file]
        /\ UNCHANGED mishaps
     \/ Mishap /\ UpdateEnds(w)
  /\ UNCHANGED <<unpacked, own, cut, overlap>>

(* wait_for_process_exit gives up after two minutes. *)
HelperGivesUp(w) ==
  /\ UpdateAt(w, "staged") /\ UpdateEnds(w)
  /\ UNCHANGED <<unpacked, own, cut, overlap, mishaps>>

(* install_one_binary and replace_file: first a copy next to the file. The  *)
(* helper clears away an earlier one and the backup before.                 *)
UpdateCopy(w, b) ==
  /\ UpdateAt(w, "next") /\ b \in Binaries \ update[w].done
  /\ update' = [update EXCEPT ![w].at = "copying", ![w].binary = b]
  /\ own' = [own EXCEPT ![b].fresh = "partial",
                        ![b].backup = IF system = "windows" THEN Gone ELSE @]
  /\ UNCHANGED <<unpacked, cut, overlap, mishaps>>

(* The copy may have been renamed meanwhile, by another update. *)
UpdateCopied(w) ==
  LET b == update[w].binary IN
  /\ UpdateAt(w, "copying")
  /\ \/ /\ own[b].fresh # Gone /\ UpdateGoes(w, "copied") /\ UNCHANGED mishaps
        /\ \E file \in IF system = "unix" THEN Unpacked ELSE {update[w].payload} :
             own' = [own EXCEPT ![b].fresh = file]
     \/ /\ own[b].fresh = Gone /\ UpdateEnds(w) /\ UNCHANGED mishaps
        /\ own' = [own EXCEPT ![b].place = IF @ = "partial" THEN "new" ELSE @]
     \/ Mishap /\ UpdateEnds(w) /\ UNCHANGED own
  /\ UNCHANGED <<unpacked, cut, overlap>>

(* On unix the copy replaces the file in one step; the helper keeps the old *)
(* file as a backup, and puts it back when it cannot rename the new one.    *)
UpdateBackup(w) ==
  LET b == update[w].binary IN
  /\ UpdateAt(w, "copied") /\ system = "windows"
  /\ \/ /\ UpdateGoes(w, "backed up") /\ UNCHANGED mishaps
        /\ own' = IF own[b].place = Gone THEN own
                  ELSE [own EXCEPT ![b].backup = own[b].place, ![b].place = Gone]
     \/ Mishap /\ UpdateEnds(w) /\ UNCHANGED own
  /\ UNCHANGED <<unpacked, cut, overlap>>

UpdateRename(w) ==
  LET b == update[w].binary
      all == update[w].done \union {b}
  IN
  /\ UpdateAt(w, IF system = "unix" THEN "copied" ELSE "backed up")
  /\ own[b].fresh # Gone
  /\ own' = [own EXCEPT ![b].place = own[b].fresh, ![b].fresh = Gone,
                        ![b].backup = IF system = "windows" THEN Gone ELSE @]
  /\ update' = [update EXCEPT ![w] =
       IF all = Binaries THEN NoUpdate ELSE [@ EXCEPT !.at = "next", !.done = all]]
  /\ UNCHANGED <<unpacked, cut, overlap, mishaps>>

(* The copy is removed; putting the backup back may fail too. *)
PutBack(w) ==
  LET b == update[w].binary IN
  \/ /\ own' = [own EXCEPT ![b].fresh = Gone,
          ![b].place = IF own[b].backup # Gone THEN own[b].backup ELSE @, ![b].backup = Gone]
     /\ UNCHANGED cut
  \/ own' = [own EXCEPT ![b].fresh = Gone] /\ cut' = cut \union {b}

UpdateRenameFails(w) ==
  /\ UpdateAt(w, IF system = "unix" THEN "copied" ELSE "backed up") /\ UpdateEnds(w)
  /\ IF own[update[w].binary].fresh = Gone THEN UNCHANGED mishaps ELSE Mishap
  /\ IF system = "unix" THEN UNCHANGED <<own, cut>> ELSE PutBack(w)
  /\ UNCHANGED <<unpacked, overlap>>

UpdateStep(w) ==
  \/ UpdateCheck(w) \/ UpdateUnpack(w) \/ UpdateUnpacked(w) \/ UpdateStage(w)
  \/ HelperGivesUp(w) \/ UpdateCopied(w) \/ UpdateBackup(w) \/ UpdateRename(w)
  \/ UpdateRenameFails(w) \/ \E b \in Binaries : UpdateCopy(w, b)

(***************************************************************************)
(* The app ends with its tasks and its memory; a helper then begins. The    *)
(* end of the session ends the helpers too.                                 *)
(***************************************************************************)
AppGone ==
  /\ Mishap /\ up' = FALSE
  /\ live' = [t \in Tools |-> "none"] /\ jobs' = [j \in Jobs |-> NoJob] /\ unsaved' = {}
  /\ UNCHANGED <<saved, tools, unpacked, own, overlap, system>>

QuitApp ==
  /\ up /\ AppGone /\ UNCHANGED cut
  /\ update' = [w \in Updates |->
       CASE system = "unix" \/ update[w].at \in InApp \union {"staging"} -> NoUpdate
         [] update[w].at = "staged" -> [update[w] EXCEPT !.at = "next"]
         [] OTHER -> update[w]]

EndSession ==
  /\ AppGone /\ update' = [w \in Updates |-> NoUpdate]
  /\ cut' = cut \union {update[w].binary : w \in {v \in Updates : update[v].at = "backed up"}}

LaunchApp == ~up /\ up' = TRUE /\ UNCHANGED <<installVars, updateVars, system, mishaps>>

InstallersInit ==
  /\ live = [t \in Tools |-> "none"] /\ saved = [t \in Tools |-> "none"]
  /\ tools \in [Tools -> [stable : {Gone, "good"}, tmp : {Gone}, version : {Gone}]]
  /\ jobs = [j \in Jobs |-> NoJob]
  /\ update = [w \in Updates |-> NoUpdate] /\ unpacked = "partial" /\ system \in Systems
  /\ own = [b \in Binaries |-> [place |-> "old", fresh |-> Gone, backup |-> Gone]]
  /\ up = TRUE /\ mishaps = 0 /\ unsaved = {} /\ cut = {} /\ overlap = FALSE

InstallersNext ==
  \/ \E j \in Jobs : InstallStep(j)
  \/ \E w \in Updates : UpdateStep(w)
  \/ QuitApp \/ EndSession \/ LaunchApp

InstallersSpec == InstallersInit /\ [][InstallersNext]_installersVars

(***************************************************************************)
(* Properties.                                                             *)
(***************************************************************************)
Files == {Gone, "partial", "good", "bad", "old", "new"}

InstallersTypeOK ==
  /\ live \in [Tools -> States] /\ saved \in [Tools -> States]
  /\ tools \in [Tools -> [stable : Files, tmp : Files, version : Files]]
  /\ own \in [Binaries -> [place : Files, fresh : Files, backup : Files]]
  /\ \A w \in Updates : update[w].done \subseteq Binaries
  /\ unsaved \subseteq Tools /\ cut \subseteq Binaries /\ overlap \in BOOLEAN
  /\ up \in BOOLEAN /\ system \in Systems /\ mishaps \in 0 .. MaxMishaps

(* What is started from the place of a tool is never half a file or an      *)
(* unverified one, whatever fails and whoever installs at the same time. A  *)
(* tool is shown as downloading only while it is, unless its install could  *)
(* not be noted when it began. And as long as updates do not overlap, a     *)
(* binary of the app is in its place, old or new, but between the two       *)
(* renames of the Windows helper, or when these were cut short              *)
(* (install_provider, install_provider_from_bytes, replace_file).           *)
ExecutablesWhole ==
  /\ \A t \in Tools : tools[t].stable \in {Gone, "good"}
  /\ \A t \in Tools : Shown(t) = "downloading" =>
       \/ t \in unsaved
       \/ \E j \in Jobs : /\ jobs[j].tool = t
                          /\ jobs[j].at \notin {"idle", "shown", "asked", "noted", "reread"}
  /\ \A b \in Binaries :
       \/ own[b].place \in {"old", "new"} \/ overlap
       \/ /\ own[b].place = Gone
          /\ b \in cut \/ \E w \in Updates : update[w].at = "backed up" /\ update[w].binary = b
=============================================================================
