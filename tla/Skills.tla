-------------------------------- MODULE Skills --------------------------------
(* The skills of an agent: the files below the install root, the rows and scan *)
(* findings kept about them, and the in-memory record of their use.            *)
(* `skill sync` (its own process) installs what a registry lists; the service  *)
(* and the terminal install, update and remove files directly, under no lock    *)
(* and several at once; every task selects and lists what it finds on disk; a    *)
(* periodic sweep ages the rows. A package is a constant: its id and version,  *)
(* its status, where it is critical ("body", "head" or "no") and whether its   *)
(* front matter has a summary.                                                 *)
EXTENDS Naturals, Sequences, FiniteSets

CONSTANTS
  Packages,      \* package -> [id, ver, status, bad, summary]
  Dirs,          \* the directories below the install root, in walking order
  Sources,       \* source -> the packages it may serve
  OwnSkills,     \* the sets of <<id, version>> that may have the row of an agent's own skill at first
  Index,         \* the registry's items: [id, ver, pkg]
  Handlers,      \* the installations, updates and removals that may be in hand at once
  Scanning,      \* those of the service, whose disk manager has a scanner; the terminal's has none
  MaxSkills, StaleAfter, ArchiveAfter, MaxNow,
  MaxOps         \* bound: operations begun in one behaviour

Absent == "none"
Dir == {Dirs[i] : i \in DOMAIN Dirs}
Statuses == {"quarantined", "enabled", "disabled", "stale", "archived"}

ASSUME SkillsAssumption ==
  /\ \A p \in DOMAIN Packages : Packages[p].id \in Dir /\ Packages[p].status \in Statuses
  /\ \A s \in DOMAIN Sources : Sources[s] \subseteq DOMAIN Packages
  /\ \A i \in DOMAIN Index : Index[i].id \in Dir /\ Index[i].pkg \in DOMAIN Packages
  /\ Scanning \subseteq Handlers
  /\ DOMAIN Index = 1 .. Len(Index) /\ Len(Index) \in Nat
  /\ DOMAIN Packages \cap {Absent, "empty"} = {} /\ Absent \notin DOMAIN Sources
  /\ StaleAfter \in Nat \ {0} /\ ArchiveAfter \in Nat \ {0} /\ MaxNow \in Nat \ {0}

VARIABLES
  dirs, file, src, \* the directories that exist; directory -> what its SKILL.md and .source hold
  removed,       \* history: the directories from which a removal has taken a SKILL.md
  row, finding,  \* <<id, version>> -> row; id -> the findings saved last
  sync, disk, life, sweep,  \* the operations in hand
  usage, now,    \* id -> record of use; the clock
  shown,         \* what was shown last, and as what: a task's selection or a catalogue
  ops
skillVars == <<dirs, file, src, removed, row, finding, sync, disk, life, sweep, usage, now, shown, ops>>

Package(p) == Packages[p]
\* A file caught between truncation and writing reads as an enabled skill named by its directory.
ReadSkill(d) == IF file[d] = "empty" THEN [pkg |-> "empty", id |-> d, ver |-> 0, status |-> "enabled", bad |-> "no", summary |-> FALSE]
  ELSE [pkg |-> file[d], id |-> Package(file[d]).id, ver |-> Package(file[d]).ver, status |-> Package(file[d]).status,
        bad |-> Package(file[d]).bad, summary |-> Package(file[d]).summary]
Present == {i \in DOMAIN Dirs : file[Dirs[i]] # Absent}
Key(s) == <<s.id, s.ver>>
\* System.Load: the first directory with an id and version wins.
Load == {ReadSkill(Dirs[i]) : i \in {j \in Present : \A k \in Present : k < j => Key(ReadSkill(Dirs[k])) # Key(ReadSkill(Dirs[j]))}}
IsInjectable(s) == s.status = "enabled"

ScanRisk(p) == IF Package(p).bad = "no" THEN "safe" ELSE "critical"
Keys == {<<Package(p).id, Package(p).ver>> : p \in DOMAIN Packages}
  \cup {<<Index[i].id, Index[i].ver>> : i \in DOMAIN Index} \cup {<<d, 0>> : d \in Dir}
Ids == {k[1] : k \in Keys} \cup Dir
NoRow == [hash |-> Absent, source |-> Absent, status |-> Absent, risk |-> Absent]
\* The row of an agent's own skill, the only kind a sweep ages; nothing in the program saves one.
OwnRow == [hash |-> Absent, source |-> "workspace", status |-> "enabled", risk |-> "safe"]
NoSync == [pc |-> "idle", at |-> 0, on |-> FALSE, installed |-> {}, quarantined |-> {}, failed |-> {}]
\* on: the file it opened for writing is still the one in the directory.
Idle == [pc |-> "idle", dir |-> Absent, pkg |-> Absent, source |-> Absent, on |-> FALSE, left |-> {}]
NoLife == [op |-> "idle", key |-> Absent, row |-> NoRow]
\* aged: the row a sweep saved last, with what it went by.
NoAged == [key |-> <<>>, idle |-> 0, status |-> Absent, pinned |-> FALSE]
NoSweep == [pc |-> "idle", list |-> {}, now |-> 0, aged |-> NoAged]
NoShow == [as |-> Absent, skills |-> {}]

SkillsInit ==
  /\ file = [d \in Dir |-> Absent] /\ src = [d \in Dir |-> Absent] /\ dirs = {} /\ removed = {}
  /\ \E own \in OwnSkills :
       /\ row = [k \in Keys |-> IF k \in own THEN OwnRow ELSE NoRow]
       /\ usage = [i \in Ids |-> [known |-> i \in {k[1] : k \in own}, last |-> IF i \in {k[1] : k \in own} THEN 1 ELSE 0, pinned |-> FALSE]]
       /\ ops = IF own = {} THEN 0 ELSE 1   \* bound: one operation fewer beside such a row
  /\ finding = [i \in Ids |-> Absent]
  /\ sync = NoSync /\ disk = [h \in Handlers |-> Idle] /\ life = NoLife /\ sweep = NoSweep
  /\ now = 1
  /\ shown = NoShow

Begin == ops < MaxOps /\ ops' = ops + 1
-----------------------------------------------------------------------------
(* skill sync: one installer per item; a failed item does not end the rest.    *)
Sync == /\ sync.pc = "idle" /\ Index # <<>> /\ Begin
        /\ sync' = [pc |-> "fetch", at |-> 1, on |-> FALSE, installed |-> {}, quarantined |-> {}, failed |-> {}]
        /\ UNCHANGED <<dirs, file, src, removed, row, finding, disk, life, sweep, usage, now, shown>>
Item == Index[sync.at]
Counted(in) == LET With(list) == sync[list] \cup (IF in = list THEN {sync.at} ELSE {}) IN
  [pc |-> IF sync.at < Len(Index) THEN "fetch" ELSE "idle", at |-> IF sync.at < Len(Index) THEN sync.at + 1 ELSE sync.at, on |-> FALSE,
   installed |-> With("installed"), quarantined |-> With("quarantined"), failed |-> With("failed")]
\* Unreachable, undecodable, with another hash than its manifest's, or a failure of any later step.
SyncFails == /\ sync.pc # "idle"
             /\ sync' = Counted("failed")
             /\ UNCHANGED <<dirs, file, src, removed, row, finding, disk, life, sweep, usage, now, shown, ops>>
SyncScan == /\ sync.pc = "fetch"
            /\ finding' = [finding EXCEPT ![Item.id] = ScanRisk(Item.pkg)]
            /\ sync' = [sync EXCEPT !.pc = IF ScanRisk(Item.pkg) = "critical" THEN "quarantine" ELSE "mkdir"]
            /\ UNCHANGED <<dirs, file, src, removed, row, disk, life, sweep, usage, now, shown, ops>>
QuarantinedRow(i) == [hash |-> i.pkg, source |-> "registry", status |-> "quarantined", risk |-> "critical"]
SyncQuarantine == /\ sync.pc = "quarantine"
                  /\ row' = [row EXCEPT ![<<Item.id, Item.ver>>] = QuarantinedRow(Item)]
                  /\ sync' = [sync EXCEPT !.pc = "auditQ"]
                  /\ UNCHANGED <<dirs, file, src, removed, finding, disk, life, sweep, usage, now, shown, ops>>
\* The directory is the manifest's id; the row is keyed by what the front matter says. What is
\* written to a file that was removed after it was opened is gone with it.
SyncWrite == \/ /\ sync.pc = "mkdir" /\ dirs' = dirs \cup {Item.id}
                /\ sync' = [sync EXCEPT !.pc = "truncate"]
                /\ UNCHANGED <<file, src, removed, row, finding, disk, life, sweep, usage, now, shown, ops>>
             \/ /\ sync.pc = "truncate" /\ Item.id \in dirs /\ file' = [file EXCEPT ![Item.id] = "empty"]
                /\ sync' = [sync EXCEPT !.pc = "write", !.on = TRUE]
                /\ UNCHANGED <<dirs, src, removed, row, finding, disk, life, sweep, usage, now, shown, ops>>
             \/ /\ sync.pc = "write" /\ file' = IF sync.on THEN [file EXCEPT ![Item.id] = Item.pkg] ELSE file
                /\ sync' = [sync EXCEPT !.pc = "row", !.on = FALSE]
                /\ UNCHANGED <<dirs, src, removed, row, finding, disk, life, sweep, usage, now, shown, ops>>
SyncSave == /\ sync.pc = "row" /\ file[Item.id] # Absent
            /\ LET s == ReadSkill(Item.id) IN
                 row' = [row EXCEPT ![Key(s)] = [hash |-> Item.pkg, source |-> "registry", status |-> s.status, risk |-> "safe"]]
            /\ sync' = [sync EXCEPT !.pc = "auditI"]
            /\ UNCHANGED <<dirs, file, src, removed, finding, disk, life, sweep, usage, now, shown, ops>>
SyncAudit == /\ sync.pc \in {"auditQ", "auditI"}
             /\ sync' = Counted(IF sync.pc = "auditQ" THEN "quarantined" ELSE "installed")
             /\ UNCHANGED <<dirs, file, src, removed, row, finding, disk, life, sweep, usage, now, shown, ops>>
\* The command is interrupted: its report is lost with it.
SyncDies == /\ sync.pc # "idle" /\ sync' = NoSync
            /\ UNCHANGED <<dirs, file, src, removed, row, finding, disk, life, sweep, usage, now, shown, ops>>
-----------------------------------------------------------------------------
(* The disk manager behind /v1/skills (scanning) and the terminal (not), one    *)
(* operation to each handler and no lock between them. Of two overlapping       *)
(* writes to one file the later stands whole: a longer earlier one's tail       *)
(* behind it, and a .source caught empty, are left out.                         *)
Others == <<sync, row, finding, life, sweep, usage, now, shown>>
InHand(h) == disk[h].pc # "idle"
\* Fetched, parsed and scanned before anything is written; then the directory is made.
FetchAndScan(h, source) ==
  /\ ~InHand(h) /\ Begin
  /\ \E p \in Sources[source] :
       /\ h \in Scanning => ScanRisk(p) # "critical"
       /\ dirs' = dirs \cup {Package(p).id}
       /\ disk' = [disk EXCEPT ![h] = [pc |-> "truncate", dir |-> Package(p).id, pkg |-> p, source |-> source, on |-> FALSE, left |-> {}]]
  /\ UNCHANGED <<file, src, removed, Others>>
Install(h) == \E s \in DOMAIN Sources : FetchAndScan(h, s)
\* Update installs again from the stored source, which may serve another id by now.
Update(h, name) == src[name] # Absent /\ FetchAndScan(h, src[name])
InstallWrites(h) ==
  LET d == disk[h].dir IN
  /\ \/ /\ disk[h].pc = "truncate" /\ d \in dirs
        /\ file' = [file EXCEPT ![d] = "empty"] /\ UNCHANGED src
        /\ disk' = [disk EXCEPT ![h] = [@ EXCEPT !.pc = "write", !.on = TRUE]]
     \/ /\ disk[h].pc = "write"
        /\ UNCHANGED src
        /\ file' = IF disk[h].on THEN [file EXCEPT ![d] = disk[h].pkg] ELSE file
        /\ disk' = [disk EXCEPT ![h] = [@ EXCEPT !.pc = "source", !.on = FALSE]]
     \/ /\ disk[h].pc = "source" /\ d \in dirs
        /\ src' = [src EXCEPT ![d] = disk[h].source] /\ UNCHANGED file
        /\ disk' = [disk EXCEPT ![h] = Idle]
  /\ UNCHANGED <<dirs, removed, ops, Others>>
\* A failing call, at any step: the directory gone (the only outcome then), the disk, the program's end.
InstallFails(h) == /\ InHand(h) /\ disk' = [disk EXCEPT ![h] = Idle]
  /\ UNCHANGED <<dirs, file, src, removed, ops, Others>>
\* os.RemoveAll: what the directory held when it was read is unlinked name by name, then the directory,
\* which stays when something was written to it since.
Uninstall(h, name) ==
  /\ ~InHand(h) /\ name \in dirs /\ Begin
  /\ disk' = [disk EXCEPT ![h] = [Idle EXCEPT !.pc = "remove", !.dir = name,
       !.left = (IF file[name] = Absent THEN {} ELSE {"SKILL.md"}) \cup (IF src[name] = Absent THEN {} ELSE {".source"})]]
  /\ UNCHANGED <<dirs, file, src, removed, Others>>
\* The files opened for writing in directory d lose their name.
Unlinked(d) == [g \in Handlers |-> IF disk[g].dir = d THEN [disk[g] EXCEPT !.on = FALSE] ELSE disk[g]]
RemovesFile(h) ==
  LET d == disk[h].dir IN
  /\ disk[h].pc = "remove"
  /\ \/ /\ "SKILL.md" \in disk[h].left /\ file' = [file EXCEPT ![d] = Absent] /\ UNCHANGED src
        /\ disk' = [Unlinked(d) EXCEPT ![h] = [disk[h] EXCEPT !.left = @ \ {"SKILL.md"}]]
        /\ sync' = IF sync.pc = "write" /\ Item.id = d THEN [sync EXCEPT !.on = FALSE] ELSE sync
        /\ removed' = removed \cup {d}
     \/ /\ ".source" \in disk[h].left /\ src' = [src EXCEPT ![d] = Absent] /\ UNCHANGED <<file, sync, removed>>
        /\ disk' = [disk EXCEPT ![h] = [disk[h] EXCEPT !.left = @ \ {".source"}]]
  /\ UNCHANGED <<dirs, row, finding, life, sweep, usage, now, shown, ops>>
RemovesDirectory(h) ==
  LET d == disk[h].dir IN
  /\ disk[h].pc = "remove" /\ disk[h].left = {}
  /\ dirs' = IF file[d] = Absent /\ src[d] = Absent THEN dirs \ {d} ELSE dirs
  /\ disk' = [disk EXCEPT ![h] = Idle]
  /\ UNCHANGED <<file, src, removed, ops, Others>>
Ask(h) == Install(h) \/ (\E d \in Dir : Update(h, d) \/ Uninstall(h, d))
handleSkill == \E h \in Scanning : Ask(h)
runSkill == \E h \in Handlers \ Scanning : Ask(h)
DiskSteps == \E h \in Handlers : InstallWrites(h) \/ InstallFails(h) \/ RemovesFile(h) \/ RemovesDirectory(h)
-----------------------------------------------------------------------------
(* What a task is given: a selection by its input, and a catalogue.            *)
\* The body is scanned again; matching and ranking are a choice of which.
SelectForTask == LET fit == {s \in Load : IsInjectable(s) /\ s.bad # "body"} IN
  /\ \E matched \in SUBSET fit :
       /\ matched # {} /\ Cardinality(matched) <= MaxSkills
       /\ shown' = [as |-> "selection", skills |-> matched]
       /\ usage' = [i \in Ids |-> IF i \in {s.id : s \in matched} THEN [usage[i] EXCEPT !.known = TRUE, !.last = now] ELSE usage[i]]
  /\ UNCHANGED <<dirs, file, src, removed, row, finding, sync, disk, life, sweep, now, ops>>
\* SkillProvider.refresh and Catalog.Entries: one unfit skill fails the whole listing.
Refresh == LET fit == {s \in Load : IsInjectable(s)} IN
  /\ (shown.as = "catalogue" => fit # shown.skills)
  /\ \A s \in fit : s.summary
  /\ \A s, t \in fit : s.id = t.id => s = t
  /\ shown' = [as |-> "catalogue", skills |-> fit]
  /\ UNCHANGED <<dirs, file, src, removed, row, finding, sync, disk, life, sweep, usage, now, ops>>
-----------------------------------------------------------------------------
(* LifecycleManager: a row is read, judged and saved as it was read.           *)
EnableRefuses(k) == row[k].risk = "critical" \/ row[k].status \in {"quarantined", "rejected"} \/ finding[k[1]] = "critical"
Lifecycle(op, k) ==
  /\ life.op = "idle" /\ row[k] # NoRow /\ Begin
  /\ (op = "enabled" => ~EnableRefuses(k))
  /\ life' = [op |-> op, key |-> k, row |-> row[k]]
  /\ UNCHANGED <<dirs, file, src, removed, row, finding, sync, disk, sweep, usage, now, shown>>
LifecycleSaves == /\ life.op # "idle"
  /\ row' = [row EXCEPT ![life.key] = [life.row EXCEPT !.status = life.op]]
  /\ life' = NoLife
  /\ UNCHANGED <<dirs, file, src, removed, finding, sync, disk, sweep, usage, now, shown, ops>>
-----------------------------------------------------------------------------
(* Curator.Sweep: rows are listed once, then each is looked at in turn.        *)
\* Bound: sweeps and pins only where there is a row to age.
Ageing == \E k \in Keys : row[k].source = "workspace"
Sweep == /\ sweep.pc = "idle" /\ Ageing /\ Begin
         /\ sweep' = [pc |-> "look", list |-> {<<k, row[k]>> : k \in {x \in Keys : row[x] # NoRow}}, now |-> now, aged |-> NoAged]
         /\ UNCHANGED <<dirs, file, src, removed, row, finding, sync, disk, life, usage, now, shown>>
\* The moment of the sweep may precede a use recorded since: then nothing is idle.
IdleFor(id) == IF sweep.now > usage[id].last THEN sweep.now - usage[id].last ELSE 0
Eligible(id, r) == r.source = "workspace" /\ r.status # "archived" /\ usage[id].known /\ ~usage[id].pinned /\ usage[id].last > 0
TargetStatus(id, r) == IF ~Eligible(id, r) THEN r.status
  ELSE IF IdleFor(id) >= ArchiveAfter THEN "archived" ELSE IF IdleFor(id) >= StaleAfter THEN "stale" ELSE r.status
\* Only a genuine change of status is saved. A slip: every row is, as it was listed.
Bug_Saved(r, status) == TRUE
Saved(r, status) == status # r.status
SweepRow ==
  /\ sweep.pc = "look"
  /\ \E e \in sweep.list : LET t == TargetStatus(e[1][1], e[2]) use == usage[e[1][1]] IN
       \/ ~Saved(e[2], t) /\ sweep' = [sweep EXCEPT !.list = @ \ {e}] /\ UNCHANGED row
       \/ /\ Saved(e[2], t) /\ row' = [row EXCEPT ![e[1]] = [e[2] EXCEPT !.status = t]]
          /\ sweep' = [sweep EXCEPT !.list = @ \ {e},
                         !.aged = [key |-> e[1], idle |-> now - use.last, status |-> t, pinned |-> use.pinned]]
  /\ UNCHANGED <<dirs, file, src, removed, finding, sync, disk, life, usage, now, shown, ops>>
SweepEnds == /\ sweep.pc = "look" /\ sweep.list = {} /\ sweep' = NoSweep
  /\ UNCHANGED <<dirs, file, src, removed, row, finding, sync, disk, life, usage, now, shown, ops>>
Pin(id) == /\ ~usage[id].pinned /\ Ageing /\ Begin /\ usage' = [usage EXCEPT ![id] = [@ EXCEPT !.pinned = TRUE, !.known = TRUE]]
  /\ UNCHANGED <<dirs, file, src, removed, row, finding, sync, disk, life, sweep, now, shown>>
\* Bound: time passes only where a sweep has a row to age.
Tick == /\ now < MaxNow /\ Ageing /\ now' = now + 1
  /\ UNCHANGED <<dirs, file, src, removed, row, finding, sync, disk, life, sweep, usage, shown, ops>>
\* The service restarts: the record of use was in memory, an installation stops where it is.
Restart == /\ Begin /\ disk' = [h \in Handlers |-> IF h \in Scanning THEN Idle ELSE disk[h]] /\ life' = NoLife /\ sweep' = NoSweep
  /\ usage' = [i \in Ids |-> [known |-> FALSE, last |-> 0, pinned |-> FALSE]]
  /\ shown' = NoShow
  /\ UNCHANGED <<dirs, file, src, removed, row, finding, sync, now>>

SkillsNext ==
  \/ Sync \/ SyncFails \/ SyncScan \/ SyncQuarantine \/ SyncWrite \/ SyncSave \/ SyncAudit \/ SyncDies
  \/ handleSkill \/ runSkill \/ DiskSteps \/ SelectForTask \/ Refresh
  \/ (\E k \in Keys, op \in {"enabled", "disabled", "archived"} : Lifecycle(op, k)) \/ LifecycleSaves
  \/ Sweep \/ SweepRow \/ SweepEnds
  \/ (\E i \in {Package(p).id : p \in DOMAIN Packages} : Pin(i)) \/ Tick \/ Restart
SkillsSpec == SkillsInit /\ [][SkillsNext]_skillVars
-----------------------------------------------------------------------------
(* TypeOK: every directory holds nothing, a file caught half written or a       *)
(* known package; a row has a known status; a sync is at one of its items.      *)
SkillsTypeOK ==
  /\ dirs \subseteq Dir /\ removed \subseteq Dir
  /\ file \in [Dir -> DOMAIN Packages \cup {Absent, "empty"}] /\ src \in [Dir -> DOMAIN Sources \cup {Absent}]
  /\ \A k \in Keys : row[k].status \in Statuses \cup {Absent}
  /\ sync.at \in 0 .. Len(Index) /\ now \in 1 .. MaxNow
(* A package the scanner finds critical never has an enabled row, through any   *)
(* order of syncs, disabling, archiving and enabling (Enable's three refusals), *)
(* a clean later version of the same skill and rows saved from earlier copies.  *)
CriticalStaysOff == \A k \in Keys : row[k].status = "enabled" /\ row[k].hash # Absent => ScanRisk(row[k].hash) = "safe"
(* A sync's counts add up: each item passed is counted in exactly one of        *)
(* installed, quarantined and failed, and only a critical one is quarantined.   *)
CountsAddUp == sync.pc # "idle" =>
  /\ sync.installed \cup sync.quarantined \cup sync.failed = 1 .. (sync.at - 1)
  /\ sync.installed \cap sync.failed = {} /\ sync.quarantined \cap (sync.failed \cup sync.installed) = {}
  /\ \A i \in sync.installed : ScanRisk(Index[i].pkg) = "safe"
  /\ \A i \in sync.quarantined : ScanRisk(Index[i].pkg) = "critical"
(* A row is aged for its own idleness: at the moment a sweep saves it as stale  *)
(* or archived its skill has been unused for the configured time and is not     *)
(* pinned, whatever was used or pinned since the sweep listed the rows.         *)
AgedWasIdle == sweep.aged.key # <<>> =>
  ~sweep.aged.pinned /\ sweep.aged.idle >= (IF sweep.aged.status = "archived" THEN ArchiveAfter ELSE StaleAfter)
(* A row comes on only where somebody asked for it: by an Enable, or by a sync  *)
(* that scanned the skill. A sweep, which saves the copies it listed over       *)
(* whatever was saved since, never turns on what was disabled, archived or      *)
(* quarantined meanwhile: it undoes such a change only into another that is off. *)
OnlyAskedTurnsOn == \A k \in Keys : row[k].status # "enabled" /\ row'[k].status = "enabled" =>
  \/ life.op = "enabled" /\ life.key = k /\ life' = NoLife
  \/ sync.pc = "row" /\ sync' # sync
(* A stored source without its SKILL.md, which Update would install again       *)
(* although nothing lists it, is left by a removal only (one cut short, or one  *)
(* an installation overlapped): no installation or update that is interrupted   *)
(* leaves it, whichever others run beside it.                                   *)
SourceHasFile == \A d \in Dir : src[d] # Absent /\ file[d] = Absent => d \in removed
(* A catalogue lists no file caught empty, and a name in it has one body.       *)
ListedIsWhole == shown.as = "catalogue" => \A s, t \in shown.skills : s.pkg # "empty" /\ (s.id = t.id => s = t)

(* What syncs, sweeps, changes by hand and overlapping installations and
   removals do to files and rows at once never enables a critical package, turns
   on what nobody asked for, miscounts or ages a skill that was in use, and a
   source is left without its file by a removal only. *)
SkillsSafe ==
  /\ [](SkillsTypeOK /\ CriticalStaysOff /\ CountsAddUp /\ AgedWasIdle /\ SourceHasFile /\ ListedIsWhole)
  /\ [][OnlyAskedTurnsOn]_skillVars
===============================================================================
