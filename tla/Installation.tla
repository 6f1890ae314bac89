----------------------------- MODULE Installation -----------------------------
(***************************************************************************)
(* model/install.rs, engine/register.rs, api/settings.rs, api/models.rs    *)
(* and the start-up in main.rs, around the model directory: an engine      *)
(* factory for every installed Variant, built with the backend the stored  *)
(* settings ask for.  Start-up, installs and settings requests all         *)
(* register factories, from settings they read some steps before.          *)
(***************************************************************************)
EXTENDS InstalledVariants

CONSTANTS Callers,     \* clients of PUT /api/settings
          Removers,    \* clients of DELETE /api/models
          Choices,     \* settings they ask for: [knobs, backend, preload]
          Default,     \* Settings::default()
          CliKnobs,    \* the knobs given on the command line
          Unset,       \* no settings were ever stored
          NoFactory

ASSUME InstallationAssumption ==
  /\ IsFiniteSet(Callers) /\ Default \in Choices /\ Unset \notin Choices
  /\ NoFactory \notin {s.backend : s \in Choices}

VARIABLES
  stored,     \* the settings row
  knobs,      \* the engine manager's configuration
  factory,    \* the backend each registered factory builds for
  put,        \* a settings request: its position, what it read, what it asks for
  install,    \* per Variant, the backend its install has read
  uninstall,  \* a DELETE request, as far as it is
  astray      \* history, for this start: settings that were read wrong, crossed
              \* by others, never applied because their request was dropped, or
              \* applied while a sidecar could not be read

engines == <<knobs, factory>>
calls == <<put, install, uninstall, astray>>
vars == <<ivars, stored, engines, calls>>

NoPut == [at |-> "none", old |-> Default, new |-> Default]
(* todo: the Variants still to go; gone: what it has deleted; met: what others
   crossed since it looked at them all, with a download that was started or
   shown once more, or with an uninstall of theirs *)
NoUninstall == [at |-> "none", todo |-> {}, key |-> NoVariant, gone |-> {}, met |-> {}]

Loaded == IF stored = Unset THEN Default ELSE stored

(* EffectiveConfig::resolve: what is stored goes before the command line *)
EffectiveKnobs(s) == IF s = Unset THEN CliKnobs ELSE s.knobs
EffectiveBackend(s) == IF s = Unset THEN Default.backend ELSE s.backend

Init ==
  /\ IInit
  /\ stored = Unset /\ knobs = CliKnobs
  /\ factory = [v \in Variants |-> NoFactory]
  /\ put = [c \in Callers |-> NoPut] /\ install = [v \in Variants |-> NoFactory]
  /\ uninstall = [r \in Removers |-> NoUninstall] /\ astray = FALSE

(* register_installed_variants: the others keep the factories they had *)
Register(backend) == factory' = [v \in Variants |-> IF v \in Installed THEN backend ELSE factory[v]]

(* What a registration misses because its sidecar is being rewritten *)
Unreadable == {v \in Variants : file[v] # 0 /\ IsRetired(v) /\ side[v] = Garbled}
Registered(backend) == Register(backend) /\ astray' = (astray \/ Unreadable # {})

Putting == {c \in Callers : put[c].at # "none"}
Registering == {v \in Variants : download[v] = "registering"}

(* Clients are alike: the next request is of one chosen among the idle *)
NextCaller == CHOOSE c \in Callers : put[c].at = "none"
NextRemover == CHOOSE r \in Removers : uninstall[r].at = "none"

Uninstalling == {r \in Removers : uninstall[r].at # "none"}
Meeting(r, v) == [uninstall[r] EXCEPT !.met = @ \cup ({v} \cap uninstall[r].todo)]
Met(v) == [r \in Removers |-> Meeting(r, v)]

(* The directory changes, and nothing else *)
Disk(A) == A /\ UNCHANGED <<stored, engines, calls>>

-----------------------------------------------------------------------------
(* main: settings that cannot be read are as good as none *)
StartUp ==
  /\ KeeperAt("register")
  /\ \/ /\ knobs' = EffectiveKnobs(stored) /\ Register(EffectiveBackend(stored))
        /\ UNCHANGED <<astray, events>>
     \/ /\ Event /\ stored # Unset
        /\ knobs' = EffectiveKnobs(Unset) /\ Register(EffectiveBackend(Unset))
        /\ astray' = TRUE
  /\ Keep("scan")
  /\ UNCHANGED <<pin, disk, download, notices, marks, stored, put, install, uninstall>>

Restart ==
  /\ Restarts
  /\ factory' = [v \in Variants |-> NoFactory]
  /\ put' = [c \in Callers |-> NoPut] /\ install' = [v \in Variants |-> NoFactory]
  /\ uninstall' = [r \in Removers |-> NoUninstall] /\ astray' = FALSE
  /\ UNCHANGED <<stored, knobs>>

-----------------------------------------------------------------------------
(* POST download *)
StartDownload(v) ==
  /\ Fetch(v)
  /\ uninstall' = Met(v)
  /\ UNCHANGED <<stored, engines, put, install, astray>>

ShowAgain(v) ==
  /\ Echo(v)
  /\ uninstall' = Met(v)
  /\ UNCHANGED <<stored, engines, put, install, astray>>

(* Completed is published, and install reads the settings, *)
InstallReads(v) ==
  /\ download[v] = "installing"
  /\ Show(v, "completed") /\ Stage(v, "registering") /\ UNCHANGED echo
  /\ \/ install' = [install EXCEPT ![v] = Loaded.backend] /\ astray' = (astray \/ Putting # {}) /\ UNCHANGED events
     \/ /\ Event
        /\ install' = [install EXCEPT ![v] = Default.backend] /\ astray' = TRUE
  /\ UNCHANGED <<pin, disk, keeper, marks, stored, engines, put, uninstall>>

(* mutant: the factory of the Variant itself, when there is none yet *)
InstallKeepsFactory(v) ==
  /\ download[v] = "registering"
  /\ factory' = [factory EXCEPT ![v] = IF @ = NoFactory THEN install[v] ELSE @]
  /\ install' = [install EXCEPT ![v] = NoFactory]
  /\ Stage(v, "closing")
  /\ UNCHANGED <<pin, disk, keeper, notices, events, marks, stored, knobs, put, uninstall, astray>>

(* registers, and unloads the engine of the replaced file (EngineManager); *)
InstallRegisters(v) ==
  /\ download[v] = "registering"
  /\ Registered(install[v])
  /\ install' = [install EXCEPT ![v] = NoFactory]
  /\ Stage(v, "closing")
  /\ UNCHANGED <<pin, disk, keeper, notices, events, marks, stored, knobs, put, uninstall>>

(* then the slot is given back *)
InstallCloses(v) ==
  /\ download[v] = "closing"
  /\ Stage(v, "none")
  /\ UNCHANGED <<pin, disk, keeper, notices, events, marks, stored, engines, calls>>

-----------------------------------------------------------------------------
(* update_settings: read what is stored, *)
PutReads(c, new) ==
  /\ Up /\ Event
  /\ put[c].at = "none" /\ c = NextCaller
  /\ put' = [put EXCEPT ![c] = [at |-> "read", old |-> Loaded, new |-> new]]
  /\ astray' = (astray \/ Putting # {} \/ Registering # {})
  /\ UNCHANGED <<pin, disk, keeper, download, notices, marks, stored, engines, install, uninstall>>

(* save, if the pre-load is nothing or names one installed Variant, *)
PutSaves(c) ==
  LET preload == put[c].new.preload
  IN /\ put[c].at = "read"
     /\ \/ /\ preload = Unset \/ Cardinality(Resolved(preload)) = 1
           /\ stored' = put[c].new
           /\ put' = [put EXCEPT ![c].at = "saved"]
        \/ /\ preload # Unset /\ Cardinality(Resolved(preload)) # 1
           /\ put' = [put EXCEPT ![c] = NoPut]
           /\ UNCHANGED stored
     /\ UNCHANGED <<ivars, engines, install, uninstall, astray>>

(* and apply_engine_settings: the backends only when they changed *)
PutApplies(c) ==
  LET old == put[c].old
      new == put[c].new
  IN /\ put[c].at = "saved"
     /\ knobs' = new.knobs
     /\ IF new.backend # old.backend THEN Registered(new.backend) ELSE UNCHANGED <<factory, astray>>
     /\ put' = [put EXCEPT ![c] = NoPut]
     /\ UNCHANGED <<ivars, stored, install, uninstall>>

(* The client hangs up and the handler is dropped *)
PutDropped(c) ==
  /\ put[c].at # "none" /\ Event
  /\ put' = [put EXCEPT ![c] = NoPut]
  /\ astray' = (astray \/ put[c].at = "saved")
  /\ UNCHANGED <<pin, disk, keeper, download, notices, marks, stored, engines, install, uninstall>>

-----------------------------------------------------------------------------
Remover(r, now) == uninstall' = [uninstall EXCEPT ![r] = now]
Refused(r) == Remover(r, NoUninstall)

(* mutant: the Variants of a model are only looked at one by one *)
UninstallUnchecked(r, S) ==
  /\ Up /\ Event
  /\ r \notin Uninstalling /\ r = NextRemover /\ S # {}
  /\ Cardinality(S) = 1 \/ S = Installed
  /\ Remover(r, [NoUninstall EXCEPT !.at = "look", !.todo = S])
  /\ UNCHANGED <<pin, disk, keeper, download, notices, marks, stored, engines, put, install, astray>>

(* uninstall: of one Variant, or of all that are installed if none of them is
   being downloaded *)
Uninstall(r, S) ==
  /\ Up /\ Event
  /\ r \notin Uninstalling /\ r = NextRemover /\ S # {}
  /\ \/ Cardinality(S) = 1
     \/ S = Installed /\ \A v \in S : board[v] # "active"
  /\ Remover(r, [NoUninstall EXCEPT !.at = "look", !.todo = S])
  /\ UNCHANGED <<pin, disk, keeper, download, notices, marks, stored, engines, put, install, astray>>

(* delete_variant, for one after the other: is it being downloaded? *)
Look(r, v) ==
  /\ uninstall[r].at = "look" /\ v \in uninstall[r].todo
  /\ IF board[v] = "active" THEN Refused(r)
     ELSE Remover(r, [uninstall[r] EXCEPT !.at = "file", !.key = v])
  /\ UNCHANGED <<ivars, stored, engines, put, install, astray>>

(* is it there, and can it be deleted? *)
DeleteFile(r) ==
  LET v == uninstall[r].key
  IN /\ uninstall[r].at = "file"
     /\ \/ /\ v \in Installed /\ RemoveFile(v)
           /\ uninstall' = [q \in Removers |->
                IF q # r THEN Meeting(q, v)
                ELSE [uninstall[r] EXCEPT !.at = "sidecar", !.gone = @ \cup {v}]]
        \/ v \notin Installed /\ Refused(r) /\ UNCHANGED <<disk, events, marks>>
        \/ v \in Installed /\ Event /\ Refused(r) /\ UNCHANGED <<disk, marks>>
     /\ UNCHANGED <<pin, keeper, download, notices, stored, engines, put, install, astray>>

DeleteSidecar(r) ==
  /\ uninstall[r].at = "sidecar"
  /\ RemoveSidecar(uninstall[r].key)
  /\ Remover(r, [uninstall[r] EXCEPT !.at = "unload"])
  /\ UNCHANGED <<pin, keeper, download, notices, stored, engines, put, install, astray>>

(* uninstall_variant: the engine goes (EngineManager; the factory stays), and a
   failure that was kept *)
UninstallEnds(r) ==
  LET v == uninstall[r].key
      left == uninstall[r].todo \ {v}
  IN /\ uninstall[r].at = "unload"
     /\ board' = [board EXCEPT ![v] = IF @ = "failed" THEN "none" ELSE @]
     /\ Remover(r, IF left = {} THEN NoUninstall
                   ELSE [uninstall[r] EXCEPT !.at = "look", !.todo = left, !.key = NoVariant])
     /\ UNCHANGED <<pin, disk, keeper, download, echo, events, marks, stored, engines, put, install, astray>>

UninstallDropped(r) ==
  /\ r \in Uninstalling /\ Event
  /\ Refused(r)
  /\ UNCHANGED <<pin, disk, keeper, download, notices, marks, stored, engines, put, install, astray>>

-----------------------------------------------------------------------------
Next ==
  \/ \E v \in Variants :
       \/ Disk(Migrate(v)) \/ Disk(BackfillNext(v))
       \/ StartDownload(v) \/ ShowAgain(v) \/ Disk(FetchEnds(v)) \/ Disk(MoveIn(v))
       \/ Disk(DownloadTruncates(v)) \/ Disk(DownloadWrites(v)) \/ Disk(Clear(v))
       \/ InstallReads(v) \/ InstallRegisters(v) \/ InstallCloses(v)
  \/ Disk(MigrateDone) \/ Disk(KeeperTruncates) \/ Disk(KeeperWrites)
  \/ Disk(BackfillScan) \/ Disk(BackfillHash) \/ Disk(BackfillDone)
  \/ StartUp \/ Restart
  \/ \E c \in Callers :
       \/ \E new \in Choices : PutReads(c, new)
       \/ PutSaves(c) \/ PutApplies(c) \/ PutDropped(c)
  \/ \E r \in Removers :
       \/ \E S \in SUBSET Variants : Uninstall(r, S)
       \/ \E v \in Variants : Look(r, v)
       \/ DeleteFile(r) \/ DeleteSidecar(r) \/ UninstallEnds(r) \/ UninstallDropped(r)

Spec == Init /\ [][Next]_vars

(* The start-up and its background task go on, as do the tasks of downloads.
   Nobody has to ask for anything. *)
KeeperStep ==
  \/ \E v \in Variants : Disk(Migrate(v)) \/ Disk(BackfillNext(v))
  \/ Disk(MigrateDone) \/ Disk(KeeperTruncates) \/ Disk(KeeperWrites)
  \/ Disk(BackfillScan) \/ Disk(BackfillHash) \/ Disk(BackfillDone)
  \/ StartUp
DownloadStep(v) ==
  \/ Disk(FetchEnds(v)) \/ Disk(MoveIn(v)) \/ Disk(DownloadTruncates(v)) \/ Disk(DownloadWrites(v))
  \/ InstallReads(v) \/ InstallRegisters(v) \/ InstallCloses(v)
Fairness == WF_vars(KeeperStep) /\ \A v \in Variants : WF_vars(DownloadStep(v))
FairSpec == Spec /\ Fairness

-----------------------------------------------------------------------------
(* Every variable keeps its shape. *)
TypeOK ==
  /\ InstalledTypeOK
  /\ stored \in Choices \cup {Unset} /\ knobs \in {CliKnobs} \cup {s.knobs : s \in Choices}
  /\ factory \in [Variants -> {s.backend : s \in Choices} \cup {NoFactory}]
  /\ put \in [Callers -> [at : {"none", "read", "saved"}, old : Choices, new : Choices]]
  /\ install \in [Variants -> {s.backend : s \in Choices} \cup {NoFactory}]
  /\ uninstall \in [Removers ->
       [at : {"none", "look", "file", "sidecar", "unload"}, todo : SUBSET Variants,
        key : Variants \cup {NoVariant}, gone : SUBSET Variants, met : SUBSET Variants]]
  /\ astray \in BOOLEAN

(* installed.rs:4-6, 88-92: a sidecar's digest is that of the file beside it.  It
   may lag behind, while a download writes the new one, or once that was lost
   or crossed; but never so that a republished file passes for up to date,
   unless one was reverted. *)
InstalledIsTold ==
  /\ TypeOK
  /\ \A v \in Variants : file[v] # 0 /\ Known(side[v]) /\ side[v] # file[v] =>
       /\ side[v] < file[v] \/ v \in reverted
       /\ v \in spoiled \cup reverted \/ download[v] \in {"moved", "writing"}
  /\ \A v \in Installed : pin[v] \notin {0, file[v]} =>
       UpdateAvailable(v) \/ ~Known(side[v]) \/ v \in reverted

(* install.rs:4-13, register.rs:15-19: what is listed as installed has a factory,
   or gets it by the install that is under way; and with no call under way
   that could still change them, knobs and factories are those of the settings
   stored, unless these went astray. *)
InstalledIsServed ==
  Up => /\ \A v \in Installed : factory[v] # NoFactory \/ download[v] \notin {"none", "fetching"}
        /\ ~astray /\ Putting = {} =>
             /\ knobs = EffectiveKnobs(stored)
             /\ \A v \in Installed : download[v] \in {"none", "fetching"} =>
                  factory[v] = EffectiveBackend(stored)

(* catalog.rs:146-149, install.rs:88-93: while the add-on runs, a Variant leaves the
   list only by an uninstall that has seen that nothing downloads it, or if the
   sidecar is rewritten that alone names it; and an uninstall of several that is
   refused half way was crossed: by an error, a download, a late notice of a
   cancelled one, another uninstall, or such a rewriting.  Against 146-149, what
   an uninstall deletes may be shown as downloading, or have been downloaded
   since it looked: those that it `met`. *)
LeavesUnasked(v) ==
  /\ v \in Installed /\ v \notin Installed' /\ Up /\ Up'
  /\ \A r \in Removers : uninstall[r].key = v /\ uninstall[r].at = "file" =>
       board[v] = "active" /\ v \notin uninstall[r].met
  /\ ~(IsRetired(v) /\ side'[v] = Garbled)
StopsUncrossed(r) ==
  LET left == uninstall[r].todo \ uninstall[r].gone
  IN /\ uninstall[r].gone # {} /\ left # {} /\ uninstall'[r].at = "none" /\ events' = events
     /\ \A v \in left : v \notin uninstall[r].met /\ ~(v \in Unreadable)
NothingLeavesUnasked == [][
  /\ \A v \in Variants : ~LeavesUnasked(v)
  /\ \A r \in Removers : ~StopsUncrossed(r)]_vars

(* installed.rs:390-392: a file of the catalog gets a sidecar and a digest, by the
   download that brings it or by a start-up, unless its sidecar is spoiled or the
   file could not be read (405-407). *)
FilesAreFingerprinted ==
  \A v \in Variants : file[v] # 0 /\ pin[v] # 0 ~>
    file[v] = 0 \/ pin[v] = 0 \/ Known(side[v]) \/ v \in spoiled

InstalledIsKept == NothingLeavesUnasked /\ FilesAreFingerprinted
=============================================================================
