-------------------------- MODULE InstallationProofs --------------------------
(***************************************************************************)
(* Proofs about Installation, for every set of Variants, every number of   *)
(* versions, every set of clients and settings, and every directory the    *)
(* add-on may find.                                                        *)
(***************************************************************************)
EXTENDS Installation, FiniteSetTheorems, TLAPS

Writing == {"describe", "describing", "stamp", "stamping"}

(* The keeper has a file at hand exactly while it hashes it or writes its sidecar,
   and a digest that is not newer than the file, nor than what is offered. *)
KeeperFits ==
  /\ keeper.job \in Writing \cup {"hash"} <=> keeper.at \in Variants
  /\ keeper.job \in {"register", "scan", "over"} => keeper.todo = {}
  /\ keeper.job \in Writing =>
       /\ file[keeper.at] # 0 => keeper.digest <= file[keeper.at]
       /\ pin[keeper.at] # 0 => keeper.digest <= pin[keeper.at]

(* Nobody calls before the start-up is through. *)
QuietStart == ~Up =>
  /\ \A v \in Variants : download[v] = "none"
  /\ echo = {} /\ \A r \in Removers : uninstall[r].at = "none"
  /\ \A c \in Callers : put[c].at = "none"

(* The catalog never offers less than what was fetched from it. *)
PinsAhead == \A v \in Variants :
  /\ pin[v] # 0 => file[v] <= pin[v] /\ (Known(side[v]) => side[v] <= pin[v])
  /\ download[v] # "none" => pin[v] # 0
  /\ download[v] \in {"moved", "writing"} => file[v] \in {0, pin[v]}

(* An uninstall has a Variant at hand exactly while it deletes it; the file of one
   that is no longer offered does not come back while its sidecar is deleted. *)
Fits(r) ==
  /\ uninstall[r].at \in {"file", "sidecar", "unload"} <=> uninstall[r].key \in Variants
  /\ uninstall[r].at = "sidecar" /\ pin[uninstall[r].key] = 0 => file[uninstall[r].key] = 0
UninstallFits == \A r \in Removers : Fits(r)

(* A sidecar of another file: older, and about to be rewritten, or marked. *)
Told == \A v \in Variants : file[v] # 0 /\ Known(side[v]) /\ side[v] # file[v] =>
  /\ side[v] < file[v] \/ v \in reverted
  /\ v \in spoiled \cup reverted \/ download[v] = "moved"

(* The inductive invariant of the directory. *)
DirectoryInv ==
  /\ TypeOK
  /\ KeeperFits
  /\ QuietStart
  /\ PinsAhead
  /\ UninstallFits
  /\ Told

-----------------------------------------------------------------------------
(* Who takes the steps, and what each of them leaves alone. *)
AnyDownloadStep(v) == StartDownload(v) \/ ShowAgain(v) \/ DownloadStep(v) \/ Disk(Clear(v))
PutStep(c) ==
  \/ \E new \in Choices : PutReads(c, new)
  \/ PutSaves(c) \/ PutApplies(c) \/ PutDropped(c)
UninstallStep(r) ==
  \/ \E v \in Variants : Look(r, v)
  \/ \E S \in SUBSET Variants : Uninstall(r, S)
  \/ DeleteFile(r) \/ DeleteSidecar(r) \/ UninstallEnds(r) \/ UninstallDropped(r)

LEMMA Hands ==
  ASSUME [Next]_vars
  PROVE  \/ KeeperStep
         \/ \E v \in Variants : AnyDownloadStep(v)
         \/ \E c \in Callers : PutStep(c)
         \/ \E r \in Removers : UninstallStep(r)
         \/ Restart
         \/ UNCHANGED vars
  BY Zenon DEF Next, KeeperStep, AnyDownloadStep, DownloadStep, PutStep, UninstallStep

LEMMA KeeperFrame ==
  ASSUME KeeperStep
  PROVE  UNCHANGED <<pin, download, board, echo, stored, put, install, uninstall>>
<1> USE DEF Disk, disk, notices, marks, engines, calls
<1>1. ASSUME NEW v \in Variants, Disk(Migrate(v)) \/ Disk(BackfillNext(v))
      PROVE  UNCHANGED <<pin, download, board, echo, stored, put, install, uninstall>>
  BY <1>1 DEF Migrate, BackfillNext
<1>2. CASE Disk(MigrateDone) \/ Disk(BackfillScan) \/ Disk(BackfillHash) \/ Disk(BackfillDone) \/ StartUp
  BY <1>2 DEF MigrateDone, BackfillScan, BackfillHash, BackfillDone, StartUp
<1>3. CASE Disk(KeeperTruncates) \/ Disk(KeeperWrites)
  BY <1>3 DEF KeeperTruncates, KeeperWrites, Truncate, Write, WriteFails
<1> QED
  BY <1>1, <1>2, <1>3 DEF KeeperStep

LEMMA DownloadFrame ==
  ASSUME NEW v \in Variants, AnyDownloadStep(v)
  PROVE  UNCHANGED <<pin, flat, keeper, stored, knobs, put>>
  BY DEF AnyDownloadStep, DownloadStep, Disk, disk, notices, marks, engines, calls, StartDownload, Fetch,
         ShowAgain, Echo, FetchEnds, MoveIn, DownloadTruncates, DownloadWrites, Truncate, Write, WriteFails, Clear,
         InstallReads, InstallRegisters, InstallCloses

LEMMA PutFrame ==
  ASSUME NEW c \in Callers, PutStep(c)
  PROVE  UNCHANGED <<pin, disk, keeper, download, board, echo, marks, install, uninstall>>
  BY DEF notices, PutStep, PutReads, PutSaves, PutApplies, PutDropped, ivars, engines

LEMMA UninstallFrame ==
  ASSUME NEW r \in Removers, UninstallStep(r)
  PROVE  UNCHANGED <<pin, flat, keeper, download, echo, stored, engines, put, install, astray>>
  BY DEF notices, UninstallStep, Look, Uninstall, DeleteFile, DeleteSidecar, UninstallEnds, UninstallDropped,
         RemoveFile, RemoveSidecar, ivars, disk

-----------------------------------------------------------------------------
LEMMA Basics ==
  /\ Latest \in Nat /\ 0 \in 0 .. Latest /\ 1 \in 0 .. Latest
  /\ NoSide \notin Nat /\ Garbled \notin Nat /\ NoSide # Garbled
  /\ NoVariant \notin Variants
  BY InstalledAssumption

LEMMA InitDirectory == Init => DirectoryInv
<1> SUFFICES ASSUME Init PROVE DirectoryInv
  OBVIOUS
<1>1. PICK f \in [Variants -> UNION {Found[v] : v \in Variants}] :
        /\ \A v \in Variants : f[v] \in Found[v]
        /\ pin = [v \in Variants |-> f[v].pin] /\ flat = [v \in Variants |-> f[v].flat]
        /\ file = [v \in Variants |-> f[v].file] /\ side = [v \in Variants |-> f[v].side]
  BY DEF Init, IInit
<1>2. \A v \in Variants :
        /\ pin[v] \in 0 .. Latest /\ flat[v] \in {"none", "bare", "hashed"} /\ file[v] \in 0 .. Latest
        /\ file[v] = 0 => side[v] = NoSide
        /\ file[v] # 0 => side[v] \in {NoSide, 0, file[v]} /\ pin[v] \in {0, file[v]}
  BY <1>1, InstalledAssumption
<1>3. /\ keeper = [job |-> "migrate", todo |-> Variants, at |-> NoVariant, digest |-> 0]
      /\ download = [v \in Variants |-> "none"] /\ board = [v \in Variants |-> "none"]
      /\ echo = {} /\ events = 0 /\ spoiled = {} /\ reverted = {}
      /\ put = [c \in Callers |-> [at |-> "none", old |-> Default, new |-> Default]]
      /\ uninstall = [r \in Removers |->
                        [at |-> "none", todo |-> {}, key |-> NoVariant, gone |-> {}, met |-> {}]]
  BY DEF Init, IInit, Keeper, NoPut, NoUninstall
<1>4. InstalledTypeOK
  <2>1. pin \in [Variants -> 0 .. Latest] /\ file \in [Variants -> 0 .. Latest]
        /\ flat \in [Variants -> {"none", "bare", "hashed"}]
    BY <1>1, <1>2
  <2>2. side \in [Variants -> {NoSide, Garbled} \cup 0 .. Latest]
    <3>1. \A v \in Variants : side[v] \in {NoSide, Garbled} \cup 0 .. Latest
      BY <1>2, InstalledAssumption
    <3> QED
      BY <1>1, <3>1
  <2>3. keeper \in [job : Jobs, todo : SUBSET Variants, at : Variants \cup {NoVariant}, digest : 0 .. Latest]
    BY <1>3, InstalledAssumption DEF Jobs
  <2> QED
    BY <1>3, <2>1, <2>2, <2>3, InstalledAssumption DEF InstalledTypeOK
<1>5. TypeOK
  <2>1. stored = Unset /\ knobs = CliKnobs /\ astray = FALSE
        /\ factory = [v \in Variants |-> NoFactory] /\ install = [v \in Variants |-> NoFactory]
    BY DEF Init
  <2>2. /\ factory \in [Variants -> {s.backend : s \in Choices} \cup {NoFactory}]
        /\ install \in [Variants -> {s.backend : s \in Choices} \cup {NoFactory}]
    BY <2>1
  <2>3. put \in [Callers -> [at : {"none", "read", "saved"}, old : Choices, new : Choices]]
    BY <1>3, InstallationAssumption
  <2> QED
    BY <1>3, <1>4, <2>1, <2>2, <2>3 DEF TypeOK
<1>6. KeeperFits /\ QuietStart /\ UninstallFits
  BY <1>3, InstalledAssumption DEF KeeperFits, QuietStart, UninstallFits, Fits, Writing
<1>7. PinsAhead
  BY <1>2, <1>3, InstalledAssumption DEF PinsAhead, Known, Versions
<1>8. Told
  BY <1>2, InstalledAssumption DEF Told, Known, Versions
<1> QED
  BY <1>5, <1>6, <1>7, <1>8 DEF DirectoryInv


-----------------------------------------------------------------------------
(* Every step keeps the shape of the state. *)
KeeperType ==
  keeper \in [job : Jobs, todo : SUBSET Variants, at : Variants \cup {NoVariant}, digest : 0 .. Latest]
Deletions ==
  [at : {"none", "look", "file", "sidecar", "unload"}, todo : SUBSET Variants,
   key : Variants \cup {NoVariant}, gone : SUBSET Variants, met : SUBSET Variants]
UninstallType == uninstall \in [Removers -> Deletions]
PutType == put \in [Callers -> [at : {"none", "read", "saved"}, old : Choices, new : Choices]]
Backends == {s.backend : s \in Choices}
EnginesType ==
  /\ stored \in Choices \cup {Unset} /\ knobs \in {CliKnobs} \cup {s.knobs : s \in Choices}
  /\ factory \in [Variants -> Backends \cup {NoFactory}]
  /\ install \in [Variants -> Backends \cup {NoFactory}]
  /\ astray \in BOOLEAN

LEMMA KeeperTypes ==
  ASSUME TypeOK, KeeperFits, [Next]_vars
  PROVE  KeeperType'
<1> USE Basics DEF Disk, disk, notices, marks, KeeperAt, Keep, OnTo, Skip, KeeperType, Jobs
<1>1. KeeperType /\ InstalledTypeOK
  BY DEF TypeOK, InstalledTypeOK
<1>2. ASSUME NEW v \in Variants, Disk(Migrate(v)) \/ Disk(BackfillNext(v))
      PROVE  KeeperType'
  BY <1>1, <1>2 DEF Migrate, BackfillNext
<1>3. CASE Disk(MigrateDone) \/ Disk(BackfillDone) \/ StartUp
  BY <1>1, <1>3 DEF MigrateDone, BackfillDone, StartUp
<1>4. CASE Disk(KeeperTruncates) \/ Disk(KeeperWrites)
  BY <1>1, <1>4 DEF KeeperTruncates, KeeperWrites
<1>5. CASE Disk(BackfillScan)
  BY <1>5 DEF BackfillScan, Keeper, Installed
<1>6. CASE Disk(BackfillHash)
  <2>1. keeper.at \in Variants => file[keeper.at] \in 0 .. Latest
    BY <1>1 DEF InstalledTypeOK
  <2>2. CASE keeper' = [keeper EXCEPT !.job = "stamp", !.digest = file[keeper.at]]
    BY <1>1, <1>6, <2>1, <2>2 DEF BackfillHash, KeeperFits
  <2>3. CASE OnTo("backfill")
    BY <1>1, <2>3
  <2> QED
    BY <1>6, <2>2, <2>3 DEF BackfillHash
<1>7. CASE Restart
  BY <1>7 DEF Restart, Restarts, Keeper
<1>8. CASE UNCHANGED keeper
  BY <1>1, <1>8
<1> QED
  BY <1>2, <1>3, <1>4, <1>5, <1>6, <1>7, <1>8, Hands, DownloadFrame, PutFrame, UninstallFrame
  DEF KeeperStep, vars, ivars

(* What others note of a request, it keeps the rest of. *)
LEMMA MeetingIs ==
  ASSUME UninstallType, NEW r \in Removers, NEW v
  PROVE  /\ Meeting(r, v) \in Deletions
         /\ Meeting(r, v).at = uninstall[r].at /\ Meeting(r, v).todo = uninstall[r].todo
         /\ Meeting(r, v).key = uninstall[r].key /\ Meeting(r, v).gone = uninstall[r].gone
         /\ Meeting(r, v).met = uninstall[r].met \cup ({v} \cap uninstall[r].todo)
<1> DEFINE met == uninstall[r].met \cup ({v} \cap uninstall[r].todo)
<1>1. uninstall[r] \in Deletions /\ met \in SUBSET Variants
  BY DEF UninstallType, Deletions
<1>2. Meeting(r, v) = [uninstall[r] EXCEPT !.met = met]
  BY DEF Meeting
<1> HIDE DEF met
<1>3. /\ Meeting(r, v) \in Deletions /\ Meeting(r, v).met = met
      /\ Meeting(r, v).at = uninstall[r].at /\ Meeting(r, v).todo = uninstall[r].todo
      /\ Meeting(r, v).key = uninstall[r].key /\ Meeting(r, v).gone = uninstall[r].gone
  BY <1>1, <1>2 DEF Deletions
<1> QED
  BY <1>3 DEF met

(* What becomes of a request by its own steps, and by those of others *)
LEMMA OwnStep ==
  ASSUME UninstallType, UninstallFits, NEW r \in Removers, UninstallStep(r)
  PROVE  LET u == uninstall[r]
             w == uninstall'[r]
         IN /\ w \in Deletions
            /\ \/ w = NoUninstall
               \/ /\ u.at = "none" /\ w.at = "look" /\ w.key = NoVariant /\ w.gone = {} /\ w.met = {}
                  /\ Uninstall(r, w.todo)
               \/ /\ u.at = "look" /\ w.at = "file" /\ w.key \in u.todo /\ Look(r, w.key)
                  /\ board[w.key] # "active"
                  /\ w.todo = u.todo /\ w.gone = u.gone /\ w.met = u.met
               \/ /\ DeleteFile(r) /\ u.at = "file" /\ w.at = "sidecar" /\ w.gone = u.gone \cup {u.key}
                  /\ RemoveFile(u.key)
                  /\ w.key = u.key /\ w.todo = u.todo /\ w.met = u.met
               \/ /\ DeleteSidecar(r) /\ u.at = "sidecar" /\ w.at = "unload"
                  /\ w.key = u.key /\ w.todo = u.todo /\ w.gone = u.gone /\ w.met = u.met
               \/ /\ UninstallEnds(r) /\ u.at = "unload" /\ w.at = "look" /\ w.key = NoVariant
                  /\ w.todo = u.todo \ {u.key} /\ w.gone = u.gone /\ w.met = u.met
<1> DEFINE u == uninstall[r]
           w == uninstall'[r]
<1> USE DEF Remover, Refused
<1>0. u \in Deletions /\ NoUninstall \in Deletions /\ uninstall \in [Removers -> Deletions]
  BY Basics DEF UninstallType, Deletions, NoUninstall
<1>1. ASSUME NEW v \in Variants, Look(r, v), w # NoUninstall
      PROVE  /\ w \in Deletions /\ u.at = "look" /\ w.at = "file" /\ w.key = v /\ v \in u.todo
             /\ board[v] # "active" /\ w.todo = u.todo /\ w.gone = u.gone /\ w.met = u.met
  <2>1. w = [u EXCEPT !.at = "file", !.key = v] /\ u.at = "look" /\ v \in u.todo /\ board[v] # "active"
    BY <1>0, <1>1 DEF Look
  <2> QED
    BY <1>0, <2>1 DEF Deletions
<1>2. ASSUME NEW S \in SUBSET Variants, Uninstall(r, S)
      PROVE  /\ w \in Deletions /\ u.at = "none" /\ w.at = "look" /\ w.key = NoVariant
             /\ w.gone = {} /\ w.met = {} /\ w.todo = S
  <2>1. w = [NoUninstall EXCEPT !.at = "look", !.todo = S] /\ u.at = "none"
    BY <1>0, <1>2 DEF Uninstall, Uninstalling
  <2> QED
    BY <2>1, Basics DEF Deletions, NoUninstall
<1>3. ASSUME DeleteFile(r), w # NoUninstall
      PROVE  /\ w \in Deletions /\ u.at = "file" /\ w.at = "sidecar" /\ w.gone = u.gone \cup {u.key}
             /\ RemoveFile(u.key) /\ w.key = u.key /\ w.todo = u.todo /\ w.met = u.met
  <2> DEFINE gone == u.gone \cup {u.key}
  <2>1. w = [u EXCEPT !.at = "sidecar", !.gone = gone] /\ u.at = "file" /\ RemoveFile(u.key)
    BY <1>0, <1>3 DEF DeleteFile
  <2>2. gone \in SUBSET Variants
    BY <1>0, <2>1 DEF UninstallFits, Fits, Deletions
  <2> HIDE DEF gone
  <2>3. w \in Deletions /\ w.at = "sidecar" /\ w.gone = gone
        /\ w.key = u.key /\ w.todo = u.todo /\ w.met = u.met
    BY <1>0, <2>1, <2>2 DEF Deletions
  <2> QED
    BY <2>1, <2>3 DEF gone
<1>4. ASSUME DeleteSidecar(r)
      PROVE  /\ w \in Deletions /\ u.at = "sidecar" /\ w.at = "unload"
             /\ w.key = u.key /\ w.todo = u.todo /\ w.gone = u.gone /\ w.met = u.met
  <2>1. w = [u EXCEPT !.at = "unload"] /\ u.at = "sidecar"
    BY <1>0, <1>4 DEF DeleteSidecar
  <2> QED
    BY <1>0, <2>1 DEF Deletions
<1>5. ASSUME UninstallEnds(r), w # NoUninstall
      PROVE  /\ w \in Deletions /\ u.at = "unload" /\ w.at = "look" /\ w.key = NoVariant
             /\ w.todo = u.todo \ {u.key} /\ w.gone = u.gone /\ w.met = u.met
  <2> DEFINE left == u.todo \ {u.key}
  <2>1. w = [u EXCEPT !.at = "look", !.todo = left, !.key = NoVariant] /\ u.at = "unload"
    BY <1>0, <1>5 DEF UninstallEnds
  <2>2. left \in SUBSET Variants
    BY <1>0 DEF Deletions
  <2> HIDE DEF left
  <2>3. w \in Deletions /\ w.at = "look" /\ w.key = NoVariant
        /\ w.todo = left /\ w.gone = u.gone /\ w.met = u.met
    BY <1>0, <2>1, <2>2 DEF Deletions
  <2> QED
    BY <2>1, <2>3 DEF left
<1>6. UninstallDropped(r) => w = NoUninstall
  BY <1>0 DEF UninstallDropped
<1> HIDE DEF u, w
<1>7. /\ w \in Deletions
      /\ \/ w = NoUninstall
         \/ /\ u.at = "none" /\ w.at = "look" /\ w.key = NoVariant /\ w.gone = {} /\ w.met = {}
            /\ Uninstall(r, w.todo)
         \/ /\ u.at = "look" /\ w.at = "file" /\ w.key \in u.todo /\ Look(r, w.key)
            /\ board[w.key] # "active"
            /\ w.todo = u.todo /\ w.gone = u.gone /\ w.met = u.met
         \/ /\ DeleteFile(r) /\ u.at = "file" /\ w.at = "sidecar" /\ w.gone = u.gone \cup {u.key}
            /\ RemoveFile(u.key)
            /\ w.key = u.key /\ w.todo = u.todo /\ w.met = u.met
         \/ /\ DeleteSidecar(r) /\ u.at = "sidecar" /\ w.at = "unload"
            /\ w.key = u.key /\ w.todo = u.todo /\ w.gone = u.gone /\ w.met = u.met
         \/ /\ UninstallEnds(r) /\ u.at = "unload" /\ w.at = "look" /\ w.key = NoVariant
            /\ w.todo = u.todo \ {u.key} /\ w.gone = u.gone /\ w.met = u.met
  BY <1>0, <1>1, <1>2, <1>3, <1>4, <1>5, <1>6 DEF UninstallStep
<1> QED
  BY <1>7 DEF u, w

LEMMA OthersStep ==
  ASSUME UninstallType, UninstallFits, [Next]_vars, NEW q \in Removers, ~UninstallStep(q), ~Restart
  PROVE  \/ uninstall'[q] = uninstall[q]
         \/ \E v \in Variants :
              /\ uninstall'[q] = Meeting(q, v)
              /\ \/ StartDownload(v) \/ ShowAgain(v)
                 \/ \E r \in Removers \ {q} : DeleteFile(r) /\ v = uninstall[r].key
<1> USE DEF UninstallType
<1>1. CASE KeeperStep
  BY <1>1, KeeperFrame
<1>2. ASSUME NEW v \in Variants, AnyDownloadStep(v)
      PROVE  \/ uninstall'[q] = uninstall[q]
             \/ uninstall'[q] = Meeting(q, v) /\ (StartDownload(v) \/ ShowAgain(v))
  BY <1>2 DEF AnyDownloadStep, StartDownload, ShowAgain, Met, DownloadStep, Disk, calls,
              InstallReads, InstallRegisters, InstallCloses
<1>3. ASSUME NEW c \in Callers, PutStep(c) PROVE uninstall'[q] = uninstall[q]
  BY <1>3, PutFrame
<1>4. ASSUME NEW r \in Removers \ {q}, UninstallStep(r)
      PROVE  \/ uninstall'[q] = uninstall[q]
             \/ /\ uninstall'[q] = Meeting(q, uninstall[r].key)
                /\ uninstall[r].key \in Variants /\ DeleteFile(r)
  <2>1. CASE DeleteFile(r)
    <3>1. uninstall[r].key \in Variants
      BY <2>1 DEF DeleteFile, UninstallFits, Fits
    <3> QED
      BY <2>1, <3>1 DEF DeleteFile, Refused, Remover
  <2>2. CASE ~DeleteFile(r)
    BY <1>4, <2>2 DEF UninstallStep, Look, Uninstall, DeleteSidecar, UninstallEnds, UninstallDropped,
                      Refused, Remover
  <2> QED
    BY <2>1, <2>2
<1>5. CASE UNCHANGED uninstall
  BY <1>5
<1> QED
  BY <1>1, <1>2, <1>3, <1>4, <1>5, Hands DEF vars, calls

LEMMA UninstallIsFunction ==
  ASSUME UninstallType, [Next]_vars
  PROVE  uninstall' = [q \in Removers |-> uninstall'[q]]
<1> USE DEF UninstallType, Remover, Refused
<1>1. ASSUME NEW v \in Variants, AnyDownloadStep(v)
      PROVE  uninstall' = [q \in Removers |-> uninstall'[q]]
  BY <1>1 DEF AnyDownloadStep, StartDownload, ShowAgain, Met, DownloadStep, Disk, calls,
              InstallReads, InstallRegisters, InstallCloses
<1>2. ASSUME NEW r \in Removers, UninstallStep(r)
      PROVE  uninstall' = [q \in Removers |-> uninstall'[q]]
  <2>1. CASE DeleteFile(r)
    BY <2>1 DEF DeleteFile
  <2>2. CASE ~DeleteFile(r)
    BY <1>2, <2>2 DEF UninstallStep, Look, Uninstall, DeleteSidecar, UninstallEnds, UninstallDropped
  <2> QED
    BY <2>1, <2>2
<1>3. CASE Restart
  BY <1>3 DEF Restart
<1>4. CASE UNCHANGED uninstall
  BY <1>4
<1> QED
  BY <1>1, <1>2, <1>3, <1>4, Hands, KeeperFrame, PutFrame DEF vars, calls

LEMMA UninstallTypes ==
  ASSUME TypeOK, UninstallFits, [Next]_vars
  PROVE  UninstallType'
<1>1. UninstallType
  BY DEF TypeOK, UninstallType, Deletions
<1>2. CASE Restart
  BY <1>2, Basics DEF Restart, UninstallType, Deletions, NoUninstall
<1>3. CASE ~Restart
  <2>1. \A q \in Removers : uninstall'[q] \in Deletions
    <3>1. ASSUME NEW q \in Removers, UninstallStep(q) PROVE uninstall'[q] \in Deletions
      BY <1>1, <3>1, OwnStep
    <3>2. ASSUME NEW q \in Removers, ~UninstallStep(q) PROVE uninstall'[q] \in Deletions
      <4>1. uninstall[q] \in Deletions
        BY <1>1 DEF UninstallType
      <4> QED
        BY <1>1, <1>3, <3>2, <4>1, OthersStep, MeetingIs
    <3> QED
      BY <3>1, <3>2
  <2>2. DOMAIN uninstall' = Removers /\ uninstall' = [q \in Removers |-> uninstall'[q]]
    BY <1>1, <1>3, UninstallIsFunction
  <2> QED
    BY <2>1, <2>2 DEF UninstallType
<1> QED
  BY <1>2, <1>3

LEMMA PutTypes ==
  ASSUME TypeOK, [Next]_vars
  PROVE  PutType'
<1> USE InstallationAssumption DEF PutType, NoPut
<1>1. PutType /\ Loaded \in Choices
  BY DEF TypeOK, Loaded
<1>2. ASSUME NEW c \in Callers, PutStep(c)
      PROVE  PutType'
  <2>1. ASSUME NEW new \in Choices, PutReads(c, new) PROVE PutType'
    BY <1>1, <2>1 DEF PutReads
  <2>2. CASE PutSaves(c)
    BY <1>1, <2>2 DEF PutSaves
  <2>3. CASE PutApplies(c) \/ PutDropped(c)
    BY <1>1, <2>3 DEF PutApplies, PutDropped
  <2> QED
    BY <1>2, <2>1, <2>2, <2>3 DEF PutStep
<1>3. CASE Restart
  BY <1>3 DEF Restart
<1>4. CASE UNCHANGED put
  BY <1>1, <1>4
<1> QED
  BY <1>2, <1>3, <1>4, Hands, KeeperFrame, DownloadFrame, UninstallFrame DEF vars, calls

LEMMA EnginesTypes ==
  ASSUME TypeOK, [Next]_vars
  PROVE  EnginesType'
<1> USE InstallationAssumption DEF EnginesType, Backends
<1>1. EnginesType /\ Loaded.backend \in Backends /\ Default.backend \in Backends
  BY DEF TypeOK, Loaded
<1>2. ASSUME NEW b \in Backends, Register(b)
      PROVE  factory' \in [Variants -> Backends \cup {NoFactory}]
  BY <1>1, <1>2 DEF Register
<1>3. astray \in BOOLEAN /\ (astray \/ Unreadable # {}) \in BOOLEAN
  BY <1>1
<1>4. CASE KeeperStep
  <2>1. CASE StartUp
    <3>1. EffectiveBackend(stored) \in Backends /\ EffectiveBackend(Unset) \in Backends
      BY <1>1 DEF EffectiveBackend
    <3>2. /\ EffectiveKnobs(stored) \in {CliKnobs} \cup {s.knobs : s \in Choices}
          /\ EffectiveKnobs(Unset) \in {CliKnobs} \cup {s.knobs : s \in Choices}
      BY <1>1 DEF EffectiveKnobs
    <3>3. UNCHANGED <<stored, install>> /\ astray' \in BOOLEAN
      BY <1>1, <2>1 DEF StartUp
    <3>4. factory' \in [Variants -> Backends \cup {NoFactory}]
      BY <1>2, <2>1, <3>1 DEF StartUp
    <3>5. knobs' \in {CliKnobs} \cup {s.knobs : s \in Choices}
      BY <2>1, <3>2 DEF StartUp
    <3> QED
      BY <1>1, <3>3, <3>4, <3>5
  <2>2. CASE UNCHANGED <<stored, engines, calls>>
    BY <1>1, <2>2 DEF engines, calls
  <2> QED
    BY <1>4, <2>1, <2>2 DEF KeeperStep, Disk
<1>5. ASSUME NEW v \in Variants, AnyDownloadStep(v)
      PROVE  EnginesType'
  <2>1. CASE StartDownload(v) \/ ShowAgain(v) \/ InstallCloses(v)
    BY <1>1, <2>1 DEF StartDownload, ShowAgain, InstallCloses, engines, calls
  <2>2. CASE InstallReads(v)
    <3>1. astray' \in BOOLEAN /\ UNCHANGED <<stored, engines>>
      BY <1>1, <2>2 DEF InstallReads
    <3>2. install' \in [Variants -> Backends \cup {NoFactory}]
      BY <1>1, <2>2 DEF InstallReads
    <3> QED
      BY <1>1, <3>1, <3>2 DEF engines
  <2>3. CASE InstallRegisters(v)
    <3>1. astray' \in BOOLEAN /\ UNCHANGED <<stored, knobs>>
      BY <2>3 DEF InstallRegisters, Registered
    <3>2. install' \in [Variants -> Backends \cup {NoFactory}]
      BY <1>1, <2>3 DEF InstallRegisters
    <3>3. factory' \in [Variants -> Backends \cup {NoFactory}]
      BY <1>1, <2>3 DEF InstallRegisters, Registered, Register
    <3> QED
      BY <1>1, <3>1, <3>2, <3>3
  <2>4. CASE UNCHANGED <<stored, engines, calls>>
    BY <1>1, <2>4 DEF engines, calls
  <2> QED
    BY <1>5, <2>1, <2>2, <2>3, <2>4 DEF AnyDownloadStep, DownloadStep, Disk
<1>6. ASSUME NEW c \in Callers, PutStep(c)
      PROVE  EnginesType'
  <2>1. put[c].new \in Choices /\ put[c].new.backend \in Backends
        /\ put[c].new.knobs \in {s.knobs : s \in Choices}
    BY DEF TypeOK
  <2>2. CASE (\E new \in Choices : PutReads(c, new)) \/ PutSaves(c) \/ PutDropped(c)
    BY <1>1, <2>1, <2>2 DEF PutReads, PutSaves, PutDropped, engines
  <2>3. CASE PutApplies(c)
    <3>1. knobs' = put[c].new.knobs /\ astray' \in BOOLEAN /\ UNCHANGED <<stored, install>>
      BY <1>1, <2>3 DEF PutApplies, Registered
    <3>2. factory' \in [Variants -> Backends \cup {NoFactory}]
      BY <1>1, <1>2, <2>1, <2>3 DEF PutApplies, Registered
    <3> QED
      BY <1>1, <2>1, <3>1, <3>2
  <2> QED
    BY <1>6, <2>2, <2>3 DEF PutStep
<1>7. CASE Restart
  BY <1>1, <1>7 DEF Restart
<1>8. CASE UNCHANGED <<stored, engines, install, astray>>
  BY <1>1, <1>8 DEF engines
<1> QED
  BY <1>4, <1>5, <1>6, <1>7, <1>8, Hands, UninstallFrame DEF vars, calls


DirectoryTypes ==
  /\ pin \in [Variants -> 0 .. Latest] /\ file \in [Variants -> 0 .. Latest]
  /\ flat \in [Variants -> {"none", "bare", "hashed"}]
  /\ side \in [Variants -> {NoSide, Garbled} \cup 0 .. Latest]
  /\ download \in [Variants -> {"none", "fetching", "moved", "writing", "installing", "registering", "closing"}]
  /\ board \in [Variants -> {"none", "active", "completed", "failed"}]
  /\ echo \subseteq Variants /\ events \in 0 .. MaxEvents
  /\ spoiled \subseteq Variants /\ reverted \subseteq Variants

LEMMA DirectoryTypesKept ==
  ASSUME TypeOK, KeeperFits, UninstallFits, [Next]_vars
  PROVE  DirectoryTypes'
<1> USE Basics, InstalledAssumption
    DEF DirectoryTypes, Disk, disk, notices, marks, Event, KeeperAt, Stage, Show, Truncate, Write, WriteFails
<1>1. DirectoryTypes /\ KeeperType
  BY DEF TypeOK, InstalledTypeOK, KeeperType
<1>2. CASE KeeperStep
  <2>1. ASSUME NEW v \in Variants, Migrate(v) PROVE DirectoryTypes'
    BY <1>1, <2>1 DEF Migrate, Replaces
  <2>2. CASE KeeperTruncates
    BY <1>1, <2>2 DEF KeeperTruncates
  <2>3. CASE KeeperWrites
    <3>1. keeper.at \in Variants /\ keeper.digest \in 0 .. Latest
      BY <1>1, <2>3 DEF KeeperWrites, KeeperFits, Writing, KeeperType
    <3> QED
      BY <1>1, <2>3, <3>1 DEF KeeperWrites
  <2>4. ASSUME NEW v \in Variants, BackfillNext(v) PROVE DirectoryTypes'
    BY <1>1, <2>4 DEF BackfillNext
  <2>5. CASE MigrateDone \/ BackfillScan \/ BackfillDone \/ StartUp
    BY <1>1, <2>5 DEF MigrateDone, BackfillScan, BackfillDone, StartUp
  <2>6. CASE BackfillHash
    <3>1. keeper.at \in Variants
      BY <2>6 DEF BackfillHash, KeeperFits
    <3> QED
      BY <1>1, <2>6, <3>1 DEF BackfillHash
  <2> QED
    BY <1>2, <2>1, <2>2, <2>3, <2>4, <2>5, <2>6 DEF KeeperStep
<1>3. ASSUME NEW v \in Variants, AnyDownloadStep(v)
      PROVE  DirectoryTypes'
  <2>1. CASE StartDownload(v) \/ ShowAgain(v)
    BY <1>1, <2>1 DEF StartDownload, Fetch, ShowAgain, Echo
  <2>2. CASE FetchEnds(v) \/ MoveIn(v) \/ Clear(v)
    BY <1>1, <2>2 DEF FetchEnds, MoveIn, Clear
  <2>3. CASE DownloadTruncates(v) \/ DownloadWrites(v)
    BY <1>1, <2>3 DEF DownloadTruncates, DownloadWrites
  <2>4. CASE InstallReads(v) \/ InstallRegisters(v) \/ InstallCloses(v)
    BY <1>1, <2>4 DEF InstallReads, InstallRegisters, InstallCloses
  <2> QED
    BY <1>3, <2>1, <2>2, <2>3, <2>4 DEF AnyDownloadStep, DownloadStep
<1>4. ASSUME NEW c \in Callers, PutStep(c)
      PROVE  DirectoryTypes'
  BY <1>1, <1>4 DEF PutStep, PutReads, PutSaves, PutApplies, PutDropped, ivars
<1>5. ASSUME NEW r \in Removers, UninstallStep(r)
      PROVE  DirectoryTypes'
  <2>1. ASSUME NEW v \in Variants, Look(r, v) PROVE DirectoryTypes'
    BY <1>1, <2>1 DEF Look, ivars
  <2>2. ASSUME NEW S \in SUBSET Variants, Uninstall(r, S) PROVE DirectoryTypes'
    BY <1>1, <2>2 DEF Uninstall
  <2>3. CASE UninstallDropped(r)
    BY <1>1, <2>3 DEF UninstallDropped
  <2>4. CASE DeleteFile(r) \/ DeleteSidecar(r) \/ UninstallEnds(r)
    <3>1. uninstall[r].key \in Variants
      BY <2>4 DEF DeleteFile, DeleteSidecar, UninstallEnds, UninstallFits, Fits
    <3> QED
      BY <1>1, <2>4, <3>1 DEF DeleteFile, DeleteSidecar, UninstallEnds, RemoveFile, RemoveSidecar
  <2> QED
    BY <1>5, <2>1, <2>2, <2>3, <2>4 DEF UninstallStep
<1>6. CASE Restart
  BY <1>1, <1>6 DEF Restart, Restarts
<1>7. CASE UNCHANGED vars
  BY <1>1, <1>7 DEF vars, ivars
<1> QED
  BY <1>2, <1>3, <1>4, <1>5, <1>6, <1>7, Hands

LEMMA TypesKept ==
  ASSUME TypeOK, KeeperFits, UninstallFits, [Next]_vars
  PROVE  TypeOK'
<1>1. KeeperType' /\ UninstallType' /\ PutType' /\ EnginesType' /\ DirectoryTypes'
  BY KeeperTypes, UninstallTypes, PutTypes, EnginesTypes, DirectoryTypesKept
<1> QED
  BY <1>1, Zenon DEF TypeOK, InstalledTypeOK, KeeperType, UninstallType, Deletions, PutType, EnginesType,
         Backends, DirectoryTypes


-----------------------------------------------------------------------------
(* Nothing but a restart makes the add-on start again, and downloads, settings
   and uninstalls that are under way have been asked for since it was up. *)
LEMMA StartsOnce ==
  ASSUME TypeOK, KeeperStep, Up
  PROVE  Up'
<1> USE DEF Up, Starting, Disk, KeeperAt, Keep, OnTo, Skip
<1> KeeperType
  BY DEF TypeOK, InstalledTypeOK, KeeperType
<1> USE DEF KeeperType
<1>1. ASSUME NEW v \in Variants, Migrate(v) \/ BackfillNext(v) PROVE Up'
  BY <1>1 DEF Migrate, BackfillNext
<1>2. CASE MigrateDone \/ BackfillScan \/ BackfillDone \/ StartUp
  BY <1>2 DEF MigrateDone, BackfillScan, BackfillDone, StartUp, Keeper
<1>3. CASE KeeperTruncates \/ KeeperWrites \/ BackfillHash
  BY <1>3 DEF KeeperTruncates, KeeperWrites, BackfillHash
<1> QED
  BY <1>1, <1>2, <1>3 DEF KeeperStep

LEMMA OnlyWhenUp ==
  ASSUME QuietStart
  PROVE  /\ \A v \in Variants : AnyDownloadStep(v) => Up \/ (Clear(v) /\ UNCHANGED <<download, echo, uninstall>>)
         /\ \A c \in Callers : PutStep(c) => Up
         /\ \A r \in Removers : UninstallStep(r) => Up
<1>1. ASSUME NEW v \in Variants, AnyDownloadStep(v)
      PROVE  Up \/ (Clear(v) /\ UNCHANGED <<download, echo, uninstall>>)
  <2>1. CASE StartDownload(v)
    BY <2>1 DEF StartDownload, Fetch
  <2>2. CASE DownloadStep(v)
    <3>1. download[v] # "none"
      BY <2>2 DEF DownloadStep, Disk, FetchEnds, MoveIn, DownloadTruncates, DownloadWrites,
                  InstallReads, InstallRegisters, InstallCloses
    <3> QED
      BY <3>1 DEF QuietStart
  <2>3. CASE Disk(Clear(v))
    BY <2>3 DEF Disk, Clear, calls
  <2>4. CASE ShowAgain(v)
    BY <2>4 DEF ShowAgain, Echo, QuietStart
  <2> QED
    BY <1>1, <2>1, <2>2, <2>3, <2>4 DEF AnyDownloadStep
<1>2. ASSUME NEW c \in Callers, PutStep(c)
      PROVE  Up
  BY <1>2 DEF PutStep, PutReads, PutSaves, PutApplies, PutDropped, QuietStart
<1>3. ASSUME NEW r \in Removers, UninstallStep(r)
      PROVE  Up
  BY <1>3 DEF UninstallStep, Look, Uninstall, DeleteFile, DeleteSidecar, UninstallEnds, UninstallDropped,
              Uninstalling, QuietStart
<1> QED
  BY <1>1, <1>2, <1>3

LEMMA QuietKept ==
  ASSUME TypeOK, QuietStart, [Next]_vars
  PROVE  QuietStart'
<1>1. CASE KeeperStep
  BY <1>1, StartsOnce, KeeperFrame DEF QuietStart
<1>2. ASSUME NEW v \in Variants, AnyDownloadStep(v)
      PROVE  QuietStart'
  BY <1>2, OnlyWhenUp, DownloadFrame DEF QuietStart, Up
<1>3. ASSUME NEW c \in Callers, PutStep(c)
      PROVE  QuietStart'
  BY <1>3, OnlyWhenUp, PutFrame DEF QuietStart, Up
<1>4. ASSUME NEW r \in Removers, UninstallStep(r)
      PROVE  QuietStart'
  BY <1>4, OnlyWhenUp, UninstallFrame DEF QuietStart, Up
<1>5. CASE Restart
  BY <1>5 DEF QuietStart, Restart, Restarts, NoUninstall, NoPut
<1>6. CASE UNCHANGED vars
  BY <1>6 DEF QuietStart, Up, vars, ivars, notices, calls
<1> QED
  BY <1>1, <1>2, <1>3, <1>4, <1>5, <1>6, Hands

-----------------------------------------------------------------------------
LEMMA KeeperFitsKept ==
  ASSUME DirectoryInv, [Next]_vars
  PROVE  KeeperFits'
<1> USE Basics DEF KeeperFits, Writing
<1>1. /\ KeeperType /\ DirectoryTypes
      /\ keeper.at # NoVariant => keeper.at \in Variants
  BY DEF DirectoryInv, TypeOK, InstalledTypeOK, KeeperType, DirectoryTypes
<1>2. KeeperFits /\ PinsAhead /\ QuietStart
  BY DEF DirectoryInv
<1>3. CASE KeeperStep
  <2> USE DEF Disk, disk, KeeperAt, Keep, OnTo, Skip, KeeperType
  <2>1. ASSUME NEW v \in Variants, Migrate(v) PROVE KeeperFits'
    <3> DEFINE d == keeper'.digest
    <3>1. keeper.job = "migrate" /\ pin' = pin /\ pin[v] \in 0 .. Latest
      BY <1>1, <2>1 DEF Migrate, DirectoryTypes
    <3>2. CASE Skip(v) /\ UNCHANGED file
      BY <1>1, <1>2, <3>1, <3>2
    <3>3. CASE /\ keeper'.job = "describe" /\ keeper'.at = v /\ d \in {0, 1} /\ pin[v] # 0
               /\ file'[v] # 0 /\ file'[v] \in Nat /\ (d # 0 => file'[v] = 1)
      BY <1>1, <1>2, <3>1, <3>3
    <3>4. CASE /\ pin[v] # 0 /\ file' = [file EXCEPT ![v] = 1]
               /\ keeper' = [keeper EXCEPT !.job = "describe", !.at = v,
                                            !.digest = IF flat[v] = "hashed" THEN 1 ELSE 0]
      <4>1. d \in {0, 1} /\ keeper'.job = "describe" /\ keeper'.at = v
        BY <1>1, <3>4
      <4>2. file'[v] = 1
        BY <1>1, <3>4 DEF DirectoryTypes
      <4> QED
        BY <3>3, <3>4, <4>1, <4>2
    <3>5. CASE /\ file[v] # 0 /\ Inferred(v) /\ UNCHANGED file
               /\ keeper' = [keeper EXCEPT !.job = "describe", !.at = v, !.digest = 0]
      <4>1. d = 0 /\ keeper'.job = "describe" /\ keeper'.at = v /\ file[v] \in Nat
        BY <1>1, <3>5 DEF DirectoryTypes
      <4> QED
        BY <3>3, <3>5, <4>1 DEF Inferred
    <3> QED
      BY <2>1, <3>2, <3>4, <3>5 DEF Migrate
  <2>2. ASSUME NEW v \in Variants, BackfillNext(v) PROVE KeeperFits'
    BY <1>1, <1>2, <2>2 DEF BackfillNext
  <2>3. CASE MigrateDone \/ BackfillScan \/ BackfillDone \/ StartUp
    BY <1>1, <1>2, <2>3 DEF MigrateDone, BackfillScan, BackfillDone, StartUp, Keeper
  <2>4. CASE BackfillHash
    <3> USE DEF notices
    <3> DEFINE v == keeper.at
    <3>1. v \in Variants /\ UNCHANGED <<pin, file>>
      BY <1>2, <2>4 DEF BackfillHash
    <3>2. pin[v] # 0 => file[v] <= pin[v]
      BY <1>2, <3>1 DEF PinsAhead
    <3>3. file[v] \in Nat
      BY <1>1, <3>1 DEF DirectoryTypes
    <3>4. CASE keeper' = [keeper EXCEPT !.job = "stamp", !.digest = file[v]]
      <4>1. keeper'.digest = file[v] /\ keeper'.at = v /\ keeper'.job = "stamp"
        BY <1>1, <3>4
      <4> QED
        BY <3>1, <3>2, <3>3, <4>1
    <3>5. CASE OnTo("backfill")
      BY <1>1, <3>1, <3>5
    <3> QED
      BY <2>4, <3>4, <3>5 DEF BackfillHash
  <2>5. CASE KeeperTruncates
    BY <1>1, <1>2, <2>5 DEF KeeperTruncates, Truncate
  <2>6. CASE KeeperWrites
    BY <1>1, <1>2, <2>6 DEF KeeperWrites, Write, WriteFails
  <2> QED
    BY <1>3, <2>1, <2>2, <2>3, <2>4, <2>5, <2>6 DEF KeeperStep
<1>4. ASSUME NEW v \in Variants, AnyDownloadStep(v)
      PROVE  KeeperFits'
  <2>1. UNCHANGED <<pin, keeper>>
    BY <1>4, DownloadFrame
  <2>2. CASE Disk(MoveIn(v))
    <3>1. file' = [file EXCEPT ![v] = pin[v]] /\ pin[v] # 0
      BY <1>2, <2>2 DEF Disk, MoveIn, PinsAhead
    <3> QED
      BY <1>1, <1>2, <2>1, <3>1 DEF KeeperType, DirectoryTypes
  <2>3. CASE UNCHANGED file
    BY <1>2, <2>1, <2>3
  <2> QED
    BY <1>4, <2>2, <2>3 DEF AnyDownloadStep, DownloadStep, Disk, disk, StartDownload, Fetch, ShowAgain, Echo, FetchEnds,
       DownloadTruncates, DownloadWrites, Truncate, Write, WriteFails, Clear, InstallReads,
       InstallRegisters, InstallCloses
<1>5. ASSUME NEW c \in Callers, PutStep(c)
      PROVE  KeeperFits'
  BY <1>2, <1>5, PutFrame DEF disk
<1>6. ASSUME NEW r \in Removers, UninstallStep(r)
      PROVE  KeeperFits'
  <2>1. UNCHANGED <<pin, keeper>>
    BY <1>6, UninstallFrame
  <2>2. CASE DeleteFile(r)
    <3>1. UNCHANGED file \/ file' = [file EXCEPT ![uninstall[r].key] = 0]
      BY <2>2 DEF DeleteFile, RemoveFile, disk
    <3> QED
      BY <1>1, <1>2, <2>1, <3>1 DEF DirectoryTypes
  <2>3. CASE UNCHANGED file
    BY <1>2, <2>1, <2>3
  <2> QED
    BY <1>6, <2>2, <2>3 DEF UninstallStep, Look, Uninstall, DeleteSidecar, RemoveSidecar, UninstallEnds,
       UninstallDropped, ivars, disk
<1>7. CASE Restart
  BY <1>7 DEF Restart, Restarts, Keeper
<1>8. CASE UNCHANGED vars
  BY <1>2, <1>8 DEF vars, ivars, disk
<1> QED
  BY <1>3, <1>4, <1>5, <1>6, <1>7, <1>8, Hands


-----------------------------------------------------------------------------
LEMMA SidecarsKept ==
  ASSUME DirectoryInv, [Next]_vars
  PROVE  PinsAhead' /\ Told'
<1> USE Basics DEF PinsAhead, Told, Known, Versions
<1>1. PinsAhead /\ Told /\ KeeperFits /\ QuietStart /\ UninstallFits /\ KeeperType
  BY DEF DirectoryInv, TypeOK, InstalledTypeOK, KeeperType
<1>2. \A v \in Variants : pin[v] \in Nat /\ file[v] \in Nat /\ pin[v] <= Latest /\ file[v] <= Latest
  BY DEF DirectoryInv, TypeOK, InstalledTypeOK
<1>3. DirectoryTypes
  BY DEF DirectoryInv, TypeOK, InstalledTypeOK, DirectoryTypes
<1>4. CASE KeeperStep
  <2> USE DEF Disk, disk, marks, KeeperAt
  <2>1. UNCHANGED <<pin, download>>
    BY <1>4, KeeperFrame
  <2>2. ASSUME NEW v \in Variants, Migrate(v) PROVE PinsAhead' /\ Told'
    <3>1. side' = side /\ spoiled' = spoiled /\ \A w \in Variants : download[w] = "none"
      BY <1>1, <2>2 DEF Migrate, Replaces, QuietStart, Up, Starting
    <3>2. CASE UNCHANGED <<file, reverted>>
      BY <1>1, <2>1, <3>1, <3>2
    <3>3. CASE pin[v] # 0 /\ file' = [file EXCEPT ![v] = 1] /\ Replaces(v)
      BY <1>1, <1>2, <1>3, <2>1, <3>1, <3>3 DEF Replaces, DirectoryTypes
    <3> QED
      BY <2>2, <3>2, <3>3 DEF Migrate
  <2>3. CASE KeeperTruncates
    <3>1. /\ side' = [side EXCEPT ![keeper.at] = Garbled] /\ reverted' = reverted \ {keeper.at}
          /\ UNCHANGED <<file, spoiled>>
      BY <2>3 DEF KeeperTruncates, Truncate
    <3> QED
      BY <1>1, <1>3, <2>1, <3>1 DEF DirectoryTypes
  <2>4. CASE KeeperWrites
    <3> DEFINE v == keeper.at
               d == keeper.digest
    <3>1. /\ v \in Variants /\ d \in Nat
          /\ file[v] # 0 => d <= file[v]
          /\ pin[v] # 0 => d <= pin[v]
      BY <1>1, <2>4 DEF KeeperWrites, KeeperFits, Writing, KeeperType
    <3>2. CASE /\ side' = [side EXCEPT ![v] = d]
               /\ spoiled' = IF d \in {0, file[v]} THEN spoiled ELSE spoiled \cup {v}
               /\ UNCHANGED <<file, reverted>>
      BY <1>1, <1>2, <1>3, <2>1, <3>1, <3>2 DEF DirectoryTypes
    <3>3. CASE spoiled' = spoiled \cup {v} /\ UNCHANGED <<file, side, reverted>>
      BY <1>1, <2>1, <3>3
    <3> QED
      BY <2>4, <3>2, <3>3 DEF KeeperWrites, Write, WriteFails
  <2>5. CASE UNCHANGED <<file, side, reverted>> /\ spoiled \subseteq spoiled'
    BY <1>1, <2>1, <2>5
  <2> QED
    BY <1>4, <2>2, <2>3, <2>4, <2>5
    DEF KeeperStep, BackfillNext, MigrateDone, BackfillScan, BackfillHash, BackfillDone, StartUp
<1>5. ASSUME NEW v \in Variants, AnyDownloadStep(v)
      PROVE  PinsAhead' /\ Told'
  <2> USE DEF Disk, disk, marks, Stage, Show
  <2>1. UNCHANGED pin
    BY <1>5, DownloadFrame
  <2>2. CASE StartDownload(v) \/ ShowAgain(v) \/ Disk(FetchEnds(v)) \/ Disk(Clear(v))
    BY <1>1, <1>3, <2>1, <2>2 DEF StartDownload, Fetch, ShowAgain, Echo, FetchEnds, Clear, DirectoryTypes
  <2>3. CASE Disk(MoveIn(v))
    <3>1. /\ file' = [file EXCEPT ![v] = pin[v]] /\ download' = [download EXCEPT ![v] = "moved"]
          /\ reverted' = reverted \ {v} /\ UNCHANGED <<side, spoiled>> /\ pin[v] # 0
      BY <1>1, <2>3 DEF MoveIn
    <3> QED
      BY <1>1, <1>2, <1>3, <2>1, <3>1 DEF DirectoryTypes
  <2>4. CASE Disk(DownloadTruncates(v))
    <3>1. /\ side' = [side EXCEPT ![v] = Garbled] /\ download' = [download EXCEPT ![v] = "writing"]
          /\ reverted' = reverted \ {v} /\ UNCHANGED <<file, spoiled>> /\ download[v] = "moved"
      BY <2>4 DEF DownloadTruncates, Truncate
    <3> QED
      BY <1>1, <1>2, <1>3, <2>1, <3>1 DEF DirectoryTypes
  <2>5. CASE Disk(DownloadWrites(v))
    <3>1. /\ download[v] \in {"moved", "writing"} /\ download' = [download EXCEPT ![v] = "installing"]
          /\ UNCHANGED <<file, reverted>>
          /\ \/ side' = [side EXCEPT ![v] = pin[v]] /\ spoiled' = spoiled \ {v}
             \/ side' = side /\ spoiled' = spoiled \cup {v}
      BY <2>5 DEF DownloadWrites, Write, WriteFails
    <3> QED
      BY <1>1, <1>2, <1>3, <2>1, <3>1 DEF DirectoryTypes
  <2>6. CASE InstallReads(v) \/ InstallRegisters(v) \/ InstallCloses(v)
    <3>1. /\ download[v] \in {"installing", "registering", "closing"}
          /\ \E s \in {"registering", "closing", "none"} : download' = [download EXCEPT ![v] = s]
          /\ UNCHANGED <<file, side, spoiled, reverted>>
      BY <2>6 DEF InstallReads, InstallRegisters, InstallCloses
    <3> QED
      BY <1>1, <1>3, <2>1, <3>1 DEF DirectoryTypes
  <2> QED
    BY <1>5, <2>2, <2>3, <2>4, <2>5, <2>6 DEF AnyDownloadStep, DownloadStep
<1>6. ASSUME NEW c \in Callers, PutStep(c)
      PROVE  PinsAhead' /\ Told'
  BY <1>1, <1>6, PutFrame DEF disk, marks
<1>7. ASSUME NEW r \in Removers, UninstallStep(r)
      PROVE  PinsAhead' /\ Told'
  <2> USE DEF disk, marks
  <2>1. UNCHANGED <<pin, download>>
    BY <1>7, UninstallFrame
  <2>2. CASE DeleteFile(r)
    <3>1. \/ UNCHANGED <<file, side, spoiled, reverted>>
          \/ /\ file' = [file EXCEPT ![uninstall[r].key] = 0] /\ reverted' = reverted \ {uninstall[r].key}
             /\ UNCHANGED <<side, spoiled>>
      BY <2>2 DEF DeleteFile, RemoveFile
    <3> QED
      BY <1>1, <1>2, <1>3, <2>1, <3>1 DEF DirectoryTypes
  <2>3. CASE DeleteSidecar(r)
    <3>1. /\ side' \in {side, [side EXCEPT ![uninstall[r].key] = NoSide]}
          /\ UNCHANGED <<file, reverted>> /\ spoiled \subseteq spoiled'
      BY <2>3 DEF DeleteSidecar, RemoveSidecar
    <3> QED
      BY <1>1, <1>3, <2>1, <3>1 DEF DirectoryTypes
  <2>4. CASE UNCHANGED <<file, side, spoiled, reverted>>
    BY <1>1, <2>1, <2>4
  <2> QED
    BY <1>7, <2>2, <2>3, <2>4 DEF UninstallStep, Look, Uninstall, UninstallEnds, UninstallDropped, ivars
<1>8. CASE Restart
  <2>1. /\ \A v \in Variants : pin'[v] \in Nat /\ (pin'[v] # 0 => pin[v] # 0 /\ pin'[v] >= pin[v])
        /\ \A v \in Variants : download'[v] = "none"
        /\ UNCHANGED <<file, side, reverted>> /\ spoiled \subseteq spoiled'
        /\ \A v \in Variants : download[v] = "moved" /\ Known(side[v]) => v \in spoiled'
    BY <1>2, <1>8 DEF Restart, Restarts, Pins, disk
  <2> QED
    BY <1>1, <1>2, <1>3, <2>1 DEF DirectoryTypes
<1>9. CASE UNCHANGED vars
  BY <1>1, <1>9 DEF vars, ivars, disk, marks
<1> QED
  BY <1>4, <1>5, <1>6, <1>7, <1>8, <1>9, Hands


(* A file that is not there, and not offered, does not come back. *)
LEMMA StaysAway ==
  ASSUME DirectoryInv, [Next]_vars, ~Restart, Up, NEW v \in Variants, pin[v] = 0, file[v] = 0
  PROVE  pin' = pin /\ file'[v] = 0
<1> USE Basics
<1>1. QuietStart /\ PinsAhead /\ DirectoryTypes /\ UninstallFits
  BY DEF DirectoryInv, TypeOK, InstalledTypeOK, DirectoryTypes
<1>2. pin' = pin
  BY Hands, KeeperFrame, DownloadFrame, PutFrame, UninstallFrame DEF vars, ivars
<1>3. CASE KeeperStep
  <2>1. ASSUME NEW w \in Variants, Migrate(w) PROVE FALSE
    BY <2>1 DEF Migrate, KeeperAt, Up, Starting
  <2>2. UNCHANGED file
    BY <1>3, <2>1 DEF KeeperStep, Disk, disk, BackfillNext, MigrateDone, KeeperTruncates, KeeperWrites,
       Truncate, Write, WriteFails, BackfillScan, BackfillHash, BackfillDone, StartUp
  <2> QED
    BY <1>2, <2>2
<1>4. ASSUME NEW w \in Variants, AnyDownloadStep(w)
      PROVE  file'[v] = 0
  <2>1. CASE Disk(MoveIn(w))
    <3>1. file' = [file EXCEPT ![w] = pin[w]] /\ pin[w] # 0
      BY <1>1, <2>1 DEF Disk, MoveIn, PinsAhead
    <3> QED
      BY <1>1, <3>1 DEF DirectoryTypes
  <2>2. CASE UNCHANGED file
    BY <2>2
  <2> QED
    BY <1>4, <2>1, <2>2 DEF AnyDownloadStep, DownloadStep, Disk, disk, StartDownload, Fetch, FetchEnds,
       ShowAgain, Echo, DownloadTruncates, DownloadWrites, Truncate, Write, WriteFails, Clear,
       InstallReads, InstallRegisters, InstallCloses
<1>5. ASSUME NEW c \in Callers, PutStep(c) PROVE file'[v] = 0
  BY <1>5, PutFrame DEF disk
<1>6. ASSUME NEW r \in Removers, UninstallStep(r) PROVE file'[v] = 0
  <2>1. CASE DeleteFile(r)
    <3>1. UNCHANGED file \/ file' = [file EXCEPT ![uninstall[r].key] = 0]
      BY <2>1 DEF DeleteFile, RemoveFile, disk
    <3> QED
      BY <1>1, <3>1 DEF DirectoryTypes
  <2>2. CASE UNCHANGED file
    BY <2>2
  <2> QED
    BY <1>6, <2>1, <2>2 DEF UninstallStep, Look, Uninstall, DeleteSidecar, RemoveSidecar, UninstallEnds,
       UninstallDropped, ivars, disk
<1>7. CASE UNCHANGED vars
  BY <1>7 DEF vars, ivars, disk
<1> QED
  BY <1>2, <1>3, <1>4, <1>5, <1>6, <1>7, Hands

LEMMA UninstallFitsKept ==
  ASSUME DirectoryInv, [Next]_vars
  PROVE  UninstallFits'
<1> SUFFICES ASSUME NEW q \in Removers PROVE Fits(q)'
  BY DEF UninstallFits
<1> USE Basics
<1>1. UninstallFits /\ Fits(q) /\ QuietStart /\ UninstallType /\ DirectoryTypes
  BY DEF DirectoryInv, UninstallFits, TypeOK, InstalledTypeOK, UninstallType, Deletions, DirectoryTypes
<1>2. CASE Restart
  BY <1>2 DEF Restart, NoUninstall, Fits
<1>3. CASE UninstallStep(q)
  <2>1. UNCHANGED pin
    BY <1>3, UninstallFrame
  <2>2. CASE uninstall'[q].at = "sidecar"
    <3>1. /\ DeleteFile(q) /\ RemoveFile(uninstall[q].key) /\ uninstall[q].at = "file"
          /\ uninstall'[q].key = uninstall[q].key
      BY <1>1, <1>3, <2>2, OwnStep DEF NoUninstall
    <3>2. uninstall[q].key \in Variants
      BY <1>1, <3>1 DEF Fits
    <3>3. file'[uninstall[q].key] = 0
      BY <1>1, <3>1, <3>2 DEF RemoveFile, DirectoryTypes
    <3> QED
      BY <2>2, <3>1, <3>2, <3>3 DEF Fits
  <2>3. CASE uninstall'[q].at # "sidecar"
    <3>1. uninstall'[q].at \in {"file", "unload"} <=> uninstall'[q].key \in Variants
      <4>1. uninstall[q].todo \in SUBSET Variants
        BY <1>1 DEF UninstallType, Deletions
      <4> QED
        BY <1>1, <1>3, <2>3, <4>1, OwnStep DEF NoUninstall, Fits
    <3> QED
      BY <2>3, <3>1 DEF Fits
  <2> QED
    BY <2>2, <2>3
<1>4. CASE ~Restart /\ ~UninstallStep(q)
  <2>1. uninstall'[q].at = uninstall[q].at /\ uninstall'[q].key = uninstall[q].key
    BY <1>1, <1>4, OthersStep, MeetingIs
  <2>2. CASE uninstall[q].at = "sidecar" /\ pin'[uninstall[q].key] = 0
    <3>1. Up /\ uninstall[q].key \in Variants
      BY <1>1, <2>2 DEF QuietStart, Fits
    <3>2. pin' = pin
      BY <1>4, Hands, KeeperFrame, DownloadFrame, PutFrame, UninstallFrame DEF vars, ivars
    <3>3. file'[uninstall[q].key] = 0
      BY <1>1, <1>4, <2>2, <3>1, <3>2, StaysAway DEF Fits
    <3> QED
      BY <1>1, <2>1, <2>2, <3>3 DEF Fits
  <2> QED
    BY <1>1, <2>1, <2>2 DEF Fits
<1> QED
  BY <1>2, <1>3, <1>4

(* The inductive invariant of the directory holds of every execution. *)
THEOREM DirectoryInvariant == Spec => []DirectoryInv
<1>1. Init => DirectoryInv
  BY InitDirectory
<1>2. DirectoryInv /\ [Next]_vars => DirectoryInv'
  <2> SUFFICES ASSUME DirectoryInv, [Next]_vars PROVE DirectoryInv'
    OBVIOUS
  <2>1. TypeOK /\ KeeperFits /\ UninstallFits /\ QuietStart
    BY DEF DirectoryInv
  <2>2. TypeOK' /\ QuietStart'
    BY <2>1, TypesKept, QuietKept
  <2>3. KeeperFits' /\ PinsAhead' /\ Told' /\ UninstallFits'
    BY KeeperFitsKept, SidecarsKept, UninstallFitsKept
  <2> QED
    BY <2>2, <2>3 DEF DirectoryInv
<1> QED
  BY <1>1, <1>2, PTL DEF Spec

(* Installation!InstalledIsTold (installed.rs:4-6, 88-92): a sidecar never has the
   digest of a newer file, or of another file for longer than a download takes,
   unless the history says how it came to that; and a file that was published
   anew is offered as an update. *)
THEOREM InstallationIsTold == Spec => []InstalledIsTold
<1>1. DirectoryInv => InstalledIsTold
  <2> SUFFICES ASSUME DirectoryInv PROVE InstalledIsTold
    OBVIOUS
  <2>1. TypeOK /\ Told /\ PinsAhead
    BY DEF DirectoryInv
  <2>2. ASSUME NEW v \in Installed, pin[v] \notin {0, file[v]}, Known(side[v]), v \notin reverted
        PROVE  UpdateAvailable(v)
    <3>1. v \in Variants /\ file[v] # 0 /\ file[v] \in Nat /\ pin[v] \in Nat
      BY <2>1 DEF Installed, TypeOK, InstalledTypeOK
    <3>2. file[v] < pin[v]
      BY <2>1, <2>2, <3>1 DEF PinsAhead
    <3>3. side[v] = file[v] \/ side[v] < file[v]
      BY <2>1, <2>2, <3>1 DEF Told
    <3>4. side[v] \in Nat
      BY <2>2, Basics DEF Known, Versions
    <3> QED
      BY <2>2, <3>1, <3>2, <3>3, <3>4 DEF UpdateAvailable
  <2> QED
    BY <2>1, <2>2 DEF InstalledIsTold, Told
<1> QED
  BY <1>1, DirectoryInvariant, PTL


-----------------------------------------------------------------------------
(* What is on the list, or only missing from it while its sidecar is rewritten *)
Present == Installed \cup Unreadable

(* What a request that deletes several may come upon: what it has still to delete
   is there and nothing downloads it, or others have crossed it since it looked.
   What it has deleted is done with, but for the one at hand. *)
Asked(r) ==
  /\ uninstall[r].at = "none" => uninstall[r].gone = {}
  /\ uninstall[r].at # "none" =>
       /\ \/ uninstall[r].gone = {} /\ \E v \in Variants : uninstall[r].todo = {v}
          \/ \A v \in uninstall[r].todo \ uninstall[r].gone :
               v \in uninstall[r].met \/ (v \in Present /\ board[v] # "active")
       /\ uninstall[r].todo \cap uninstall[r].gone \subseteq {uninstall[r].key}
  /\ uninstall[r].at \in {"file", "sidecar", "unload"} => uninstall[r].key \in uninstall[r].todo
  /\ uninstall[r].at \in {"sidecar", "unload"} => uninstall[r].key \in uninstall[r].gone
  /\ uninstall[r].at = "file" =>
       /\ uninstall[r].key \notin uninstall[r].gone
       /\ board[uninstall[r].key] # "active" \/ uninstall[r].key \in uninstall[r].met
UninstallAsked == \A r \in Removers : Asked(r)

LEMMA OneOfThem ==
  ASSUME NEW S \in SUBSET Variants, Cardinality(S) = 1
  PROVE  \E v \in Variants : S = {v}
<1>1. IsFiniteSet(S)
  BY InstalledAssumption, FS_Subset
<1>2. PICK v \in S : TRUE
  BY <1>1, FS_EmptySet
<1>3. IsFiniteSet(S \ {v}) /\ Cardinality(S \ {v}) = 0
  BY <1>1, <1>2, FS_RemoveElement
<1>4. S \ {v} = {}
  BY <1>3, FS_EmptySet
<1> QED
  BY <1>2, <1>4

(* What is there, with what is offered unchanged, is missed when its file goes, or
   its sidecar while that alone names it. *)
LEMMA StaysPresent ==
  ASSUME DirectoryInv, DirectoryTypes', NEW v \in Present, pin' = pin, file'[v] # 0,
         pin[v] = 0 => side'[v] # NoSide
  PROVE  v \in Present'
<1>1. v \in Variants /\ side'[v] \in {NoSide, Garbled} \cup 0 .. Latest
  BY DEF Present, Installed, Unreadable, DirectoryTypes
<1>2. CASE pin[v] # 0
  BY <1>1, <1>2 DEF Present, Installed, Inferred
<1>3. CASE pin[v] = 0 /\ side'[v] = Garbled
  BY <1>1, <1>3 DEF Present, Unreadable, IsRetired
<1>4. CASE pin[v] = 0 /\ side'[v] \in 0 .. Latest
  BY <1>1, <1>4, Basics DEF Present, Installed, Versions
<1> QED
  BY <1>1, <1>2, <1>3, <1>4

LEMMA PresentIs ==
  ASSUME DirectoryInv, NEW v \in Present
  PROVE  v \in Variants /\ file[v] # 0 /\ (pin[v] = 0 => side[v] # NoSide)
  BY Basics DEF Present, Installed, Unreadable, Inferred, IsRetired, Versions

(* It leaves by an uninstall that deletes it and no other way. *)
LEMMA LeavesDeleted ==
  ASSUME DirectoryInv, [Next]_vars, ~Restart, Up, NEW v \in Present
  PROVE  \/ v \in Present'
         \/ \E r \in Removers : /\ DeleteFile(r) /\ uninstall[r].key = v /\ uninstall[r].at = "file"
<1> USE Basics
<1>1. /\ DirectoryTypes /\ UninstallFits /\ PinsAhead /\ KeeperType
      /\ v \in Variants /\ file[v] # 0 /\ (pin[v] = 0 => side[v] # NoSide)
  BY PresentIs DEF DirectoryInv, TypeOK, InstalledTypeOK, DirectoryTypes, KeeperType
<1>2. pin' = pin /\ DirectoryTypes'
  <2>1. TypeOK /\ KeeperFits /\ UninstallFits
    BY DEF DirectoryInv
  <2> QED
    BY <2>1, DirectoryTypesKept, Hands, KeeperFrame, DownloadFrame, PutFrame, UninstallFrame
    DEF vars, ivars
<1>3. SUFFICES ASSUME file'[v] = 0 \/ (pin[v] = 0 /\ side'[v] = NoSide)
               PROVE  \E r \in Removers : /\ DeleteFile(r) /\ uninstall[r].key = v
                                          /\ uninstall[r].at = "file"
  BY <1>2, StaysPresent
<1>4. CASE UNCHANGED <<file, side>>
  BY <1>1, <1>3, <1>4
<1>5. ASSUME KeeperStep PROVE FALSE
  <2> USE DEF Disk, disk, KeeperAt
  <2>1. ASSUME NEW w \in Variants, Migrate(w) PROVE FALSE
    BY <2>1 DEF Migrate, Up, Starting
  <2>2. CASE KeeperTruncates
    <3>1. file' = file /\ side' = [side EXCEPT ![keeper.at] = Garbled]
      BY <2>2 DEF KeeperTruncates, Truncate
    <3> QED
      BY <1>1, <1>3, <3>1 DEF DirectoryTypes
  <2>3. CASE KeeperWrites
    <3>1. file' = file /\ (side' = side \/ side' = [side EXCEPT ![keeper.at] = keeper.digest])
          /\ keeper.digest \in 0 .. Latest
      BY <1>1, <2>3 DEF KeeperWrites, Write, WriteFails, KeeperType
    <3> QED
      BY <1>1, <1>3, <3>1 DEF DirectoryTypes
  <2>4. CASE UNCHANGED <<file, side>>
    BY <1>1, <1>3, <2>4
  <2> QED
    BY <1>5, <2>1, <2>2, <2>3, <2>4
    DEF KeeperStep, BackfillNext, MigrateDone, BackfillScan, BackfillHash, BackfillDone, StartUp
<1>6. ASSUME NEW w \in Variants, AnyDownloadStep(w) PROVE FALSE
  <2> USE DEF Disk, disk
  <2>1. CASE UNCHANGED <<file, side>>
    BY <1>1, <1>3, <2>1
  <2>2. CASE Disk(MoveIn(w)) \/ Disk(DownloadTruncates(w)) \/ Disk(DownloadWrites(w))
    <3>1. pin[w] # 0
      BY <1>1, <2>2 DEF MoveIn, DownloadTruncates, DownloadWrites, PinsAhead
    <3>2. file' \in {file, [file EXCEPT ![w] = pin[w]]}
          /\ side' \in {side, [side EXCEPT ![w] = Garbled], [side EXCEPT ![w] = pin[w]]}
      BY <2>2 DEF MoveIn, DownloadTruncates, DownloadWrites, Truncate, Write, WriteFails
    <3>3. w = v => file'[v] # 0 /\ pin[v] # 0
      BY <1>1, <3>1, <3>2 DEF DirectoryTypes
    <3>4. w # v => file'[v] = file[v] /\ side'[v] = side[v]
      BY <1>1, <3>2 DEF DirectoryTypes
    <3> QED
      BY <1>1, <1>3, <3>3, <3>4
  <2> QED
    BY <1>6, <2>1, <2>2 DEF AnyDownloadStep, DownloadStep, StartDownload, Fetch, ShowAgain, Echo, FetchEnds,
       Clear, InstallReads, InstallRegisters, InstallCloses
<1>7. ASSUME NEW c \in Callers, PutStep(c) PROVE FALSE
  BY <1>4, <1>1, <1>3, <1>7, PutFrame DEF disk
<1>8. ASSUME NEW r \in Removers, UninstallStep(r)
      PROVE  DeleteFile(r) /\ uninstall[r].key = v /\ uninstall[r].at = "file"
  <2> USE DEF disk
  <2>1. CASE DeleteFile(r)
    <3>1. uninstall[r].at = "file" /\ side' = side
          /\ (file' = file \/ file' = [file EXCEPT ![uninstall[r].key] = 0])
      BY <2>1 DEF DeleteFile, RemoveFile
    <3> QED
      BY <1>1, <1>3, <2>1, <3>1 DEF DirectoryTypes
  <2>2. CASE DeleteSidecar(r)
    <3>1. uninstall[r].at = "sidecar" /\ file' = file
          /\ (side' = side \/ side' = [side EXCEPT ![uninstall[r].key] = NoSide])
      BY <2>2 DEF DeleteSidecar, RemoveSidecar
    <3>2. pin[v] = 0 => v # uninstall[r].key
      BY <1>1, <3>1 DEF UninstallFits, Fits
    <3> QED
      BY <1>1, <1>3, <3>1, <3>2 DEF DirectoryTypes
  <2>3. CASE UNCHANGED <<file, side>>
    BY <1>1, <1>3, <2>3
  <2> QED
    BY <1>8, <2>1, <2>2, <2>3 DEF UninstallStep, Look, Uninstall, UninstallEnds, UninstallDropped, ivars
<1>9. CASE UNCHANGED vars
  BY <1>4, <1>1, <1>3, <1>9 DEF vars, ivars, disk
<1> QED
  BY <1>5, <1>6, <1>7, <1>8, <1>9, Hands

(* Nothing is shown as downloading but what was started or shown once more. *)
LEMMA ShownActive ==
  ASSUME DirectoryInv, [Next]_vars, ~Restart, NEW v \in Variants, board[v] # "active",
         ~StartDownload(v), ~ShowAgain(v)
  PROVE  board'[v] # "active"
<1>1. DirectoryTypes
  BY DEF DirectoryInv, TypeOK, InstalledTypeOK, DirectoryTypes
<1>2. CASE UNCHANGED board
  BY <1>2
<1>3. ASSUME NEW w \in Variants, AnyDownloadStep(w) PROVE board'[v] # "active"
  <2> USE DEF Disk, Show, notices
  <2>1. CASE w # v /\ \E p \in {"active", "none", "failed", "completed"} : board' = [board EXCEPT ![w] = p]
    BY <1>1, <2>1 DEF DirectoryTypes
  <2>2. CASE \E p \in {"none", "failed", "completed"} : board' = [board EXCEPT ![w] = p]
    BY <1>1, <2>2 DEF DirectoryTypes
  <2>3. CASE StartDownload(w) \/ ShowAgain(w)
    BY <2>1, <2>3 DEF StartDownload, Fetch, ShowAgain, Echo, ShowAgain, Echo
  <2>4. CASE Disk(FetchEnds(w)) \/ Disk(Clear(w)) \/ InstallReads(w)
    BY <2>2, <2>4 DEF FetchEnds, Clear, InstallReads
  <2>5. CASE \/ Disk(MoveIn(w)) \/ Disk(DownloadTruncates(w)) \/ Disk(DownloadWrites(w))
             \/ InstallRegisters(w) \/ InstallCloses(w)
    BY <1>2, <2>5 DEF MoveIn, DownloadTruncates, DownloadWrites, Truncate, Write, WriteFails,
                      InstallRegisters, InstallCloses
  <2> QED
    BY <1>3, <2>3, <2>4, <2>5 DEF AnyDownloadStep, DownloadStep
<1>4. ASSUME NEW r \in Removers, UninstallStep(r) PROVE board'[v] # "active"
  <2>1. CASE UninstallEnds(r)
    BY <1>1, <2>1 DEF UninstallEnds, DirectoryTypes
  <2>2. CASE ~UninstallEnds(r)
    BY <1>4, <2>2 DEF UninstallStep, Look, Uninstall, DeleteFile, DeleteSidecar, UninstallDropped,
                      ivars, notices
  <2> QED
    BY <2>1, <2>2
<1> QED
  BY <1>2, <1>3, <1>4, Hands, KeeperFrame, PutFrame DEF vars, ivars, notices

(* What a step of its own makes of a request *)
LEMMA AskedByOwn ==
  ASSUME DirectoryInv, UninstallAsked, NEW q \in Removers, UninstallStep(q), [Next]_vars, ~Restart
  PROVE  Asked(q)'
<1> USE Basics DEF NoUninstall
<1>1. UninstallType /\ UninstallFits /\ Asked(q) /\ Fits(q) /\ DirectoryTypes
  BY DEF DirectoryInv, UninstallFits, UninstallAsked, TypeOK, InstalledTypeOK, UninstallType, Deletions,
         DirectoryTypes
<1> DEFINE u == uninstall[q]
           w == uninstall'[q]
<1>2. u.todo \in SUBSET Variants /\ u \in Deletions /\ UninstallAsked
  BY <1>1 DEF UninstallType, Deletions
<1>3. CASE w = NoUninstall
  BY <1>3 DEF Asked
<1>4. CASE /\ u.at = "none" /\ w.at = "look" /\ w.key = NoVariant /\ w.gone = {} /\ w.met = {}
           /\ Uninstall(q, w.todo)
  <2>1. UNCHANGED <<pin, file, side, board>>
    BY <1>4 DEF Uninstall, disk, notices
  <2>2. w \in Deletions
    BY <1>1, OwnStep
  <2>3. (\E v \in Variants : w.todo = {v}) \/ \A v \in w.todo : v \in Present /\ board[v] # "active"
    BY <1>4, <2>2, OneOfThem DEF Uninstall, Present, Deletions
  <2>4. Present' = Present
    BY <2>1 DEF Present, Installed, Inferred, Unreadable, IsRetired
  <2> QED
    BY <1>4, <2>1, <2>3, <2>4 DEF Asked
<1>5. CASE /\ u.at = "look" /\ w.at = "file" /\ w.key \in u.todo /\ Look(q, w.key)
           /\ board[w.key] # "active"
           /\ w.todo = u.todo /\ w.gone = u.gone /\ w.met = u.met
  <2>1. UNCHANGED <<pin, file, side, board>>
    BY <1>5 DEF Look, ivars, disk, notices
  <2>2. Present' = Present
    BY <2>1 DEF Present, Installed, Inferred, Unreadable, IsRetired
  <2>3. u.todo \cap u.gone = {}
    BY <1>1, <1>2, <1>5 DEF Asked, Fits, Deletions
  <2> QED
    BY <1>1, <1>5, <2>1, <2>2, <2>3 DEF Asked
<1>6. CASE /\ DeleteFile(q) /\ u.at = "file" /\ w.at = "sidecar" /\ w.gone = u.gone \cup {u.key}
           /\ RemoveFile(u.key)
           /\ w.key = u.key /\ w.todo = u.todo /\ w.met = u.met
  <2>1. UNCHANGED <<pin, side, board>> /\ file' = [file EXCEPT ![u.key] = 0]
    BY <1>6 DEF DeleteFile, RemoveFile, notices
  <2>2. \A v \in Variants \ {u.key} : v \in Present => v \in Present'
    BY <1>1, <2>1 DEF Present, Installed, Inferred, Unreadable, IsRetired, DirectoryTypes
  <2>3. \/ u.gone = {} /\ u.todo \ w.gone = {}
        \/ \A v \in u.todo \ u.gone : v \in u.met \/ (v \in Present /\ board[v] # "active")
    BY <1>1, <1>6 DEF Asked
  <2>4. \A v \in u.todo \ w.gone : v \in u.met \/ (v \in Present' /\ board'[v] # "active")
    BY <1>2, <1>6, <2>1, <2>2, <2>3
  <2> QED
    BY <1>1, <1>6, <2>4 DEF Asked
<1>7. CASE /\ DeleteSidecar(q) /\ u.at = "sidecar" /\ w.at = "unload"
           /\ w.key = u.key /\ w.todo = u.todo /\ w.gone = u.gone /\ w.met = u.met
  <2>1. /\ UNCHANGED <<pin, file, board>>
        /\ side' = side \/ side' = [side EXCEPT ![u.key] = NoSide]
    BY <1>7 DEF DeleteSidecar, RemoveSidecar, notices
  <2>2. \A v \in Variants \ {u.key} : v \in Present => v \in Present'
    BY <1>1, <2>1 DEF Present, Installed, Inferred, Unreadable, IsRetired, DirectoryTypes
  <2>3. u.key \in u.gone
    BY <1>1, <1>7 DEF Asked
  <2>4. \A v \in u.todo \ u.gone : v \in u.met \/ (v \in Present' /\ board'[v] # "active")
    BY <1>1, <1>2, <1>7, <2>1, <2>2, <2>3 DEF Asked
  <2> QED
    BY <1>1, <1>7, <2>3, <2>4 DEF Asked
<1>8. CASE /\ UninstallEnds(q) /\ u.at = "unload" /\ w.at = "look" /\ w.key = NoVariant
           /\ w.todo = u.todo \ {u.key} /\ w.gone = u.gone /\ w.met = u.met
  <2>1. /\ UNCHANGED <<pin, file, side>>
        /\ \A v \in Variants : board[v] # "active" => board'[v] # "active"
    BY <1>1, <1>8 DEF UninstallEnds, disk, DirectoryTypes
  <2>2. Present' = Present
    BY <2>1 DEF Present, Installed, Inferred, Unreadable, IsRetired
  <2>3. /\ u.key \in u.gone /\ u.todo \cap u.gone \subseteq {u.key}
        /\ \A v \in u.todo \ u.gone : v \in u.met \/ (v \in Present /\ board[v] # "active")
    BY <1>1, <1>8 DEF Asked
  <2>4. \A v \in w.todo \ w.gone : v \in w.met \/ (v \in Present' /\ board'[v] # "active")
    BY <1>2, <1>8, <2>1, <2>2, <2>3
  <2> QED
    BY <1>8, <2>3, <2>4 DEF Asked
<1> QED
  BY <1>1, <1>3, <1>4, <1>5, <1>6, <1>7, <1>8, OwnStep

(* and one of others, who leave a note when they cross it *)
LEMMA AskedByOthers ==
  ASSUME DirectoryInv, UninstallAsked, NEW q \in Removers, ~UninstallStep(q), [Next]_vars, ~Restart
  PROVE  Asked(q)'
<1> USE Basics
<1>1. UninstallType /\ UninstallFits /\ Asked(q) /\ QuietStart
  BY DEF DirectoryInv, UninstallAsked, TypeOK, UninstallType, Deletions
<1> DEFINE u == uninstall[q]
           w == uninstall'[q]
<1>2. u.todo \in SUBSET Variants /\ u.key \in Variants \cup {NoVariant}
  BY <1>1 DEF UninstallType, Deletions
<1>3. /\ w.at = u.at /\ w.todo = u.todo /\ w.key = u.key /\ w.gone = u.gone
      /\ u.met \subseteq w.met
  BY <1>1, OthersStep, MeetingIs
<1>4. ASSUME NEW v \in u.todo, StartDownload(v) \/ ShowAgain(v) PROVE v \in w.met
  <2>1. w = Meeting(q, v)
    BY <1>4 DEF StartDownload, ShowAgain, Met
  <2> QED
    BY <1>1, <2>1, MeetingIs
<1>5. ASSUME NEW r \in Removers, DeleteFile(r), uninstall[r].key \in u.todo, uninstall[r].key \in Present,
             uninstall[r].key \notin Present'
      PROVE  uninstall[r].key \in w.met
  <2>1. r # q
    BY <1>5 DEF UninstallStep
  <2>2. CASE w = Meeting(q, uninstall[r].key)
    BY <1>1, <1>5, <2>2, MeetingIs
  <2>3. CASE UNCHANGED disk
    <3>1. UNCHANGED <<pin, file, side>>
      BY <1>5, <2>3 DEF DeleteFile, disk
    <3>2. Present' = Present
      BY <3>1 DEF Present, Installed, Inferred, Unreadable, IsRetired
    <3> QED
      BY <1>5, <3>2
  <2> QED
    BY <1>5, <2>1, <2>2, <2>3 DEF DeleteFile
<1>6. ASSUME u.at # "none", NEW v \in u.todo \ u.gone, v \in Present, board[v] # "active"
      PROVE  v \in w.met \/ (v \in Present' /\ board'[v] # "active")
  <2>1. v \in Variants /\ Up
    BY <1>1, <1>2, <1>6 DEF QuietStart
  <2>2. board'[v] # "active" \/ v \in w.met
    BY <1>4, <1>6, <2>1, ShownActive
  <2>3. v \in Present' \/ v \in w.met
    BY <1>5, <1>6, <2>1, LeavesDeleted
  <2> QED
    BY <2>2, <2>3
<1>7. ASSUME u.at = "file", board[u.key] # "active"
      PROVE  board'[u.key] # "active" \/ u.key \in w.met
  <2>1. u.key \in Variants /\ u.key \in u.todo
    BY <1>1, <1>7 DEF UninstallFits, Fits, Asked
  <2> QED
    BY <1>4, <1>7, <2>1, ShownActive
<1>8. u.at # "none" =>
        \/ u.gone = {} /\ \E v \in Variants : u.todo = {v}
        \/ \A v \in u.todo \ u.gone : v \in w.met \/ (v \in Present' /\ board'[v] # "active")
  BY <1>1, <1>3, <1>6 DEF Asked
<1> HIDE DEF u, w
<1>9. Asked(q)
  BY <1>1
<1> QED
  BY <1>3, <1>7, <1>8, <1>9 DEF Asked, u, w

LEMMA AskedKept ==
  ASSUME DirectoryInv, UninstallAsked, [Next]_vars
  PROVE  UninstallAsked'
<1>1. CASE Restart
  BY <1>1 DEF Restart, NoUninstall, UninstallAsked, Asked
<1>2. CASE ~Restart
  BY <1>2, AskedByOwn, AskedByOthers DEF UninstallAsked
<1> QED
  BY <1>1, <1>2

-----------------------------------------------------------------------------
LEMMA NoneLeavesUnasked ==
  ASSUME DirectoryInv, UninstallAsked, [Next]_vars, NEW v \in Variants
  PROVE  ~LeavesUnasked(v)
<1> SUFFICES ASSUME LeavesUnasked(v) PROVE FALSE
  OBVIOUS
<1>1. /\ v \in Present /\ v \notin Installed' /\ Up /\ Up'
      /\ ~(pin[v] = 0 /\ side'[v] = Garbled)
  BY DEF LeavesUnasked, Present, IsRetired
<1>2. ~Restart
  BY <1>1 DEF Restart, Restarts, Keeper, Up, Starting
<1>3. pin' = pin
  BY <1>2, Hands, KeeperFrame, DownloadFrame, PutFrame, UninstallFrame DEF vars, ivars
<1>4. v \notin Present'
  BY <1>1, <1>3 DEF Present, Unreadable, IsRetired
<1>5. PICK r \in Removers : uninstall[r].key = v /\ uninstall[r].at = "file"
  BY <1>1, <1>2, <1>4, LeavesDeleted
<1>6. board[v] # "active" \/ v \in uninstall[r].met
  BY <1>5 DEF UninstallAsked, Asked
<1> QED
  BY <1>5, <1>6 DEF LeavesUnasked

LEMMA NoneStopsUncrossed ==
  ASSUME DirectoryInv, UninstallAsked, [Next]_vars, NEW r \in Removers
  PROVE  ~StopsUncrossed(r)
<1> DEFINE u == uninstall[r]
<1>1. UninstallType /\ UninstallFits /\ Fits(r) /\ Asked(r) /\ events \in Nat /\ u \in Deletions
  BY DEF DirectoryInv, UninstallFits, UninstallAsked, TypeOK, InstalledTypeOK, UninstallType, Deletions
<1> SUFFICES ASSUME u.gone # {}, uninstall'[r].at = "none", events' = events, u.todo \ u.gone # {},
                    \A v \in u.todo \ u.gone : v \notin u.met /\ v \notin Unreadable
             PROVE  FALSE
  BY DEF StopsUncrossed
<1>2. /\ u.at # "none"
      /\ \A v \in u.todo \ u.gone : v \in Installed /\ board[v] # "active"
  BY <1>1 DEF Asked, Present
<1>3. ~Restart
  BY <1>1 DEF Restart, Restarts, Event
<1>4. UninstallStep(r)
  BY <1>1, <1>2, <1>3, OthersStep, MeetingIs
<1>5. ASSUME NEW v \in Variants, Look(r, v) PROVE FALSE
  <2>1. u.at = "look" /\ v \in u.todo
    BY <1>5 DEF Look
  <2>2. v \notin u.gone
    BY <1>1, <2>1, Basics DEF Asked, Fits, Deletions
  <2>3. uninstall'[r] = [u EXCEPT !.at = "file", !.key = v]
    BY <1>1, <1>2, <1>5, <2>1, <2>2 DEF Look, Remover, UninstallType
  <2> QED
    BY <1>1, <2>3 DEF Deletions
<1>6. ASSUME NEW S \in SUBSET Variants, Uninstall(r, S) PROVE FALSE
  BY <1>2, <1>6 DEF Uninstall, Uninstalling
<1>7. ASSUME DeleteFile(r) PROVE FALSE
  <2>1. u.at = "file" /\ u.key \in u.todo \ u.gone
    BY <1>1, <1>7 DEF DeleteFile, Asked
  <2>2. u.key \in Installed
    BY <1>2, <2>1
  <2>3. uninstall'[r] = [u EXCEPT !.at = "sidecar", !.gone = @ \cup {u.key}]
    BY <1>1, <1>7, <2>2 DEF DeleteFile, Event
  <2> QED
    BY <1>1, <2>3 DEF Deletions
<1>8. ASSUME DeleteSidecar(r) PROVE FALSE
  <2>1. uninstall'[r] = [u EXCEPT !.at = "unload"]
    BY <1>1, <1>8 DEF DeleteSidecar, Remover, UninstallType
  <2> QED
    BY <1>1, <2>1 DEF Deletions
<1>9. ASSUME UninstallEnds(r) PROVE FALSE
  <2>1. u.at = "unload" /\ u.key \in u.gone
    BY <1>1, <1>9 DEF UninstallEnds, Asked
  <2> DEFINE left == u.todo \ {u.key}
  <2>2. left # {}
    BY <2>1
  <2>3. uninstall'[r] = [u EXCEPT !.at = "look", !.todo = left, !.key = NoVariant]
    BY <1>1, <1>9, <2>2 DEF UninstallEnds, Remover, UninstallType
  <2> HIDE DEF left
  <2> QED
    BY <1>1, <2>3 DEF Deletions
<1>10. ~UninstallDropped(r)
  BY <1>1 DEF UninstallDropped, Event
<1> QED
  BY <1>4, <1>5, <1>6, <1>7, <1>8, <1>9, <1>10 DEF UninstallStep

(* Installation!NothingLeavesUnasked (catalog.rs:146-149, install.rs:88-93): while
   the add-on runs, a Variant leaves the list only by an uninstall that has seen
   that nothing downloads it, and if it is shown as downloading when it goes,
   that came later; or, dropped from the catalog, while its sidecar is rewritten.
   An uninstall of several stops half way only when it was crossed. *)
THEOREM InstallationKeepsWhatNobodyRemoved == Spec => NothingLeavesUnasked
<1>1. Init => UninstallAsked
  BY DEF Init, NoUninstall, UninstallAsked, Asked
<1>2. DirectoryInv /\ UninstallAsked /\ [Next]_vars => UninstallAsked'
  BY AskedKept
<1> DEFINE A == /\ \A v \in Variants : ~LeavesUnasked(v)
                /\ \A r \in Removers : ~StopsUncrossed(r)
<1>3. DirectoryInv /\ UninstallAsked /\ [Next]_vars => A
  BY NoneLeavesUnasked, NoneStopsUncrossed
<1>4. Spec => []UninstallAsked
  BY <1>1, <1>2, DirectoryInvariant, PTL DEF Spec
<1> HIDE DEF A
<1>5. Spec => [][A]_vars
  BY <1>3, <1>4, DirectoryInvariant, PTL DEF Spec
<1> USE DEF A
<1> QED
  BY <1>5, PTL DEF NothingLeavesUnasked



-----------------------------------------------------------------------------
(* What the fingerprints may still bring onto the list: a file whose sidecar the
   keeper has yet to write.  A Variant is settled when it is on the list, or may
   come back to it so, and no download of it is about to register. *)
Visited == {v \in Variants : v \in keeper.todo \/ v = keeper.at}
Servable == {v \in Variants : file[v] # 0 /\ (v \in Installed \/ v \in Visited)}
Settled == {v \in Servable : download[v] \in {"none", "fetching", "closing"}}

(* Of a file that is no longer offered, the keeper has seen a sidecar. *)
VisitedDescribed ==
  Up => \A v \in Visited : pin[v] = 0 /\ file[v] # 0 => side[v] # NoSide

LEMMA UpChanges ==
  ASSUME DirectoryInv, [Next]_vars, Up'
  PROVE  Up \/ (StartUp /\ Visited' = {})
<1> USE DEF Up, Starting
<1>1. KeeperType /\ KeeperFits
  BY DEF DirectoryInv, TypeOK, InstalledTypeOK, KeeperType
<1>2. CASE KeeperStep
  <2> USE DEF Disk, KeeperAt, Keep, OnTo, Skip, KeeperType
  <2>1. ASSUME NEW v \in Variants, Migrate(v) \/ BackfillNext(v) PROVE Up
    BY <1>1, <2>1 DEF Migrate, BackfillNext
  <2>2. CASE MigrateDone \/ BackfillScan \/ BackfillDone \/ BackfillHash
    BY <1>1, <2>2 DEF MigrateDone, BackfillScan, BackfillDone, BackfillHash
  <2>3. CASE KeeperTruncates \/ KeeperWrites
    BY <1>1, <2>3 DEF KeeperTruncates, KeeperWrites
  <2>4. CASE StartUp
    <3>1. keeper' = [keeper EXCEPT !.job = "scan"] /\ keeper.job = "register"
      BY <2>4 DEF StartUp
    <3>2. keeper'.todo = {} /\ keeper'.at \notin Variants
      BY <1>1, <3>1 DEF KeeperFits, Writing
    <3> QED
      BY <2>4, <3>2 DEF Visited
  <2> QED
    BY <1>2, <2>1, <2>2, <2>3, <2>4 DEF KeeperStep
<1>3. CASE UNCHANGED keeper
  BY <1>3
<1>4. CASE Restart
  BY <1>4 DEF Restart, Restarts, Keeper
<1> QED
  BY <1>2, <1>3, <1>4, Hands, DownloadFrame, PutFrame, UninstallFrame DEF vars, ivars

(* What the keeper does once the add-on is up. *)
LEMMA KeeperVisits ==
  ASSUME DirectoryInv, KeeperStep, Up
  PROVE  /\ UNCHANGED <<file, stored, engines, calls>>
         /\ \/ side' = side /\ Visited' \subseteq Visited
            \/ side' = side /\ Visited' \subseteq Installed
            \/ /\ keeper.at \in Visited /\ Visited' \subseteq Visited
               /\ \E s \in {Garbled} \cup 0 .. Latest : side' = [side EXCEPT ![keeper.at] = s]
<1> USE Basics DEF Up, Starting, Disk, disk, KeeperAt, Keep, OnTo, Skip
<1>1. KeeperType /\ KeeperFits
  BY DEF DirectoryInv, TypeOK, InstalledTypeOK, KeeperType
<1>2. ASSUME NEW v \in Variants, Disk(Migrate(v)) PROVE FALSE
  BY <1>2 DEF Migrate
<1>3. CASE StartUp \/ Disk(MigrateDone)
  BY <1>3 DEF StartUp, MigrateDone
<1>4. ASSUME NEW v \in Variants, Disk(BackfillNext(v))
      PROVE  UNCHANGED <<file, side, stored, engines, calls>> /\ Visited' \subseteq Visited
  BY <1>1, <1>4 DEF BackfillNext, Visited, KeeperType
<1>5. CASE Disk(BackfillScan)
  <2>1. keeper'.todo \subseteq Installed /\ keeper'.at = NoVariant
        /\ UNCHANGED <<file, side, stored, engines, calls>>
    BY <1>5 DEF BackfillScan, Keeper
  <2> QED
    BY <2>1 DEF Visited
<1>6. CASE Disk(BackfillDone) \/ Disk(BackfillHash)
  <2>1. UNCHANGED <<file, side, stored, engines, calls>>
    BY <1>6 DEF BackfillDone, BackfillHash
  <2>2. keeper'.todo \subseteq keeper.todo /\ keeper'.at \in {keeper.at, NoVariant}
    BY <1>1, <1>6 DEF BackfillDone, BackfillHash, KeeperType
  <2> QED
    BY <2>1, <2>2 DEF Visited
<1>7. CASE Disk(KeeperTruncates) \/ Disk(KeeperWrites)
  <2>1. keeper.at \in Variants /\ keeper.digest \in 0 .. Latest
    BY <1>1, <1>7 DEF KeeperTruncates, KeeperWrites, KeeperFits, Writing, KeeperType
  <2>2. UNCHANGED <<file, stored, engines, calls>>
    BY <1>7 DEF KeeperTruncates, KeeperWrites, Truncate, Write, WriteFails
  <2>3. keeper'.todo \subseteq keeper.todo /\ keeper'.at \in {keeper.at, NoVariant}
    BY <1>1, <1>7 DEF KeeperTruncates, KeeperWrites, KeeperType
  <2>4. side' \in {side, [side EXCEPT ![keeper.at] = Garbled], [side EXCEPT ![keeper.at] = keeper.digest]}
    BY <1>7 DEF KeeperTruncates, KeeperWrites, Truncate, Write, WriteFails
  <2> QED
    BY <2>1, <2>2, <2>3, <2>4 DEF Visited
<1> QED
  BY <1>2, <1>3, <1>4, <1>5, <1>6, <1>7 DEF KeeperStep


LEMMA DescribedKept ==
  ASSUME DirectoryInv, VisitedDescribed, [Next]_vars
  PROVE  VisitedDescribed'
<1> SUFFICES ASSUME Up', NEW v \in Variants, v \in Visited', pin'[v] = 0, file'[v] # 0
             PROVE  side'[v] # NoSide
  BY DEF VisitedDescribed, Visited
<1> USE Basics
<1>1. DirectoryTypes /\ UninstallFits /\ PinsAhead
  BY DEF DirectoryInv, TypeOK, InstalledTypeOK, DirectoryTypes
<1>2. CASE ~Up
  BY <1>2, UpChanges
<1>3. CASE Up /\ v \in Visited /\ UNCHANGED <<pin, file, side>>
  BY <1>3 DEF VisitedDescribed
<1>4. CASE Up /\ KeeperStep
  <2>1. UNCHANGED <<pin, file>>
    BY <1>4, KeeperVisits, KeeperFrame
  <2>2. CASE side' = side /\ Visited' \subseteq Visited
    BY <1>3, <1>4, <2>1, <2>2
  <2>3. CASE side' = side /\ Visited' \subseteq Installed
    BY <2>1, <2>3 DEF Installed, Inferred, Versions
  <2>4. ASSUME NEW s \in {Garbled} \cup 0 .. Latest, Visited' \subseteq Visited,
               keeper.at \in Visited, side' = [side EXCEPT ![keeper.at] = s]
        PROVE  side'[v] # NoSide
    BY <1>1, <1>4, <2>1, <2>4 DEF VisitedDescribed, DirectoryTypes
  <2> QED
    BY <1>4, <2>2, <2>3, <2>4, KeeperVisits
<1>5. ASSUME NEW w \in Variants, AnyDownloadStep(w), Up
      PROVE  side'[v] # NoSide
  <2> USE DEF Disk, disk
  <2>1. UNCHANGED <<pin, keeper>>
    BY <1>5, DownloadFrame
  <2>2. CASE UNCHANGED <<file, side>>
    BY <1>3, <1>5, <2>1, <2>2 DEF Visited
  <2>3. CASE Disk(MoveIn(w)) \/ Disk(DownloadTruncates(w)) \/ Disk(DownloadWrites(w))
    <3>1. pin[w] # 0
      BY <1>1, <2>3 DEF MoveIn, DownloadTruncates, DownloadWrites, PinsAhead
    <3>2. file' \in {file, [file EXCEPT ![w] = pin[w]]}
          /\ side' \in {side, [side EXCEPT ![w] = Garbled], [side EXCEPT ![w] = pin[w]]}
      BY <2>3 DEF MoveIn, DownloadTruncates, DownloadWrites, Truncate, Write, WriteFails
    <3>3. file'[v] = file[v] /\ side'[v] = side[v]
      BY <1>1, <2>1, <3>1, <3>2 DEF DirectoryTypes
    <3> QED
      BY <1>5, <2>1, <3>3 DEF VisitedDescribed, Visited
  <2> QED
    BY <1>5, <2>2, <2>3 DEF AnyDownloadStep, DownloadStep, StartDownload, Fetch, ShowAgain, Echo, FetchEnds, Clear,
       InstallReads, InstallRegisters, InstallCloses
<1>6. ASSUME NEW c \in Callers, PutStep(c), Up
      PROVE  side'[v] # NoSide
  BY <1>3, <1>6, PutFrame DEF disk, Visited
<1>7. ASSUME NEW r \in Removers, UninstallStep(r), Up
      PROVE  side'[v] # NoSide
  <2> USE DEF disk
  <2>1. UNCHANGED <<pin, keeper>>
    BY <1>7, UninstallFrame
  <2>2. CASE UNCHANGED <<file, side>>
    BY <1>3, <1>7, <2>1, <2>2 DEF Visited
  <2>3. CASE DeleteFile(r)
    <3>1. side' = side /\ (file' = file \/ file' = [file EXCEPT ![uninstall[r].key] = 0])
      BY <2>3 DEF DeleteFile, RemoveFile
    <3>2. file'[v] = file[v]
      BY <1>1, <3>1 DEF DirectoryTypes
    <3> QED
      BY <1>7, <2>1, <3>1, <3>2 DEF VisitedDescribed, Visited
  <2>4. CASE DeleteSidecar(r)
    <3>1. uninstall[r].at = "sidecar" /\ file' = file
          /\ (side' = side \/ side' = [side EXCEPT ![uninstall[r].key] = NoSide])
      BY <2>4 DEF DeleteSidecar, RemoveSidecar
    <3>2. v # uninstall[r].key
      BY <2>1, <3>1, <1>1 DEF UninstallFits, Fits
    <3>3. side'[v] = side[v]
      BY <1>1, <3>1, <3>2 DEF DirectoryTypes
    <3> QED
      BY <1>7, <2>1, <3>1, <3>3 DEF VisitedDescribed, Visited
  <2> QED
    BY <1>7, <2>2, <2>3, <2>4 DEF UninstallStep, Look, Uninstall, UninstallEnds, UninstallDropped, ivars
<1>8. CASE Restart
  BY <1>8 DEF Restart, Restarts, Keeper, Up, Starting
<1>9. CASE Up /\ UNCHANGED vars
  BY <1>3, <1>9 DEF vars, ivars, disk, Visited
<1> QED
  BY <1>2, <1>4, <1>5, <1>6, <1>7, <1>8, <1>9, Hands

(* Nothing settles but what has registered. *)
LEMMA SettledOnly ==
  ASSUME DirectoryInv, [Next]_vars, Up, Up', NEW v \in Settled'
  PROVE  v \in Settled \/ (InstallRegisters(v) /\ v \in Installed)
<1> USE Basics
<1>1. /\ DirectoryTypes /\ PinsAhead /\ v \in Variants /\ file'[v] # 0
      /\ download'[v] \in {"none", "fetching", "closing"} /\ (v \in Installed' \/ v \in Visited')
  BY DEF DirectoryInv, TypeOK, InstalledTypeOK, DirectoryTypes, Settled, Servable
<1>2. CASE UNCHANGED <<pin, keeper>> /\ file'[v] = file[v] /\ side'[v] = side[v] /\ download'[v] = download[v]
  BY <1>1, <1>2 DEF Settled, Servable, Installed, Inferred, Visited
<1>3. CASE KeeperStep
  <2>1. UNCHANGED <<pin, file, download>>
    BY <1>3, KeeperVisits, KeeperFrame
  <2>2. v \in Servable => v \in Settled
    BY <1>1, <2>1 DEF Settled
  <2>3. CASE side' = side /\ (Visited' \subseteq Visited \/ Visited' \subseteq Installed)
    BY <1>1, <2>1, <2>2, <2>3 DEF Servable, Installed, Inferred
  <2>4. ASSUME NEW s, keeper.at \in Visited, Visited' \subseteq Visited, side' = [side EXCEPT ![keeper.at] = s]
        PROVE  v \in Settled
    <3>1. CASE v = keeper.at
      BY <1>1, <2>1, <2>2, <2>4, <3>1 DEF Servable
    <3>2. CASE v # keeper.at
      BY <1>1, <2>1, <2>2, <2>4, <3>2 DEF Servable, Installed, Inferred, DirectoryTypes
    <3> QED
      BY <3>1, <3>2
  <2> QED
    BY <1>3, <2>3, <2>4, KeeperVisits
<1>4. ASSUME NEW w \in Variants, AnyDownloadStep(w)
      PROVE  v \in Settled \/ (InstallRegisters(v) /\ v \in Installed)
  <2> USE DEF Disk, disk, Stage
  <2>1. UNCHANGED <<pin, keeper>>
    BY <1>4, DownloadFrame
  <2>2. CASE v # w
    <3>1. /\ download' = download \/ \E s : download' = [download EXCEPT ![w] = s]
          /\ file' = file \/ file' = [file EXCEPT ![w] = pin[w]]
          /\ side' = side \/ \E s : side' = [side EXCEPT ![w] = s]
      <4>1. CASE StartDownload(w) \/ ShowAgain(w) \/ Disk(FetchEnds(w)) \/ Disk(MoveIn(w)) \/ Disk(Clear(w))
        BY <4>1 DEF StartDownload, Fetch, ShowAgain, Echo, FetchEnds, MoveIn, Clear
      <4>2. CASE Disk(DownloadTruncates(w)) \/ Disk(DownloadWrites(w))
        BY <4>2 DEF DownloadTruncates, DownloadWrites, Truncate, Write, WriteFails
      <4>3. CASE InstallReads(w) \/ InstallRegisters(w) \/ InstallCloses(w)
        BY <4>3 DEF InstallReads, InstallRegisters, InstallCloses
      <4> QED
        BY <1>4, <4>1, <4>2, <4>3 DEF AnyDownloadStep, DownloadStep
    <3>2. file'[v] = file[v] /\ side'[v] = side[v] /\ download'[v] = download[v]
      BY <1>1, <2>2, <3>1 DEF DirectoryTypes
    <3> QED
      BY <1>2, <2>1, <3>2
  <2>3. CASE v = w
    <3>1. CASE download[v] \in {"none", "fetching", "closing"} /\ UNCHANGED <<file, side>>
      BY <1>1, <2>1, <3>1 DEF Settled, Servable, Installed, Inferred, Visited
    <3>2. CASE StartDownload(v) \/ Disk(FetchEnds(v)) \/ InstallCloses(v)
      BY <3>1, <3>2 DEF StartDownload, Fetch, ShowAgain, Echo, FetchEnds, InstallCloses
    <3>3. CASE Disk(MoveIn(v)) \/ Disk(DownloadTruncates(v)) \/ Disk(DownloadWrites(v)) \/ InstallReads(v)
      BY <1>1, <3>3 DEF MoveIn, DownloadTruncates, DownloadWrites, InstallReads, DirectoryTypes
    <3>4. CASE InstallRegisters(v)
      <4>1. file[v] # 0 /\ pin[v] # 0
        BY <1>1, <3>4 DEF InstallRegisters, PinsAhead
      <4> QED
        BY <1>1, <3>4, <4>1 DEF Installed, Inferred
    <3>5. CASE ShowAgain(v) \/ Disk(Clear(v))
      BY <1>2, <2>1, <3>5 DEF ShowAgain, Echo, Clear
    <3> QED
      BY <1>4, <2>3, <3>2, <3>3, <3>4, <3>5 DEF AnyDownloadStep, DownloadStep
  <2> QED
    BY <2>2, <2>3
<1>5. ASSUME NEW c \in Callers, PutStep(c)
      PROVE  v \in Settled \/ (InstallRegisters(v) /\ v \in Installed)
  <2>1. UNCHANGED <<pin, keeper>> /\ UNCHANGED <<file, side, download>>
    BY <1>5, PutFrame DEF disk
  <2>2. file'[v] = file[v] /\ side'[v] = side[v] /\ download'[v] = download[v]
    BY <2>1
  <2> QED
    BY <1>2, <2>1, <2>2
<1>6. ASSUME NEW r \in Removers, UninstallStep(r)
      PROVE  v \in Settled \/ (InstallRegisters(v) /\ v \in Installed)
  <2> USE DEF disk
  <2>1. UNCHANGED <<pin, keeper, download>>
    BY <1>6, UninstallFrame
  <2>2. CASE DeleteFile(r)
    <3>1. side' = side /\ (file' = file \/ file' = [file EXCEPT ![uninstall[r].key] = 0])
      BY <2>2 DEF DeleteFile, RemoveFile
    <3>2. file'[v] = file[v]
      BY <1>1, <3>1 DEF DirectoryTypes
    <3> QED
      BY <1>2, <2>1, <3>1, <3>2
  <2>3. CASE DeleteSidecar(r)
    <3>1. file' = file /\ (side' = side \/ side' = [side EXCEPT ![uninstall[r].key] = NoSide])
      BY <2>3 DEF DeleteSidecar, RemoveSidecar
    <3>2. CASE side'[v] = side[v]
      BY <1>2, <2>1, <3>1, <3>2
    <3>3. CASE side'[v] = NoSide
      BY <1>1, <2>1, <3>1, <3>3 DEF Settled, Servable, Installed, Inferred, Visited, Versions
    <3> QED
      BY <1>1, <3>1, <3>2, <3>3 DEF DirectoryTypes
  <2>4. CASE UNCHANGED <<file, side>>
    BY <1>2, <2>1, <2>4
  <2> QED
    BY <1>6, <2>2, <2>3, <2>4 DEF UninstallStep, Look, Uninstall, UninstallEnds, UninstallDropped, ivars
<1>7. CASE Restart
  BY <1>7 DEF Restart, Restarts, Keeper, Up, Starting
<1>8. CASE UNCHANGED vars
  BY <1>2, <1>8 DEF vars, ivars, disk
<1> QED
  BY <1>3, <1>4, <1>5, <1>6, <1>7, <1>8, Hands


-----------------------------------------------------------------------------
(* An install that is about to register has read a backend, and whatever is
   settled has a factory. *)
FactoriesInv ==
  /\ VisitedDescribed
  /\ \A v \in Registering : install[v] # NoFactory
  /\ Up => \A v \in Settled : factory[v] # NoFactory

LEMMA BackendsAreFactories == NoFactory \notin Backends
  BY InstallationAssumption DEF Backends

(* Once the add-on is up, a factory is replaced and never taken away. *)
LEMMA FactoriesStay ==
  ASSUME DirectoryInv, FactoriesInv, [Next]_vars, Up, Up', NEW v \in Variants, factory[v] # NoFactory
  PROVE  factory'[v] # NoFactory
<1> USE BackendsAreFactories DEF Register, Registered, engines
<1>1. EnginesType /\ PutType
  BY DEF DirectoryInv, TypeOK, EnginesType, Backends, PutType
<1>2. CASE KeeperStep
  BY <1>2, KeeperVisits
<1>3. ASSUME NEW w \in Variants, AnyDownloadStep(w)
      PROVE  factory'[v] # NoFactory
  <2>1. CASE InstallRegisters(w)
    <3>1. install[w] # NoFactory
      BY <2>1 DEF InstallRegisters, FactoriesInv, Registering
    <3> QED
      BY <2>1, <3>1 DEF InstallRegisters
  <2>2. CASE factory' = factory
    BY <2>2
  <2> QED
    BY <1>3, <2>1, <2>2
    DEF AnyDownloadStep, DownloadStep, Disk, StartDownload, ShowAgain, InstallReads, InstallCloses
<1>4. ASSUME NEW c \in Callers, PutStep(c)
      PROVE  factory'[v] # NoFactory
  <2>1. CASE PutApplies(c)
    <3>1. put[c].new.backend # NoFactory
      BY <1>1, InstallationAssumption DEF PutType
    <3> QED
      BY <2>1, <3>1 DEF PutApplies
  <2>2. CASE factory' = factory
    BY <2>2
  <2> QED
    BY <1>4, <2>1, <2>2 DEF PutStep, PutReads, PutSaves, PutDropped
<1>5. ASSUME NEW r \in Removers, UninstallStep(r)
      PROVE  factory'[v] # NoFactory
  BY <1>5, UninstallFrame
<1>6. CASE Restart
  BY <1>6 DEF Restart, Restarts, Keeper, Up, Starting
<1>7. CASE UNCHANGED vars
  BY <1>7 DEF vars
<1> QED
  BY <1>2, <1>3, <1>4, <1>5, <1>6, <1>7, Hands

(* What has read a backend keeps it until it registers. *)
LEMMA RegisteringKept ==
  ASSUME DirectoryInv, [Next]_vars, NEW v \in Registering'
  PROVE  \/ v \in Registering /\ install'[v] = install[v]
         \/ InstallReads(v)
<1>1. DirectoryTypes /\ EnginesType /\ v \in Variants /\ download'[v] = "registering"
  BY DEF DirectoryInv, TypeOK, InstalledTypeOK, DirectoryTypes, EnginesType, Backends, Registering
<1>2. CASE UNCHANGED <<download, install>>
  BY <1>1, <1>2 DEF Registering
<1>3. ASSUME NEW w \in Variants, AnyDownloadStep(w)
      PROVE  (v \in Registering /\ install'[v] = install[v]) \/ InstallReads(v)
  <2> USE DEF Disk, Stage, calls
  <2>1. CASE InstallReads(w)
    BY <1>1, <2>1 DEF InstallReads, Registering, EnginesType, DirectoryTypes
  <2>2. CASE InstallRegisters(w)
    BY <1>1, <2>2 DEF InstallRegisters, Registering, EnginesType, DirectoryTypes
  <2>3. CASE /\ UNCHANGED install
             /\ \/ download' = download
                \/ \E s \in {"fetching", "none", "moved", "writing", "installing"} :
                     download' = [download EXCEPT ![w] = s]
    BY <1>1, <2>3 DEF Registering, DirectoryTypes
  <2>4. CASE \/ StartDownload(w) \/ ShowAgain(w) \/ Disk(FetchEnds(w)) \/ Disk(MoveIn(w))
             \/ InstallCloses(w) \/ Disk(Clear(w))
    BY <2>3, <2>4 DEF StartDownload, Fetch, ShowAgain, Echo, FetchEnds, MoveIn, InstallCloses, Clear
  <2>5. CASE Disk(DownloadTruncates(w)) \/ Disk(DownloadWrites(w))
    BY <2>3, <2>5 DEF DownloadTruncates, DownloadWrites, Truncate, Write, WriteFails
  <2> QED
    BY <1>3, <2>1, <2>2, <2>4, <2>5 DEF AnyDownloadStep, DownloadStep
<1>4. CASE Restart
  BY <1>1, <1>4 DEF Restart, Restarts
<1> QED
  BY <1>2, <1>3, <1>4, Hands, KeeperFrame, PutFrame, UninstallFrame DEF vars, ivars, calls

LEMMA FactoriesKept ==
  ASSUME DirectoryInv, FactoriesInv, [Next]_vars
  PROVE  FactoriesInv'
<1>1. VisitedDescribed'
  BY DescribedKept DEF FactoriesInv
<1>2. EnginesType /\ Loaded.backend \in Backends /\ Default.backend \in Backends
  BY InstallationAssumption DEF DirectoryInv, TypeOK, EnginesType, Backends, Loaded
<1>3. ASSUME NEW v \in Registering'
      PROVE  install'[v] # NoFactory
  <2>1. CASE InstallReads(v)
    BY <1>2, <1>3, <2>1, BackendsAreFactories DEF InstallReads, EnginesType, Registering
  <2>2. CASE v \in Registering /\ install'[v] = install[v]
    BY <2>2 DEF FactoriesInv
  <2> QED
    BY <1>3, <2>1, <2>2, RegisteringKept
<1>4. ASSUME Up', NEW v \in Settled'
      PROVE  factory'[v] # NoFactory
  <2>1. v \in Variants
    BY DEF Settled, Servable
  <2>2. CASE Up
    <3>1. CASE v \in Settled
      BY <1>4, <2>1, <2>2, <3>1, FactoriesStay DEF FactoriesInv
    <3>2. CASE InstallRegisters(v) /\ v \in Installed
      <4>1. install[v] # NoFactory
        BY <2>1, <3>2 DEF InstallRegisters, FactoriesInv, Registering
      <4> QED
        BY <2>1, <3>2, <4>1 DEF InstallRegisters, Registered, Register
    <3> QED
      BY <1>4, <2>2, <3>1, <3>2, SettledOnly
  <2>3. CASE StartUp /\ Visited' = {}
    <3>1. v \in Installed
      BY <2>3 DEF Settled, Servable, StartUp, disk, Installed, Inferred
    <3>2. EffectiveBackend(stored) \in Backends /\ EffectiveBackend(Unset) \in Backends
      BY <1>2 DEF EffectiveBackend, EnginesType, Backends
    <3> QED
      BY <2>1, <2>3, <3>1, <3>2, BackendsAreFactories DEF StartUp, Register
  <2> QED
    BY <1>4, <2>2, <2>3, UpChanges
<1> QED
  BY <1>1, <1>3, <1>4 DEF FactoriesInv


-----------------------------------------------------------------------------
(* Settings that did not go astray are in force: nobody crosses the one request
   that changes them, and until it has saved what it asks for, knobs and
   factories are those of what is stored; from then on until it applies them,
   those of what it replaced. *)
OneAtATime ==
  /\ \A c, d \in Putting : c = d
  /\ Putting # {} => Registering = {}
AsRead == \A c \in Callers :
  /\ put[c].at = "read" => put[c].old = Loaded
  /\ put[c].at = "saved" => put[c].new = stored
InForce ==
  /\ (\A c \in Callers : put[c].at # "saved") =>
       knobs = EffectiveKnobs(stored) /\ \A v \in Settled : factory[v] = EffectiveBackend(stored)
  /\ \A c \in Callers : put[c].at = "saved" => \A v \in Settled : factory[v] = put[c].old.backend
  /\ \A v \in Registering : install[v] = EffectiveBackend(stored)
SettingsInv == Up /\ ~astray => OneAtATime /\ AsRead /\ InForce

LEMMA LoadedIsEffective ==
  ASSUME TypeOK
  PROVE  Loaded.backend = EffectiveBackend(stored) /\ Loaded \in Choices
  BY InstallationAssumption DEF TypeOK, Loaded, EffectiveBackend

(* A registration that misses nothing serves all there is to serve. *)
LEMMA RegistersAll ==
  ASSUME DirectoryInv, VisitedDescribed, Up, NEW b, Registered(b), ~astray', NEW v \in Servable
  PROVE  factory'[v] = b
<1>1. v \in Variants /\ file[v] # 0 /\ (v \in Installed \/ v \in Visited) /\ Unreadable = {}
  BY DEF Servable, Registered
<1>2. ASSUME v \notin Installed PROVE FALSE
  <2>1. pin[v] = 0 /\ side[v] \notin Versions \cup {0} /\ side[v] # NoSide
    BY <1>1, <1>2 DEF Installed, Inferred, VisitedDescribed
  <2>2. side[v] \in {NoSide, Garbled} \cup 0 .. Latest
    BY <1>1 DEF DirectoryInv, TypeOK, InstalledTypeOK
  <2>3. side[v] = Garbled
    BY <2>1, <2>2, Basics DEF Versions
  <2> QED
    BY <1>1, <2>1, <2>3 DEF Unreadable, IsRetired
<1> QED
  BY <1>1, <1>2 DEF Registered, Register

(* Steps that touch neither settings nor factories, and register nothing. *)
LEMMA SettingsRest ==
  ASSUME SettingsInv, Up, ~astray, UNCHANGED <<stored, engines, put>>, Settled' \subseteq Settled,
         \A v \in Registering' : v \in Registering /\ install'[v] = install[v]
  PROVE  (OneAtATime /\ AsRead /\ InForce)'
<1>1. Loaded' = Loaded /\ EffectiveKnobs(stored)' = EffectiveKnobs(stored) /\ Putting' = Putting
      /\ EffectiveBackend(stored)' = EffectiveBackend(stored) /\ Registering' \subseteq Registering
  BY DEF Loaded, EffectiveKnobs, EffectiveBackend, Putting
<1>2. OneAtATime'
  BY <1>1 DEF SettingsInv, OneAtATime
<1>3. AsRead'
  BY <1>1 DEF SettingsInv, AsRead
<1>4. InForce'
  BY <1>1 DEF SettingsInv, InForce, engines
<1> QED
  BY <1>2, <1>3, <1>4

LEMMA SettingsAfterStartUp ==
  ASSUME DirectoryInv, StartUp, Visited' = {}, ~astray'
  PROVE  (OneAtATime /\ AsRead /\ InForce)'
<1>1. ~Up /\ QuietStart /\ EnginesType /\ DirectoryTypes
  BY DEF DirectoryInv, TypeOK, EnginesType, Backends, InstalledTypeOK, DirectoryTypes, StartUp, KeeperAt, Up, Starting
<1>2. /\ knobs' = EffectiveKnobs(stored) /\ Register(EffectiveBackend(stored))
      /\ UNCHANGED <<pin, file, side, download, stored, put, install>>
  BY DEF StartUp, disk
<1>3. /\ \A c \in Callers : put'[c].at = "none"
      /\ \A v \in Variants : download'[v] = "none"
  BY <1>1, <1>2 DEF QuietStart
<1>4. Putting' = {} /\ Registering' = {}
  BY <1>3 DEF Putting, Registering
<1>5. Installed' = Installed /\ Settled' \subseteq Installed
  BY <1>2 DEF Settled, Servable, Installed, Inferred
<1>6. \A v \in Settled' : factory'[v] = EffectiveBackend(stored)
  BY <1>2, <1>5 DEF Register, Installed
<1>7. EffectiveBackend(stored)' = EffectiveBackend(stored) /\ EffectiveKnobs(stored)' = EffectiveKnobs(stored)
  BY <1>2 DEF EffectiveBackend, EffectiveKnobs
<1> QED
  BY <1>2, <1>3, <1>4, <1>6, <1>7 DEF OneAtATime, AsRead, InForce


LEMMA SettingsAfterInstall ==
  ASSUME DirectoryInv, FactoriesInv, SettingsInv, [Next]_vars, Up, Up', ~astray', NEW v \in Variants,
         InstallReads(v) \/ InstallRegisters(v)
  PROVE  (OneAtATime /\ AsRead /\ InForce)'
<1>1. ~astray /\ EnginesType /\ DirectoryTypes
  BY DEF DirectoryInv, TypeOK, EnginesType, Backends, InstalledTypeOK, DirectoryTypes, InstallReads,
         InstallRegisters, Registered
<1>2. OneAtATime /\ AsRead /\ InForce
  BY <1>1 DEF SettingsInv
<1>3. /\ UNCHANGED <<stored, knobs, put>>
      /\ Putting = {}
  <2>1. CASE InstallReads(v)
    BY <2>1 DEF InstallReads, engines
  <2>2. CASE InstallRegisters(v)
    <3>1. v \in Registering
      BY <2>2 DEF InstallRegisters, Registering
    <3> QED
      BY <1>2, <2>2, <3>1 DEF InstallRegisters, OneAtATime
  <2> QED
    BY <2>1, <2>2
<1>4. Putting' = {} /\ \A c \in Callers : put[c].at = "none"
  BY <1>3 DEF Putting
<1>5. /\ Loaded' = Loaded /\ EffectiveKnobs(stored)' = EffectiveKnobs(stored)
      /\ EffectiveBackend(stored)' = EffectiveBackend(stored)
  BY <1>3 DEF Loaded, EffectiveKnobs, EffectiveBackend
<1>6. ASSUME NEW w \in Registering'
      PROVE  install'[w] = EffectiveBackend(stored)
  <2>1. CASE w \in Registering /\ install'[w] = install[w]
    BY <1>2, <2>1 DEF InForce
  <2>2. CASE InstallReads(w)
    <3>1. w \in Variants /\ install' = [install EXCEPT ![w] = Loaded.backend]
      BY <2>2 DEF InstallReads, Registering
    <3> QED
      BY <1>1, <3>1, LoadedIsEffective DEF EnginesType, DirectoryInv
  <2> QED
    BY <1>6, <2>1, <2>2, RegisteringKept
<1>7. ASSUME NEW w \in Settled'
      PROVE  factory'[w] = EffectiveBackend(stored)
  <2>1. w \in Servable
    BY <1>7, SettledOnly DEF Settled, Servable, Installed
  <2>2. CASE InstallReads(v)
    <3>1. factory' = factory /\ download'[v] = "registering" /\ ~InstallRegisters(w)
      BY <1>1, <2>2 DEF InstallReads, InstallRegisters, engines, Stage, DirectoryTypes
    <3>2. w \in Settled
      BY <1>7, <3>1, SettledOnly
    <3> QED
      BY <1>2, <1>4, <3>1, <3>2 DEF InForce
  <2>3. CASE InstallRegisters(v)
    <3>1. Registered(install[v]) /\ install[v] = EffectiveBackend(stored)
      BY <1>2, <2>3 DEF InstallRegisters, InForce, Registering
    <3> QED
      BY <2>1, <3>1, RegistersAll DEF FactoriesInv
  <2> QED
    BY <2>2, <2>3
<1>8. OneAtATime'
  BY <1>4 DEF OneAtATime
<1>9. AsRead'
  BY <1>3, <1>4 DEF AsRead
<1>10. InForce'
  <2>1. knobs' = EffectiveKnobs(stored)
    BY <1>2, <1>3, <1>4 DEF InForce
  <2> QED
    BY <1>3, <1>4, <1>5, <1>6, <1>7, <2>1 DEF InForce
<1> QED
  BY <1>8, <1>9, <1>10

LEMMA SettingsAfterPut ==
  ASSUME DirectoryInv, FactoriesInv, SettingsInv, [Next]_vars, Up, Up', ~astray', NEW c \in Callers, PutStep(c)
  PROVE  (OneAtATime /\ AsRead /\ InForce)'
<1>1. ~astray /\ PutType /\ EnginesType /\ TypeOK
  BY DEF DirectoryInv, TypeOK, PutType, EnginesType, Backends, PutStep, PutReads, PutSaves, PutApplies,
         PutDropped, Registered
<1>2. OneAtATime /\ AsRead /\ InForce
  BY <1>1 DEF SettingsInv
<1>3. UNCHANGED <<pin, file, side, keeper, download, install>>
  BY PutFrame DEF disk
<1>4. Registering' = Registering /\ Settled' = Settled /\ Settled \subseteq Servable
  BY <1>3 DEF Registering, Settled, Servable, Installed, Inferred, Visited
<1>5. ASSUME NEW new \in Choices, PutReads(c, new)
      PROVE  (OneAtATime /\ AsRead /\ InForce)'
  <2>1. Putting = {} /\ Registering = {} /\ UNCHANGED <<stored, knobs, factory>>
    BY <1>5 DEF PutReads, engines
  <2>2. put'[c] = [at |-> "read", old |-> Loaded, new |-> new]
        /\ \A d \in Callers \ {c} : put'[d] = put[d] /\ put[d].at = "none"
    BY <1>1, <1>5, <2>1 DEF PutReads, PutType, Putting
  <2>3. /\ Loaded' = Loaded /\ EffectiveKnobs(stored)' = EffectiveKnobs(stored)
        /\ EffectiveBackend(stored)' = EffectiveBackend(stored)
    BY <2>1 DEF Loaded, EffectiveKnobs, EffectiveBackend
  <2>4. OneAtATime'
    BY <1>4, <2>1, <2>2 DEF OneAtATime, Putting
  <2>5. AsRead'
    BY <2>2, <2>3 DEF AsRead
  <2>6. \A d \in Callers : put[d].at # "saved" /\ put'[d].at # "saved"
    BY <2>1, <2>2 DEF Putting
  <2>7. InForce'
    BY <1>2, <1>4, <2>1, <2>3, <2>6 DEF InForce
  <2> QED
    BY <2>4, <2>5, <2>7
<1>6. ASSUME c \in Putting
      PROVE  /\ Registering = {} /\ \A d \in Callers \ {c} : put[d].at = "none"
             /\ \A p : put' = [put EXCEPT ![c] = p] => OneAtATime'
  <2>1. Registering = {} /\ \A d \in Callers \ {c} : put[d].at = "none"
    BY <1>2, <1>6 DEF OneAtATime, Putting
  <2>2. ASSUME NEW p, put' = [put EXCEPT ![c] = p] PROVE OneAtATime'
    <3>1. \A d \in Callers \ {c} : put'[d].at = "none"
      BY <1>1, <2>1, <2>2 DEF PutType
    <3> QED
      BY <1>4, <2>1, <3>1 DEF OneAtATime, Putting
  <2> QED
    BY <2>1, <2>2
<1>7. CASE PutSaves(c)
  <2> DEFINE new == put[c].new
  <2>1. put[c].at = "read" /\ c \in Putting /\ UNCHANGED <<knobs, factory>> /\ put[c] \in
          [at : {"none", "read", "saved"}, old : Choices, new : Choices]
    BY <1>1, <1>7 DEF PutSaves, Putting, engines, PutType
  <2>2. put[c].old = Loaded /\ \A d \in Callers : put[d].at # "saved"
    BY <1>2, <1>6, <2>1 DEF AsRead
  <2>3. knobs = EffectiveKnobs(stored) /\ \A v \in Settled : factory[v] = EffectiveBackend(stored)
    BY <1>2, <2>2 DEF InForce
  <2>4. CASE stored' = new /\ put' = [put EXCEPT ![c].at = "saved"]
    <3>1. /\ put'[c].at = "saved" /\ put'[c].new = new /\ put'[c].old = Loaded
          /\ \A d \in Callers \ {c} : put'[d].at = "none"
      BY <1>1, <1>6, <2>1, <2>2, <2>4 DEF PutType
    <3>2. put' = [put EXCEPT ![c] = [put[c] EXCEPT !.at = "saved"]]
      BY <2>4
    <3>3. OneAtATime'
      BY <1>6, <2>1, <3>2
    <3>4. AsRead'
      BY <2>4, <3>1 DEF AsRead
    <3>5. InForce'
      BY <1>1, <1>4, <1>6, <2>1, <2>3, <3>1, LoadedIsEffective DEF InForce
    <3> QED
      BY <3>3, <3>4, <3>5
  <2>5. CASE stored' = stored /\ put' = [put EXCEPT ![c] = NoPut]
    <3>1. \A d \in Callers : put'[d].at = "none"
      BY <1>1, <1>6, <2>1, <2>5 DEF PutType, NoPut
    <3>2. EffectiveKnobs(stored)' = EffectiveKnobs(stored) /\ EffectiveBackend(stored)' = EffectiveBackend(stored)
      BY <2>5 DEF EffectiveKnobs, EffectiveBackend
    <3>3. OneAtATime'
      BY <1>6, <2>1, <2>5
    <3>4. AsRead'
      BY <3>1 DEF AsRead
    <3>5. InForce'
      BY <1>4, <1>6, <2>1, <2>3, <3>1, <3>2 DEF InForce
    <3> QED
      BY <3>3, <3>4, <3>5
  <2> QED
    BY <1>7, <2>4, <2>5 DEF PutSaves
<1>8. CASE PutApplies(c)
  <2> DEFINE new == put[c].new
             old == put[c].old
  <2>1. put[c].at = "saved" /\ c \in Putting /\ stored' = stored /\ knobs' = new.knobs
        /\ put' = [put EXCEPT ![c] = NoPut] /\ new \in Choices
    BY <1>1, <1>8 DEF PutApplies, Putting, PutType
  <2>2. new = stored
    BY <1>2, <2>1 DEF AsRead
  <2>3. EffectiveKnobs(stored) = new.knobs /\ EffectiveBackend(stored) = new.backend
    BY <2>1, <2>2, InstallationAssumption DEF EffectiveKnobs, EffectiveBackend
  <2>4. EffectiveKnobs(stored)' = EffectiveKnobs(stored) /\ EffectiveBackend(stored)' = EffectiveBackend(stored)
    BY <2>1 DEF EffectiveKnobs, EffectiveBackend
  <2>5. \A d \in Callers : put'[d].at = "none"
    BY <1>1, <1>6, <2>1 DEF PutType, NoPut
  <2>6. ASSUME NEW v \in Settled PROVE factory'[v] = new.backend
    <3>1. CASE new.backend # old.backend
      <4>1. Registered(new.backend)
        BY <1>8, <3>1 DEF PutApplies
      <4> QED
        BY <1>4, <4>1, RegistersAll DEF FactoriesInv
    <3>2. CASE new.backend = old.backend
      <4>1. factory' = factory /\ factory[v] = old.backend
        BY <1>2, <1>8, <2>1, <3>2 DEF PutApplies, InForce
      <4> QED
        BY <3>2, <4>1
    <3> QED
      BY <3>1, <3>2
  <2>7. OneAtATime'
    BY <1>6, <2>1
  <2>8. AsRead'
    BY <2>5 DEF AsRead
  <2>9. InForce'
    BY <1>4, <1>6, <2>1, <2>3, <2>4, <2>5, <2>6 DEF InForce
  <2> QED
    BY <2>7, <2>8, <2>9
<1>9. CASE PutDropped(c)
  <2>1. put[c].at # "saved" /\ c \in Putting /\ UNCHANGED <<stored, knobs, factory>>
        /\ put' = [put EXCEPT ![c] = NoPut]
    BY <1>9 DEF PutDropped, Putting, engines
  <2>2. \A d \in Callers : put'[d].at = "none" /\ put[d].at # "saved"
    BY <1>1, <1>6, <2>1 DEF PutType, NoPut
  <2>3. EffectiveKnobs(stored)' = EffectiveKnobs(stored) /\ EffectiveBackend(stored)' = EffectiveBackend(stored)
    BY <2>1 DEF EffectiveKnobs, EffectiveBackend
  <2>4. OneAtATime'
    BY <1>6, <2>1
  <2>5. AsRead'
    BY <2>2 DEF AsRead
  <2>6. InForce'
    BY <1>2, <1>4, <1>6, <2>1, <2>2, <2>3 DEF InForce
  <2> QED
    BY <2>4, <2>5, <2>6
<1> QED
  BY <1>5, <1>7, <1>8, <1>9 DEF PutStep


LEMMA SettingsKept ==
  ASSUME DirectoryInv, FactoriesInv, SettingsInv, [Next]_vars
  PROVE  SettingsInv'
<1> SUFFICES ASSUME Up', ~astray'
             PROVE  (OneAtATime /\ AsRead /\ InForce)'
  BY DEF SettingsInv
<1> USE DEF calls
<1>1. CASE ~Up
  <2>1. StartUp /\ Visited' = {}
    BY <1>1, UpChanges
  <2> QED
    BY <2>1, SettingsAfterStartUp
<1>2. ASSUME Up, UNCHANGED <<stored, engines, put>>, ~astray,
             \A v \in Variants : ~InstallReads(v) /\ ~InstallRegisters(v)
      PROVE  (OneAtATime /\ AsRead /\ InForce)'
  <2>1. Settled' \subseteq Settled
    BY <1>2, SettledOnly DEF Settled, Servable, Installed
  <2>2. \A v \in Registering' : v \in Registering /\ install'[v] = install[v]
    BY <1>2, RegisteringKept DEF Registering
  <2> QED
    BY <1>2, <2>1, <2>2, SettingsRest
<1>3. ASSUME Up, UNCHANGED <<stored, engines, put, astray>>
      PROVE  (OneAtATime /\ AsRead /\ InForce)'
  BY <1>2, <1>3, SettingsAfterInstall
<1>4. CASE Up /\ KeeperStep
  BY <1>3, <1>4, KeeperVisits
<1>5. ASSUME Up, NEW v \in Variants, AnyDownloadStep(v)
      PROVE  (OneAtATime /\ AsRead /\ InForce)'
  <2>1. CASE InstallReads(v) \/ InstallRegisters(v)
    BY <1>5, <2>1, SettingsAfterInstall
  <2>2. CASE UNCHANGED <<stored, engines, put, astray>>
    BY <1>3, <1>5, <2>2
  <2> QED
    BY <1>5, <2>1, <2>2 DEF AnyDownloadStep, DownloadStep, Disk, StartDownload, ShowAgain, InstallCloses
<1>6. ASSUME Up, NEW c \in Callers, PutStep(c)
      PROVE  (OneAtATime /\ AsRead /\ InForce)'
  BY <1>6, SettingsAfterPut
<1>7. ASSUME NEW r \in Removers, UninstallStep(r), Up
      PROVE  (OneAtATime /\ AsRead /\ InForce)'
  BY <1>3, <1>7, UninstallFrame
<1>8. CASE Restart
  BY <1>8 DEF Restart, Restarts, Keeper, Up, Starting
<1>9. CASE Up /\ UNCHANGED vars
  BY <1>3, <1>9 DEF vars
<1> QED
  BY <1>1, <1>4, <1>5, <1>6, <1>7, <1>8, <1>9, Hands

(* Installation!InstalledIsServed (install.rs:4-13, register.rs:15-19): whatever
   is listed as installed has a factory or gets one from the install that is under
   way; and with no request under way, knobs and factories are those of the
   settings stored, unless these went astray. *)
THEOREM InstallationIsServed == Spec => []InstalledIsServed
<1>1. Init => FactoriesInv /\ SettingsInv
  <2> SUFFICES ASSUME Init PROVE FactoriesInv /\ SettingsInv
    OBVIOUS
  <2>1. ~Up /\ \A v \in Variants : download[v] = "none"
    BY DEF Init, IInit, Keeper, Up, Starting
  <2> QED
    BY <2>1 DEF FactoriesInv, SettingsInv, VisitedDescribed, Registering
<1>2. DirectoryInv /\ FactoriesInv /\ SettingsInv /\ [Next]_vars => FactoriesInv' /\ SettingsInv'
  BY FactoriesKept, SettingsKept
<1>3. DirectoryInv /\ FactoriesInv /\ SettingsInv => InstalledIsServed
  <2> SUFFICES ASSUME DirectoryInv, FactoriesInv, SettingsInv, Up PROVE InstalledIsServed
    BY DEF InstalledIsServed
  <2>1. ASSUME NEW v \in Installed, download[v] \in {"none", "fetching"} PROVE v \in Settled
    BY <2>1 DEF Settled, Servable, Installed
  <2>2. \A v \in Installed : factory[v] # NoFactory \/ download[v] \notin {"none", "fetching"}
    BY <2>1 DEF FactoriesInv
  <2>3. ASSUME ~astray, Putting = {}
        PROVE  /\ knobs = EffectiveKnobs(stored)
               /\ \A v \in Installed : download[v] \in {"none", "fetching"} => factory[v] = EffectiveBackend(stored)
    <3>1. \A c \in Callers : put[c].at # "saved"
      BY <2>3 DEF Putting
    <3> QED
      BY <2>1, <2>3, <3>1 DEF SettingsInv, InForce
  <2> QED
    BY <2>2, <2>3 DEF InstalledIsServed
<1> QED
  BY <1>1, <1>2, <1>3, DirectoryInvariant, PTL DEF Spec

=============================================================================
