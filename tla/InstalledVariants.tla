-------------------------- MODULE InstalledVariants --------------------------
(***************************************************************************)
(* model/installed.rs and model/catalog.rs: what lies in the model         *)
(* directory, and what the add-on takes it for.  A Variant of the catalog  *)
(* is a file and, beside it, a sidecar that names it and the digest it was *)
(* verified against.  Both are written one after the other by three hands: *)
(* the keeper of the start-up (migration, then fingerprints), downloads,   *)
(* and uninstalls; the add-on may stop between any two steps, and come     *)
(* back with a catalog that pins other files.                              *)
(*                                                                         *)
(* A file is the version of its content, and so is its digest.  How a file *)
(* is fetched and verified is module DownloadManager.                      *)
(***************************************************************************)
EXTENDS Integers, FiniteSets

CONSTANTS Variants,        \* the quants of one model
          Latest,          \* the newest version upstream ever publishes
          NoSide, Garbled, \* no sidecar, and one that cannot be read
          NoVariant,
          Found,           \* per Variant, how the directory may look at first: records
                           \* [pin, flat, file, side]
          MaxEvents        \* bound: downloads, uninstalls, settings, failures, restarts

Versions == 1 .. Latest

ASSUME InstalledAssumption ==
  /\ IsFiniteSet(Variants) /\ Latest \in Nat \ {0} /\ MaxEvents \in Nat
  /\ \A v \in Variants : \A f \in Found[v] :
       /\ f.pin \in 0 .. Latest /\ f.flat \in {"none", "bare", "hashed"} /\ f.file \in 0 .. Latest
       /\ f.flat # "none" => f.file = 0 /\ f.pin # 0
       /\ f.file = 0 => f.side = NoSide
       /\ f.file # 0 => f.side \in {NoSide, 0, f.file} /\ f.pin \in {0, f.file}
  /\ NoSide \notin Nat /\ Garbled \notin Nat /\ NoSide # Garbled /\ NoVariant \notin Variants

VARIABLES
  pin,       \* catalog.json: the version it offers of a Variant, 0 for none
  flat,      \* a file of version 1 at the top level, as older releases left it:
             \* "none", "bare", or "hashed" with its .sha256
  file,      \* the file in its model's directory, 0 when there is none
  side,      \* its sidecar: a digest, 0 when that is unknown, NoSide or Garbled
  keeper,    \* start-up's way through the directory
  download,  \* per Variant, how far its download is
  board,     \* the ProgressBoard
  echo,      \* cancelled downloads that may still show their progress once more
  events,
  spoiled,   \* history: sidecars left behind by a write that failed or was cut
             \* off, hit by an uninstall or a fingerprint that a download overtook,
             \* or not written because the file could not be read
  reverted   \* history: files of an older release that a start-up moved over a
             \* newer one, until its sidecar is rewritten too

disk == <<flat, file, side>>
marks == <<spoiled, reverted>>
notices == <<board, echo>>
ivars == <<pin, disk, keeper, download, notices, events, marks>>

(* keeper.todo is what is left of the directory as it was listed *)
Keeper(job, todo, at, digest) == [job |-> job, todo |-> todo, at |-> at, digest |-> digest]
Jobs == {"migrate", "describe", "describing", "register", "scan", "backfill", "hash",
         "stamp", "stamping", "over"}
Starting == {"migrate", "describe", "describing", "register"}

IInit ==
  /\ \E f \in [Variants -> UNION {Found[v] : v \in Variants}] :
       /\ \A v \in Variants : f[v] \in Found[v]
       /\ pin = [v \in Variants |-> f[v].pin] /\ flat = [v \in Variants |-> f[v].flat]
       /\ file = [v \in Variants |-> f[v].file] /\ side = [v \in Variants |-> f[v].side]
  /\ keeper = Keeper("migrate", Variants, NoVariant, 0)
  /\ download = [v \in Variants |-> "none"]
  /\ board = [v \in Variants |-> "none"]
  /\ echo = {} /\ events = 0 /\ spoiled = {} /\ reverted = {}

Event == events < MaxEvents /\ events' = events + 1

-----------------------------------------------------------------------------
(* scan: identity comes from the sidecar, or from the catalog without one.  A
   file neither knows is no Variant. *)
Known(s) == s \in Versions
Inferred(v) == pin[v] # 0
Installed == {v \in Variants : file[v] # 0 /\ (side[v] \in Versions \cup {0} \/ Inferred(v))}

IsRetired(v) == pin[v] = 0
UpdateAvailable(v) == Known(side[v]) /\ pin[v] # 0 /\ side[v] # pin[v]

(* variant_infos: what a Variant is shown as *)
VariantStatus(v) ==
  CASE v \in Installed -> "downloaded"
    [] v \notin Installed /\ board[v] = "failed" -> "error"
    [] v \notin Installed /\ board[v] \in {"active", "completed"} -> "downloading"
    [] OTHER -> "absent"

(* summarise: and their model, by the best of them *)
ModelStatus ==
  LET shown == {VariantStatus(v) : v \in Variants}
  IN CASE "downloaded" \in shown -> "downloaded"
       [] "downloaded" \notin shown /\ "downloading" \in shown -> "downloading"
       [] shown \cap {"downloaded", "downloading"} = {} /\ "error" \in shown -> "error"
       [] OTHER -> "available"

(* resolve_variant: the Variants a key may name; q is NoVariant in a bare key.
   It resolves when this is one. *)
Resolved(q) == IF q = NoVariant THEN Installed ELSE Installed \cap {q}

-----------------------------------------------------------------------------
(* write_sidecar: the file is truncated, then written.  Either may fail, which
   is logged and forgotten. *)
Truncate(v) ==
  /\ side' = [side EXCEPT ![v] = Garbled] /\ reverted' = reverted \ {v}
  /\ UNCHANGED <<pin, flat, file, notices, events, spoiled>>
Write(v, digest) == side' = [side EXCEPT ![v] = digest] /\ UNCHANGED <<pin, flat, file, notices, events>>
WriteFails(v) ==
  /\ Event
  /\ spoiled' = spoiled \cup {v}
  /\ UNCHANGED <<pin, disk, notices, reverted>>

KeeperAt(job) == keeper.job = job
Keep(job) == keeper' = [keeper EXCEPT !.job = job]
(* on to the next file *)
OnTo(job) == keeper' = [keeper EXCEPT !.job = job, !.todo = @ \ {keeper.at}, !.at = NoVariant, !.digest = 0]
Skip(v) == keeper' = [keeper EXCEPT !.todo = @ \ {v}]

(* the sidecar is now that of another file *)
Replaces(v) ==
  /\ reverted' = IF Known(side[v]) /\ side[v] # 1 THEN reverted \cup {v} ELSE reverted
  /\ UNCHANGED spoiled

(* migrate_layout, one file: it is moved to its directory, and its .sha256 read;
   or it is there, without a sidecar; or there is nothing to do.  The move may
   fail and leave it, and replaces what was downloaded since it did. *)
Migrate(v) ==
  /\ KeeperAt("migrate") /\ v \in keeper.todo
  /\ \/ /\ flat[v] # "none" /\ pin[v] # 0
        /\ flat' = [flat EXCEPT ![v] = "none"] /\ file' = [file EXCEPT ![v] = 1]
        /\ keeper' = [keeper EXCEPT !.job = "describe", !.at = v,
                                    !.digest = IF flat[v] = "hashed" THEN 1 ELSE 0]
        /\ Replaces(v)
        /\ UNCHANGED events
     \/ /\ flat[v] # "none" /\ pin[v] # 0
        /\ Event /\ Skip(v)
        /\ UNCHANGED <<flat, file, marks>>
     \/ /\ flat[v] = "none" /\ file[v] # 0 /\ side[v] = NoSide /\ Inferred(v)
        /\ keeper' = [keeper EXCEPT !.job = "describe", !.at = v, !.digest = 0]
        /\ UNCHANGED <<flat, file, events, marks>>
     \/ /\ IF flat[v] = "none" THEN file[v] = 0 \/ side[v] # NoSide \/ ~Inferred(v) ELSE pin[v] = 0
        /\ Skip(v)
        /\ UNCHANGED <<flat, file, events, marks>>
  /\ UNCHANGED <<pin, side, download, notices>>

MigrateDone ==
  /\ KeeperAt("migrate") /\ keeper.todo = {}
  /\ Keep("register")
  /\ UNCHANGED <<pin, disk, download, notices, events, marks>>

(* backfill lists the files without a digest, *)
BackfillScan ==
  /\ KeeperAt("scan")
  /\ keeper' = Keeper("backfill", {v \in Installed : ~Known(side[v])}, NoVariant, 0)
  /\ UNCHANGED <<pin, disk, download, notices, events, marks>>

(* reads the sidecar of one, *)
BackfillNext(v) ==
  /\ KeeperAt("backfill") /\ v \in keeper.todo
  /\ \/ side[v] \in {NoSide, Garbled} /\ Skip(v)
     \/ side[v] \notin {NoSide, Garbled} /\ keeper' = [keeper EXCEPT !.job = "hash", !.at = v]
  /\ UNCHANGED <<pin, disk, download, notices, events, marks>>

(* mutant: the digest is looked up and not computed *)
BackfillFromCatalog ==
  LET v == keeper.at
  IN /\ KeeperAt("hash")
     /\ \/ file[v] # 0 /\ pin[v] # 0 /\ keeper' = [keeper EXCEPT !.job = "stamp", !.digest = pin[v]]
        \/ (file[v] = 0 \/ pin[v] = 0) /\ OnTo("backfill")
     /\ UNCHANGED <<pin, disk, download, notices, events, marks>>

(* hashes the file, which takes long, and may fail, *)
BackfillHash ==
  LET v == keeper.at
  IN /\ KeeperAt("hash")
     /\ \/ /\ file[v] # 0 /\ keeper' = [keeper EXCEPT !.job = "stamp", !.digest = file[v]]
           /\ UNCHANGED <<events, spoiled>>
        \/ /\ file[v] = 0 /\ OnTo("backfill")
           /\ UNCHANGED <<events, spoiled>>
        \/ /\ file[v] # 0 /\ Event /\ OnTo("backfill")
           /\ spoiled' = spoiled \cup {v}
     /\ UNCHANGED <<pin, disk, download, notices, reverted>>

BackfillDone ==
  /\ KeeperAt("backfill") /\ keeper.todo = {}
  /\ Keep("over")
  /\ UNCHANGED <<pin, disk, download, notices, events, marks>>

(* and writes back what it read, with the digest; as migrate_layout does *)
KeeperTruncates ==
  /\ \/ KeeperAt("describe") /\ Keep("describing")
     \/ KeeperAt("stamp") /\ Keep("stamping")
  /\ Truncate(keeper.at)
  /\ UNCHANGED download
KeeperWrites ==
  LET v == keeper.at
  IN /\ \/ keeper.job \in {"describe", "describing"} /\ OnTo("migrate")
        \/ keeper.job \in {"stamp", "stamping"} /\ OnTo("backfill")
     /\ \/ /\ keeper.job \in {"describing", "stamping"}
           /\ Write(v, keeper.digest)
           /\ spoiled' = IF keeper.digest \in {0, file[v]} THEN spoiled ELSE spoiled \cup {v}
           /\ UNCHANGED reverted
        \/ WriteFails(v)
     /\ UNCHANGED download

-----------------------------------------------------------------------------
(* A download, as far as the directory sees it *)
Stage(v, s) == download' = [download EXCEPT ![v] = s]
Show(v, p) == board' = [board EXCEPT ![v] = p]

Up == keeper.job \notin Starting

Fetch(v) ==
  /\ Up /\ Event
  /\ pin[v] # 0 /\ download[v] = "none"
  /\ Stage(v, "fetching") /\ Show(v, "active")
  /\ UNCHANGED <<pin, disk, keeper, echo, marks>>

(* It fails, or is cancelled; then it may have seen that it was not just before, *)
FetchEnds(v) ==
  /\ download[v] = "fetching"
  /\ Stage(v, "none")
  /\ \/ Show(v, "failed") /\ UNCHANGED echo
     \/ Show(v, "none") /\ echo' \in {echo, echo \cup {v}}
  /\ UNCHANGED <<pin, disk, keeper, events, marks>>

(* and it shows its progress after the entry was taken away *)
Echo(v) ==
  /\ v \in echo
  /\ echo' = echo \ {v} /\ Show(v, "active")
  /\ UNCHANGED <<pin, disk, keeper, download, events, marks>>

(* The verified .part takes the file's place, *)
MoveIn(v) ==
  /\ download[v] = "fetching"
  /\ file' = [file EXCEPT ![v] = pin[v]]
  /\ Stage(v, "moved")
  /\ reverted' = reverted \ {v}
  /\ UNCHANGED <<pin, flat, side, keeper, notices, events, spoiled>>

(* then its sidecar is written, and Completed published *)
DownloadTruncates(v) ==
  /\ download[v] = "moved"
  /\ Truncate(v)
  /\ Stage(v, "writing")
  /\ UNCHANGED keeper
DownloadWrites(v) ==
  /\ \/ download[v] = "writing" /\ Write(v, pin[v]) /\ spoiled' = spoiled \ {v} /\ UNCHANGED reverted
     \/ download[v] \in {"moved", "writing"} /\ WriteFails(v)
  /\ Stage(v, "installing")
  /\ UNCHANGED keeper

(* The grace window of a Completed entry is over, or a cancel that finds no
   download takes away what is left of one *)
Clear(v) ==
  /\ board[v] # "none" /\ download[v] = "none"
  /\ Show(v, "none")
  /\ UNCHANGED <<pin, disk, keeper, download, echo, events, marks>>

(* delete_variant takes away the file, and then the sidecar of whatever is there *)
RemoveFile(v) ==
  /\ file' = [file EXCEPT ![v] = 0]
  /\ reverted' = reverted \ {v}
  /\ UNCHANGED <<flat, side, events, spoiled>>
RemoveSidecar(v) ==
  /\ \/ side' = [side EXCEPT ![v] = NoSide] /\ UNCHANGED events
     \/ Event /\ UNCHANGED side
  /\ spoiled' = IF file[v] # 0 THEN spoiled \cup {v} ELSE spoiled
  /\ UNCHANGED <<flat, file, reverted>>

(* The add-on stops and starts again, perhaps as a newer release *)
Pins(v) == IF pin[v] = 0 THEN {0} ELSE {0, pin[v]} \cup ({pin[v] + 1} \cap Versions)
Restarts ==
  /\ Event
  /\ pin' \in [Variants -> 0 .. Latest] /\ \A v \in Variants : pin'[v] \in Pins(v)
  /\ keeper' = Keeper("migrate", Variants, NoVariant, 0)
  /\ download' = [v \in Variants |-> "none"]
  /\ board' = [v \in Variants |-> "none"] /\ echo' = {}
  /\ spoiled' = spoiled \cup {v \in Variants : side[v] = Garbled}
                        \cup {v \in Variants : download[v] = "moved" /\ Known(side[v])}
  /\ UNCHANGED <<disk, reverted>>

-----------------------------------------------------------------------------
(* Every variable keeps its shape. *)
InstalledTypeOK ==
  /\ pin \in [Variants -> 0 .. Latest] /\ file \in [Variants -> 0 .. Latest]
  /\ flat \in [Variants -> {"none", "bare", "hashed"}]
  /\ side \in [Variants -> {NoSide, Garbled} \cup 0 .. Latest]
  /\ keeper \in [job : Jobs, todo : SUBSET Variants, at : Variants \cup {NoVariant}, digest : 0 .. Latest]
  /\ download \in [Variants -> {"none", "fetching", "moved", "writing", "installing", "registering", "closing"}]
  /\ board \in [Variants -> {"none", "active", "completed", "failed"}]
  /\ echo \subseteq Variants /\ events \in 0 .. MaxEvents
  /\ spoiled \subseteq Variants /\ reverted \subseteq Variants
=============================================================================
