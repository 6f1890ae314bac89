----------------------------- MODULE CatalogList -----------------------------
(***************************************************************************)
(* model/installed.rs, model/catalog.rs and model/types.rs: the directory  *)
(* read as installed Variants, and these as the models a client is shown.  *)
(* Module InstalledVariants follows the writing of one model's files; this *)
(* one reads any directory at a moment, with every model in it.            *)
(***************************************************************************)
EXTENDS Integers, FiniteSets, SequencesExt

(* The catalog: models [id, quants], a quant [quant, filename, sha256].  File names
   are unique in it.  A Custom model has no quant, None. *)
CONSTANTS Catalog, None

FindModel(id) == {m \in ToSet(Catalog) : m.id = id}
QuantOf(m, q) == {x \in ToSet(m.quants) : x.quant = q}
Pinned(key) == UNION {QuantOf(m, key.quant) : m \in FindModel(key.model)}
FindByFilename(name) == {x \in UNION {ToSet(m.quants) : m \in ToSet(Catalog)} : x.filename = name}

-----------------------------------------------------------------------------
(* What a request names, split at its first colon: a bare id, or a model and a quant *)
Parse(model, quant) == [model |-> model, quant |-> quant]

InstalledVariant(key, sha256, snapshot) ==
  [key |-> key, sha256 |-> sha256, snapshot |-> snapshot]

IsRetired(v) == v.key.quant # None /\ Pinned(v.key) = {}
UpdateAvailable(v) ==
  v.key.quant # None /\ \E q \in Pinned(v.key) : v.sha256 # {} /\ v.sha256 # {q.sha256}

(* What a file is by its own sidecar, or in the directory of a model by the catalog *)
Inferred(dir, file) ==
  {InstalledVariant([model |-> m.id, quant |-> q.quant], {}, {m.id}) :
     m \in FindModel(dir), q \in FindByFilename(file) \cap UNION {ToSet(m.quants) : m \in FindModel(dir)}}
InDirectory(dir, f) ==
  IF f.sidecar # {}
  THEN {InstalledVariant([model |-> s.model, quant |-> s.quant], s.sha256, {s.model}) : s \in f.sidecar}
  ELSE Inferred(dir, f.name)

(* At the top level: a name the catalog has awaits its move, one with a colon could
   not be named, any other is a Custom model *)
AtTop(f) ==
  IF FindByFilename(f.name) # {} \/ f.colon THEN {}
  ELSE {InstalledVariant([model |-> f.name, quant |-> None], {}, {})}

(* `disk`: directories in the order of their names, and the files at the top *)
Scan(disk) ==
  LET at(found(_), files) == FlattenSeq([i \in DOMAIN files |-> SetToSeq(found(files[i]))])
      dir(d) == at(LAMBDA f : InDirectory(d.name, f), d.files)
  IN FlattenSeq([i \in DOMAIN disk.dirs |-> dir(disk.dirs[i])]) \o at(AtTop, disk.top)

OfModel(installed, id) == SelectSeq(installed, LAMBDA v : v.key.model = id)

-----------------------------------------------------------------------------
(* variant_infos.  `progress` is the model's part of the board: [quant, phase] *)
Terminal == {"completed", "failed"}
PhaseOf(progress, quant) == {p \in progress : p.quant = quant}

InstalledInfo(v, progress, loaded) ==
  [quant |-> v.key.quant, status |-> "downloaded", loaded |-> v.key \in loaded,
   update |-> UpdateAvailable(v), retired |-> IsRetired(v),
   updating |-> \E p \in PhaseOf(progress, v.key.quant) : p.phase \notin Terminal,
   failed |-> \E p \in PhaseOf(progress, v.key.quant) : p.phase = "failed"]
PendingInfo(p) ==
  [quant |-> p.quant, loaded |-> FALSE, update |-> FALSE, retired |-> FALSE, updating |-> FALSE,
   failed |-> p.phase = "failed",
   status |-> CASE p.phase = "queued" -> "queued" [] p.phase = "failed" -> "error"
                [] OTHER -> "downloading"]

(* in the catalog's order of quants; what it does not offer comes last *)
Order(model, quant) ==
  LET at == {i \in 1 .. 9 : \E m \in model : i \in DOMAIN m.quants /\ m.quants[i].quant = quant}
  IN IF at = {} THEN 10 ELSE CHOOSE i \in at : TRUE
VariantInfos(model, mine, progress, loaded) ==
  LET shown   == [i \in DOMAIN mine |-> InstalledInfo(mine[i], progress, loaded)]
      pending == {PendingInfo(p) : p \in {x \in progress : \A i \in DOMAIN mine : mine[i].key.quant # x.quant}}
  IN SortSeq(shown \o SetToSeq(pending), LAMBDA v, w : Order(model, v.quant) < Order(model, w.quant))

(* A model is shown as the best of its Variants *)
Summarise(variants, idle) ==
  LET is(s) == \E i \in DOMAIN variants : variants[i].status = s
      best  == SelectSeq(<<"downloaded", "downloading", "queued", "error">>, is)
  IN CASE best = <<>> -> idle
       [] best # <<>> /\ idle = "custom" /\ Head(best) = "downloaded" -> "custom"
       [] OTHER -> Head(best)
ModelInfo(id, kind, variants) ==
  [id |-> id, kind |-> kind, variants |-> variants,
   status |-> Summarise(variants, IF kind = "custom" THEN "custom" ELSE "available"),
   loaded |-> \E i \in DOMAIN variants : variants[i].loaded]

FromCatalog(m, installed, board, loaded) ==
  ModelInfo(m.id, "catalog",
            VariantInfos({m}, OfModel(installed, m.id), {p \in board : p.model = m.id}, loaded))
(* shown by the snapshot of one of its Variants, or not at all *)
Retired(id, installed, loaded) ==
  LET mine == OfModel(installed, id)
  IN IF \E i \in DOMAIN mine : mine[i].snapshot # {}
     THEN <<ModelInfo(id, "retired", VariantInfos({}, mine, {}, loaded))>> ELSE <<>>
Custom(v, loaded) == ModelInfo(v.key.model, "custom", VariantInfos({}, <<v>>, {}, loaded))

(* An id that the one before it repeats is dropped *)
Dedup(ids) ==
  LET kept == SelectSeq([i \in DOMAIN ids |-> i], LAMBDA i : i = 1 \/ ids[i] # ids[i - 1])
  IN [i \in DOMAIN kept |-> ids[kept[i]]]

ListModels(disk, board, loaded) ==
  LET installed == Scan(disk)
      gone   == SelectSeq(installed, LAMBDA v : v.key.quant # None /\ FindModel(v.key.model) = {})
      ids    == Dedup([i \in DOMAIN gone |-> gone[i].key.model])
      custom == SelectSeq(installed, LAMBDA v : v.key.quant = None)
  IN [i \in DOMAIN Catalog |-> FromCatalog(Catalog[i], installed, board, loaded)]
     \o FlattenSeq([i \in DOMAIN ids |-> Retired(ids[i], installed, loaded)])
     \o [i \in DOMAIN custom |-> Custom(custom[i], loaded)]

GetModel(list, id) ==
  LET named == SelectSeq(list, LAMBDA m : m.id = id)
  IN IF named = <<>> THEN {} ELSE {Head(named)}
Exists(disk, id) == FindModel(id) # {} \/ OfModel(Scan(disk), id) # <<>>

(* a quant that is named, or the only Variant of a model *)
ResolveVariant(disk, key) ==
  LET mine  == OfModel(Scan(disk), key.model)
      named == SelectSeq(mine, LAMBDA v : key.quant \in {None, v.key.quant})
      error == CASE mine = <<>> -> "ModelNotFound"
                 [] mine # <<>> /\ named = <<>> -> "VariantNotInstalled"
                 [] named # <<>> -> "VariantRequired"
  IN IF named # <<>> /\ (key.quant # None \/ Len(mine) = 1)
     THEN [variant |-> {Head(named).key}, error |-> "none"] ELSE [variant |-> {}, error |-> error]

-----------------------------------------------------------------------------
(* catalog.rs:52-57: an installed Variant is shown as downloaded, whatever a download
   of it is at; "the HA reconcile must never see it disappear".  What a sidecar in the
   directory of another model names included. *)
InstalledIsShown(disk, board, loaded) ==
  LET installed == Scan(disk)
      models    == ListModels(disk, board, loaded)
  IN \A i \in DOMAIN installed : \E j \in DOMAIN models :
       LET key == installed[i].key
           own == SelectSeq(models[j].variants, LAMBDA v : v.quant = key.quant)
       IN /\ models[j].id = key.model /\ models[j].status \in {"downloaded", "custom"}
          /\ own # <<>> /\ Head(own).status = "downloaded" /\ Head(own).loaded = (key \in loaded)

(* catalog.rs:111-116: a model is looked up as the catalog has it, even if a Custom
   model took its id; and what is shown as downloaded can be named: by its quant, or
   by the bare id where nothing else goes by that. *)
ShownCanBeNamed(disk, board) ==
  LET models == ListModels(disk, board, {})
      others(id) == SelectSeq(Scan(disk), LAMBDA v : v.key.model = id /\ v.key.quant # None)
  IN \A j \in DOMAIN models :
       /\ FindModel(models[j].id) # {} => \A m \in GetModel(models, models[j].id) : m.kind = "catalog"
       /\ Exists(disk, models[j].id)
       /\ \A i \in DOMAIN models[j].variants :
            LET key    == Parse(models[j].id, models[j].variants[i].quant)
                answer == ResolveVariant(disk, key)
            IN models[j].variants[i].status = "downloaded" =>
                 \/ answer.variant = {key}
                 \/ key.quant = None /\ answer.error = "VariantRequired" /\ others(key.model) # <<>>

(* catalog.rs:74-92: where every sidecar lies in its own model's directory, and no
   Custom model took another's id, each id is shown once. *)
ShownOnce(disk, board) ==
  LET models == ListModels(disk, board, {})
      own == \A i \in DOMAIN disk.dirs : \A f \in ToSet(disk.dirs[i].files) :
               \A s \in f.sidecar : s.model = disk.dirs[i].name
      ids == {disk.dirs[i].name : i \in DOMAIN disk.dirs} \cup {m.id : m \in ToSet(Catalog)}
  IN own /\ (\A f \in ToSet(disk.top) : f.name \notin ids) =>
       \A i, j \in DOMAIN models : models[i].id = models[j].id => i = j
=============================================================================
