--------------------------- MODULE MCInstallation ---------------------------
(* Two quants of a model: one is absent, the other is installed, or was left by
   an older release and has an update, or was dropped from the catalog.  Two
   clients change settings to and fro; the others have a pre-load that names the
   model and no quant. *)
EXTENDS Installation, TLC

CONSTANTS a, b, c1, c2, r1, r2, plain, gpu, few, many, cli
MCDefault == [knobs |-> few, backend |-> plain, preload |-> Unset]
MCChoices == {MCDefault, [knobs |-> many, backend |-> gpu, preload |-> NoVariant]}
MCFound == [v \in Variants |->
  IF v = b THEN {[pin |-> 1, flat |-> "none", file |-> 0, side |-> NoSide]} ELSE
  {[pin |-> 1, flat |-> "none", file |-> 1, side |-> 1],
   [pin |-> 2, flat |-> "hashed", file |-> 0, side |-> NoSide],
   [pin |-> 0, flat |-> "none", file |-> 1, side |-> 0]}]

-----------------------------------------------------------------------------
(* A catalog of one model, and directories with it, one it has dropped, files that
   lie in the other's directory, and Custom models, one of which took its id. *)
MCCatalog == <<[id |-> "here", quants |-> <<[quant |-> "q4", filename |-> "h4", sha256 |-> 2],
                                            [quant |-> "q8", filename |-> "h8", sha256 |-> 2]>>]>>
List == INSTANCE CatalogList WITH Catalog <- MCCatalog, None <- "none"

Side(m, q) == {[model |-> m, quant |-> q, sha256 |-> {1}]}
Dir(n, sides) == [name |-> n, files |-> [i \in DOMAIN sides |-> [name |-> sides[i][1], sidecar |-> sides[i][2]]]]
Gone == {<<>>, <<<<"g4", Side("gone", "q4")>>, <<"g8", Side("gone", "q8")>>>>,
         <<<<"g4", {}>>>>, <<<<"h4", Side("here", "q4")>>>>}
Here == {<<>>, <<<<"h4", {}>>>>, <<<<"h4", Side("here", "q4")>>, <<"h8", {}>>>>,
         <<<<"g8", Side("gone", "q8")>>>>, <<<<"x", {}>>, <<"y", Side("here", "q2")>>>>}
Top == {<<>>, <<[name |-> "mine", colon |-> FALSE]>>, <<[name |-> "here", colon |-> FALSE]>>,
        <<[name |-> "h8", colon |-> FALSE], [name |-> "no", colon |-> TRUE]>>}
Disks == {[dirs |-> <<Dir("gone", x), Dir("here", y)>>, top |-> z] : x \in Gone, y \in Here, z \in Top}
Boards == {{}} \cup {{[model |-> "here", quant |-> "q8", phase |-> p]} :
                       p \in {"queued", "downloading", "completed", "failed"}}

(* CatalogList: nothing that is installed is ever hidden, or shown as what it is not. *)
ASSUME ListsAreWhole == \A on \in Disks, at \in Boards :
  /\ List!InstalledIsShown(on, at, {[model |-> "here", quant |-> "q4"]})
  /\ List!ShownCanBeNamed(on, at)
  /\ List!ShownOnce(on, at)

-----------------------------------------------------------------------------
Conf == INSTANCE Config

Maybe(S) == {{}} \cup {{x} : x \in S}
Files == [{"./config.toml", "/etc/cortex-stt/config.toml", "mine"} ->
            {{}, {[port |-> {3}]}, {[port |-> {}]}}]
Layer(n) == {[port |-> p] : p \in Maybe({n})}

(* Config: the layers are looked at in their order, whatever files there are. *)
ASSUME LayersAreInOrder ==
  \A args \in Layer(1), env \in Layer(2), files \in Files, e \in Maybe({"mine"}), g \in Maybe({"mine"}) :
    Conf!LayersInOrder(args, env, [port |-> {4}], e, g, files)

(* Config: older settings are folded in once, and stored ones are kept. *)
ASSUME StoredSettingsHold ==
  \A s \in Maybe(Conf!SettingsOf({"here:q4"}, {"here"})), parses \in BOOLEAN, p \in Maybe({"gone:q4"}),
     installed \in {<<>>, <<[key |-> "here:q8", model |-> "here", at |-> 2],
                            [key |-> "here:q4", model |-> "here", at |-> 1]>>} :
    LET row    == [parses |-> parses, stored |-> s]
        config == [poolSize |-> {2}, idle |-> {3}, preload |-> p]
    IN /\ Conf!MigrationSettles(config, row, installed)
       /\ Conf!StoredChoicesHold(config, row, installed)
=============================================================================
