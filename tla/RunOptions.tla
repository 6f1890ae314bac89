----------------------------- MODULE RunOptions -----------------------------
(***************************************************************************)
(* engine/transcribe_bridge.rs and text/: how a request's options become   *)
(* the engine's, which session or stream a call runs on, and how what the  *)
(* engine says becomes an answer.  A value that may be missing is a set of *)
(* at most one element.                                                    *)
(*                                                                         *)
(* A language tag is [base, sep, subtags], in lower case, where a subtag   *)
(* is [kind, code] and its kind that of its shape: four letters a script,  *)
(* two letters or three digits a region, or anything else.                 *)
(***************************************************************************)
EXTENDS Integers, FiniteSets, SequencesExt

BaseCode(tag) == [tag EXCEPT !.sep = "", !.subtags = <<>>]

(* resolve_language: the hint in the spelling the model declares, or the first of
   the same base; a model that declares nothing is given the base *)
ResolveLanguage(requested, declared) ==
  UNION {LET exact == SelectSeq(declared, LAMBDA d : d = want)
             akin  == exact \o SelectSeq(declared, LAMBDA d : BaseCode(d) = BaseCode(want))
         IN IF declared = <<>> THEN {BaseCode(want)} ELSE IF akin = <<>> THEN {} ELSE {Head(akin)} :
         want \in requested}

BuildRunOptions(o, declared, isWhisper) ==
  [task |-> IF o.translate THEN "translate" ELSE "transcribe",
   timestamps |-> o.timestamps,
   itn |-> IF o.itn = {} THEN {"default"} ELSE o.itn,
   language |-> ResolveLanguage(o.language, declared),
   prompt |-> IF isWhisper THEN o.initialPrompt ELSE {}]

-----------------------------------------------------------------------------
(* What goes wrong in the engine, as it is answered *)
MapEngineErr(e) ==
  CASE e = "InputTooLong" -> "InputTooLong"
    [] e \in {"Unsupported", "InvalidArgument", "NotImplemented"} -> "ProtocolError"
    [] OTHER -> "InferenceFailed"

ConvertTranscript(t, truncated) == [text |-> t.text, rawText |-> t.rawText, truncated |-> truncated]

(* A run that was stopped early still has a prefix *)
Stopped == {"OutputTruncated", "OutputRepetition"}
RunOutcome(r) ==
  CASE r.error = "none" -> [ok |-> {ConvertTranscript(t, FALSE) : t \in r.transcript}, err |-> "none"]
    [] r.error \in Stopped /\ r.transcript # {} ->
         [ok |-> {ConvertTranscript(t, TRUE) : t \in r.transcript}, err |-> "none"]
    [] OTHER -> [ok |-> {}, err |-> MapEngineErr(r.error)]

(* The bridge: an idle session, or a stream that holds it.  Each call has the
   bridges it may leave, with whether it succeeded. *)
Loaded == [session |-> TRUE, stream |-> FALSE]
EndStream(b) == [session |-> b.session \/ b.stream, stream |-> FALSE]
EnsureSession(b) ==     \* a missing one is created, which may fail
  {[ok |-> TRUE, bridge |-> [b EXCEPT !.session = TRUE]]}
  \cup IF b.session THEN {} ELSE {[ok |-> FALSE, bridge |-> b]}

Transcribe(b) ==
  UNION {IF s.ok THEN {s, [s EXCEPT !.ok = FALSE]} ELSE {s} : s \in EnsureSession(EndStream(b))}

(* the session goes into the stream, and is lost when that cannot be built *)
StreamBegin(b, streams) ==
  IF ~streams THEN {[ok |-> FALSE, bridge |-> b]}
  ELSE UNION {IF ~s.ok THEN {s} ELSE
              {[ok |-> TRUE, bridge |-> [session |-> FALSE, stream |-> TRUE]],
               [ok |-> FALSE, bridge |-> [session |-> FALSE, stream |-> FALSE]]} :
              s \in EnsureSession(EndStream(b))}
StreamFeed(b) ==
  {[ok |-> FALSE, bridge |-> EndStream(b)]} \cup IF b.stream THEN {[ok |-> TRUE, bridge |-> b]} ELSE {}
StreamFinalize(b) ==
  {[ok |-> FALSE, bridge |-> EndStream(b)]}
  \cup IF b.stream THEN {[ok |-> TRUE, bridge |-> EndStream(b)]} ELSE {}

Calls(b, streams) ==
  Transcribe(b) \cup StreamBegin(b, streams) \cup StreamFeed(b) \cup StreamFinalize(b)
  \cup {[ok |-> TRUE, bridge |-> EndStream(b)]}      \* stream_reset
RECURSIVE Reached(_, _, _)
Reached(b, streams, calls) ==
  {b} \cup IF calls = 0 THEN {} ELSE UNION {Reached(c.bridge, streams, calls - 1) : c \in Calls(b, streams)}

-----------------------------------------------------------------------------
(* Locale: the first script and the first region *)
First(tag, kind) ==
  LET of == SelectSeq(tag.subtags, LAMBDA s : s.kind = kind)
  IN IF of = <<>> THEN {} ELSE {Head(of).code}

(* mandarin: the region decides before the script *)
ByRegion == [tw |-> "s2tw", hk |-> "s2hk", mo |-> "s2hk", cn |-> "t2s", sg |-> "t2s"]
ByScript == [hant |-> "s2t", hans |-> "t2s"]
Select(tag) ==
  LET region == First(tag, "region") \cap DOMAIN ByRegion
      script == First(tag, "script") \cap DOMAIN ByScript
  IN IF region # {} THEN {ByRegion[r] : r \in region} ELSE {ByScript[s] : s \in script}

ForLanguage(requested) == UNION {Select(tag) : tag \in {t \in requested : t.base = "zh"}}

(* A text is [said, script, spaced]; a converter that could not be built leaves it *)
Apply(config, built, text) ==
  IF config \notin built THEN text
  ELSE [text EXCEPT !.script = IF config = "t2s" THEN "hans" ELSE "hant"]
Trim(text) == [text EXCEPT !.spaced = FALSE]

(* raw_text_if_distinct: what the engine, or else the model, said is kept where it
   is not what is returned *)
RawTextIfDistinct(engineRaw, modelText, returned) ==
  IF engineRaw # {} /\ {Trim(t) : t \in engineRaw} # {Trim(returned)} THEN engineRaw
  ELSE IF Trim(modelText) # Trim(returned) THEN {modelText} ELSE {}

FromResult(result, requested, built) ==
  LET configs  == ForLanguage(requested)
      rendered == IF configs = {} THEN result.text
                  ELSE Apply(CHOOSE c \in configs : TRUE, built, result.text)
  IN [text |-> rendered, rawText |-> RawTextIfDistinct(result.rawText, result.text, rendered),
      appliedTransforms |-> configs, truncated |-> result.truncated]

-----------------------------------------------------------------------------
(* transcribe_bridge.rs:180-200: "a hint that survives as the wrong shape is a hard
   failure": the engine is given a tag it declares, in its spelling, whenever it has
   the language, and its own choice where it has not. *)
HintsAreDeclared(want, declared) ==
  LET given == ResolveLanguage({want}, declared)
      akin  == {d \in ToSet(declared) : d.base = want.base}
  IN declared # <<>> => /\ given \subseteq akin
                        /\ given = {} => akin = {}
                        /\ want \in ToSet(declared) => given = {want}

(* text/mod.rs:1-13: the subtags are an instruction of how to write, and the engine has
   no say in it; what it said is in the answer, wherever that is written otherwise. *)
NothingSaidIsLost(want, result, built) ==
  LET answer == FromResult(result, {want}, built)
      told   == {Trim(t) : t \in {answer.text} \cup answer.rawText}
  IN /\ {Trim(t) : t \in result.rawText} \subseteq told
     /\ result.rawText = {} => Trim(result.text) \in told
     /\ ForLanguage(ResolveLanguage({BaseCode(want)}, <<>>)) = {}
     /\ answer.appliedTransforms = {} => answer.text = result.text

(* transcribe_bridge.rs:30-38: no sequence of calls leaves a session beside the stream
   that holds it, and one that fails leaves no stream, unless it refused to begin. *)
SessionIsHeldOnce(streams, calls) ==
  \A b \in Reached(Loaded, streams, calls) :
    /\ ~(b.session /\ b.stream)
    /\ b.stream => streams
    /\ \A c \in Transcribe(b) \cup StreamFeed(b) \cup StreamFinalize(b) : ~c.ok => ~c.bridge.stream
=============================================================================
