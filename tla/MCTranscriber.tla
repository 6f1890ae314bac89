---------------------------- MODULE MCTranscriber ----------------------------
(* Two instances; a client that streams, one that sends batches, and an
   evaluation run that uses the same pool.  The cap is a millisecond, and the
   chunks end just below one and two. *)
EXTENDS Transcriber, TLC

CONSTANTS c1, c2, c3

-----------------------------------------------------------------------------
Audio == INSTANCE AudioInput

Head44 == [format |-> "int", rate |-> 8000, channels |-> 2, bits |-> 16]
Chunks == {[id |-> "fmt", size |-> 16, fmt |-> Head44], [id |-> "fmt", size |-> 2, fmt |-> Head44],
           [id |-> "fmt", size |-> 18, fmt |-> [Head44 EXCEPT !.channels = 1]],
           [id |-> "data", size |-> 3, fmt |-> Head44], [id |-> "data", size |-> 4, fmt |-> Head44],
           [id |-> "other", size |-> 1, fmt |-> Head44]}
Wavs == {[riff |-> r, len |-> n, chunks |-> c] :
           r \in BOOLEAN, n \in {11, 40, 44, 48, 60}, c \in SeqOf(Chunks, 3)}

(* AudioInput: the header that is found, and the archive read again. *)
ASSUME HeadersAreFound ==
  /\ \A f \in Wavs : Audio!HeaderIsFirstComplete(f)
  /\ \A n \in 0 .. 20 : Audio!ArchiveIsReadAgain(n)

-----------------------------------------------------------------------------
Options == INSTANCE RunOptions

Subtag == {[kind |-> "script", code |-> "hant"], [kind |-> "script", code |-> "latn"],
           [kind |-> "region", code |-> "tw"], [kind |-> "region", code |-> "us"]}
Tags == {[base |-> b, sep |-> "-", subtags |-> s] : b \in {"zh", "en"}, s \in SeqOf(Subtag, 2)}
Declarable == {t \in Tags : Len(t.subtags) <= 1 /\ \A i \in DOMAIN t.subtags : t.subtags[i].kind = "region"}
Texts == {[said |-> "x", script |-> s, spaced |-> p] : s \in {"hans", "hant"}, p \in BOOLEAN}

(* RunOptions: what a language means to the engine and to the answer. *)
ASSUME LanguagesAreUnderstood ==
  \A want \in Tags :
    /\ \A declared \in SeqOf(Declarable, 2) : Options!HintsAreDeclared(want, declared)
    /\ \A text \in Texts, raw \in {{}} \cup {{t} : t \in Texts}, built \in SUBSET {"s2t", "s2tw"} :
         Options!NothingSaidIsLost(want, [text |-> text, rawText |-> raw, truncated |-> FALSE], built)

(* RunOptions: an engine's session through any five calls. *)
ASSUME SessionsAreHeldOnce == \A streams \in BOOLEAN : Options!SessionIsHeldOnce(streams, 5)
=============================================================================
