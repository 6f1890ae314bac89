---------------------------- MODULE EvalSamples ----------------------------
(***************************************************************************)
(* eval/mod.rs on eval/store.rs: clips for evaluation.  A clip is captured *)
(* into the table of pending captures, and becomes a sample when somebody  *)
(* types in what was said; one audio file serves it all along.  Tables and *)
(* file change one at a time, and requests on the same clip interleave     *)
(* between the two, are dropped there, or find that a step fails.          *)
(***************************************************************************)
EXTENDS Integers, FiniteSets

CONSTANTS Clips,        \* ids, one for each capture
          Origin,       \* the history record a clip is copied from, or Upload
          Upload,
          Kept,         \* clips that are samples from the start
          Texts,        \* what models make of clips
          Requesters,
          MaxEvents     \* bound: requests, steps that fail, requests dropped and
                        \* restarts, all together

ASSUME EvalSamplesAssumption ==
  /\ IsFiniteSet(Clips) /\ Kept \subseteq Clips
  /\ MaxEvents \in Nat
  /\ \A c, d \in Kept : Origin[c] = Origin[d] => c = d \/ Origin[c] = Upload

VARIABLES
  capture,   \* where the one capture of a clip stands
  pending,   \* eval_pending
  sample,    \* eval_samples
  judged,    \* eval_judgements: rulings on what models made of a clip
  audio,     \* the audio directory
  request,   \* what a requester does to which clip
  events,
  beside,    \* history: captures that were under way at the same time
  stray,     \* history: files left by a step that failed or was cut short
  torn       \* history: clips whose delete was cut short, or that were discarded or
             \* deleted while a promotion, or the pending row of one cut short, stayed

tables == <<pending, sample, judged>>
svars == <<capture, tables, audio, request, events, beside, stray, torn>>

Idle == [op |-> "none"]
Request(op, c, at) == [op |-> op, clip |-> c, at |-> at]
Requests == {Request(op, c, at) : op \in {"promote", "discard", "delete", "judge"},
                                  c \in Clips, at \in {"got", "half"}}
At(w, op, at) == request[w] # Idle /\ request[w].op = op /\ request[w].at = at
Answer(w) == request' = [request EXCEPT ![w] = Idle]
GoOn(w) == request' = [request EXCEPT ![w].at = "half"]
Promoting(c) == \E w \in Requesters :
  \E at \in {"got", "half"} : request[w] = Request("promote", c, at)

SInit ==
  /\ capture = [c \in Clips |-> IF c \in Kept THEN "over" ELSE "new"]
  /\ pending = {} /\ sample = Kept /\ judged = {} /\ audio = Kept
  /\ request = [w \in Requesters |-> Idle] /\ events = 0
  /\ beside = [c \in Clips |-> {}] /\ stray = {} /\ torn = {}

Event == events < MaxEvents /\ events' = events + 1

-----------------------------------------------------------------------------
(* mutant: what is labelled already does not count *)
TakenByPending(c) == Origin[c] # Upload /\ \E d \in pending : Origin[d] = Origin[c]

(* capture: the record must not be taken by a sample or a pending capture.
   What the check saw may be history when the row is inserted. *)
Taken(c) == Origin[c] # Upload /\ \E d \in pending \cup sample : Origin[d] = Origin[c]
Open == {c \in Clips : capture[c] \in {"free", "written", "undo"}}
Check(c) ==
  /\ capture[c] = "new" /\ ~Taken(c)
  /\ Event
  /\ capture' = [capture EXCEPT ![c] = "free"]
  /\ beside' = [d \in Clips |-> IF d = c THEN Open
                                ELSE IF d \in Open THEN beside[d] \cup {c} ELSE beside[d]]
  /\ UNCHANGED <<tables, audio, request, stray, torn>>

(* write_wav; half a file stays where it fails *)
WriteWav(c) ==
  /\ capture[c] = "free"
  /\ audio' = audio \cup {c}
  /\ \/ capture' = [capture EXCEPT ![c] = "written"] /\ UNCHANGED <<events, stray>>
     \/ /\ Event /\ stray' = stray \cup {c}
        /\ capture' = [capture EXCEPT ![c] = "over"]
  /\ UNCHANGED <<tables, request, beside, torn>>

(* insert_pending, and the file's removal where that fails *)
InsertPending(c) ==
  /\ capture[c] = "written"
  /\ \/ /\ pending' = pending \cup {c} /\ UNCHANGED events
        /\ capture' = [capture EXCEPT ![c] = "over"]
     \/ Event /\ capture' = [capture EXCEPT ![c] = "undo"] /\ UNCHANGED pending
  /\ UNCHANGED <<sample, judged, audio, request, beside, stray, torn>>

Undo(c) ==
  /\ capture[c] = "undo"
  /\ capture' = [capture EXCEPT ![c] = "over"]
  /\ \/ audio' = audio \ {c} /\ UNCHANGED <<events, stray>>
     \/ Event /\ stray' = stray \cup {c} /\ UNCHANGED audio
  /\ UNCHANGED <<tables, request, beside, torn>>

-----------------------------------------------------------------------------
(* Each request first gets its row: get_pending or get_sample *)
Get(w, op, c) ==
  /\ request[w] = Idle /\ Event
  /\ c \in IF op \in {"promote", "discard"} THEN pending ELSE sample
  /\ request' = [request EXCEPT ![w] = Request(op, c, "got")]
  /\ UNCHANGED <<capture, tables, audio, beside, stray, torn>>

(* promote: insert_sample, refused where the sample is there already *)
InsertSample(w) ==
  /\ At(w, "promote", "got")
  /\ sample' = sample \cup {request[w].clip}
  /\ IF request[w].clip \in sample THEN Answer(w) ELSE GoOn(w)
  /\ UNCHANGED <<capture, pending, judged, audio, events, beside, stray, torn>>

DeletePending(w) ==
  /\ At(w, "promote", "half")
  /\ pending' = pending \ {request[w].clip}
  /\ Answer(w)
  /\ UNCHANGED <<capture, sample, judged, audio, events, beside, stray, torn>>

(* mutant: the file is removed for a row that somebody else removed *)
DiscardAnyway(w) ==
  /\ At(w, "discard", "got")
  /\ pending' = pending \ {request[w].clip}
  /\ GoOn(w)
  /\ UNCHANGED <<capture, sample, judged, audio, events, beside, stray, torn>>

(* discard_pending: the row, and only whoever removed it goes on to the file.
   A promotion that has its row, or is half done, does not notice. *)
DiscardRow(w) ==
  LET c == request[w].clip
  IN /\ At(w, "discard", "got")
     /\ pending' = pending \ {c}
     /\ IF c \in pending THEN GoOn(w) ELSE Answer(w)
     /\ torn' = IF c \in pending /\ (Promoting(c) \/ c \in sample) THEN torn \cup {c} ELSE torn
     /\ UNCHANGED <<capture, sample, judged, audio, events, beside, stray>>

(* remove_audio: a failure is a warning.  The row of a promotion cut short, or
   a promotion under way, may yet make a sample of what is deleted. *)
RemoveAudio(w) ==
  LET c == request[w].clip
      again == At(w, "delete", "got") /\ (Promoting(c) \/ c \in pending)
  IN /\ At(w, "discard", "half") \/ At(w, "delete", "got")
     /\ IF request[w].op = "discard" THEN Answer(w) ELSE GoOn(w)
     /\ \/ audio' = audio \ {c} /\ UNCHANGED <<events, stray>>
        \/ Event /\ stray' = stray \cup {c} /\ UNCHANGED audio
     /\ torn' = IF again THEN torn \cup {c} ELSE torn
     /\ UNCHANGED <<capture, tables, beside>>

(* delete_sample in the store: the sample with all that refers to it *)
DeleteRows(w) ==
  /\ At(w, "delete", "half")
  /\ sample' = sample \ {request[w].clip}
  /\ judged' = {j \in judged : j.clip # request[w].clip}
  /\ Answer(w)
  /\ UNCHANGED <<capture, pending, audio, events, beside, stray, torn>>

(* judge: upsert_judgement, though the sample may be gone *)
Rulings == [clip : Clips, text : Texts, correct : BOOLEAN]
About(c, text) == {j \in judged : j.clip = c /\ j.text = text}
Judge(w) ==
  /\ At(w, "judge", "got")
  /\ \E j \in Rulings :
       /\ j.clip = request[w].clip
       /\ judged' = (judged \ About(j.clip, j.text)) \cup {j}
  /\ Answer(w)
  /\ UNCHANGED <<capture, pending, sample, audio, events, beside, stray, torn>>

Unjudge(j) ==
  /\ judged' = judged \ {j}
  /\ UNCHANGED <<capture, pending, sample, audio, request, events, beside, stray, torn>>

-----------------------------------------------------------------------------
(* What captures C and requests W leave when they are cut short *)
CutShort(C, W) ==
  /\ capture' = [c \in Clips |-> IF c \in C THEN "over" ELSE capture[c]]
  /\ request' = [w \in Requesters |-> IF w \in W THEN Idle ELSE request[w]]
  /\ stray' = stray \cup {c \in C : capture[c] \in {"written", "undo"}}
                    \cup {request[w].clip : w \in {v \in W : At(v, "discard", "half")}}
  /\ torn' = torn \cup {request[w].clip : w \in {v \in W : At(v, "delete", "half")}}
  /\ UNCHANGED <<tables, audio, beside>>

(* A client hangs up, or the database fails *)
Dropped ==
  /\ Event
  /\ \/ \E c \in Open : CutShort({c}, {})
     \/ \E w \in Requesters : request[w] # Idle /\ CutShort({}, {w})

SStep ==
  \/ \E c \in Clips : Check(c) \/ WriteWav(c) \/ InsertPending(c) \/ Undo(c)
  \/ \E j \in judged : Unjudge(j)
  \/ \E w \in Requesters :
       \/ \E c \in Clips, op \in {"promote", "discard", "delete", "judge"} : Get(w, op, c)
       \/ InsertSample(w) \/ DeletePending(w) \/ DiscardRow(w) \/ RemoveAudio(w) \/ Judge(w)
  \/ Dropped

-----------------------------------------------------------------------------
(* Every variable of the samples keeps its shape. *)
SamplesTypeOK ==
  /\ capture \in [Clips -> {"new", "free", "written", "undo", "over"}]
  /\ pending \subseteq Clips /\ sample \subseteq Clips /\ judged \subseteq Rulings
  /\ audio \subseteq Clips
  /\ request \in [Requesters -> Requests \cup {Idle}]
  /\ events \in 0 .. MaxEvents
  /\ beside \in [Clips -> SUBSET Clips]
  /\ stray \subseteq Clips /\ torn \subseteq Clips

(* mod.rs:218-224: what keeps a record from being labelled, and counted, twice
   works through promotions, discards and deletes.  Only captures of a record
   that run side by side both get through, and a clip that comes back from a
   discard or a delete because it was being promoted. *)
ClipsAreTakenOnce ==
  \A c, d \in pending \cup sample :
    c # d /\ Origin[c] # Upload /\ Origin[c] = Origin[d] =>
      d \in beside[c] \/ c \in torn \/ d \in torn

(* mod.rs:20-21 and 297-298: a sample has its audio file, and a file a row, at
   all times and through all races; but for deletes at the half, what failures
   left, and a capture that is discarded while it is promoted. *)
SamplesOwnAudio ==
  /\ \A c \in sample \ audio :
       c \in torn \/ \E w \in Requesters : request[w] = Request("delete", c, "half")
  /\ \A c \in audio \ (pending \cup sample) :
       \/ capture[c] \in {"written", "undo"} \/ c \in stray
       \/ \E w \in Requesters : request[w] = Request("discard", c, "half")
=============================================================================
