-------------------------- MODULE EvaluationProofs --------------------------
(***************************************************************************)
(* Proofs about EvalSamples and EvalRunner, for every set of clips, runs   *)
(* and requesters, every plan, and every number of failures and restarts.  *)
(***************************************************************************)
EXTENDS EvalRunner, FiniteInduction

(* The clips that requests are about, by what is being done to them *)
Doing(op, at) == {c \in Clips : \E w \in Requesters : request[w] = Request(op, c, at)}
PromoteGot  == Doing("promote", "got")
PromoteHalf == Doing("promote", "half")
DiscardHalf == Doing("discard", "half")
DeleteHalf  == Doing("delete", "half")
Asked == {c \in Clips : \E w \in Requesters : request[w] # Idle /\ request[w].clip = c}

(* A clip that is being captured has no row and nobody asks about it. *)
CapturesApart ==
  /\ \A c \in Clips : capture[c] # "over" => c \notin pending \cup sample \cup Asked
  /\ \A c \in Clips : capture[c] = "written" => c \in audio

(* A promotion has the row it read, unless that was taken from under it. *)
PromotionsHaveRows ==
  /\ PromoteGot \subseteq pending \cup sample \cup torn
  /\ \A c \in PromoteHalf \ sample : c \in torn /\ (c \notin audio \/ c \in stray)

DiscardsOwnRows == \A c \in DiscardHalf :
  /\ c \notin pending
  /\ c \in torn \/ c \notin sample \cup PromoteGot \cup PromoteHalf

DeletesOwnRows == \A c \in DeleteHalf :
  /\ c \in torn \/ c \notin pending \cup PromoteGot \cup PromoteHalf
  /\ c \notin audio \/ c \in stray

(* What is or may become a row, and that it is so once for each record *)
Held == pending \cup sample \cup Open \cup PromoteGot
HeldOnce ==
  \A c, d \in Held :
    c # d /\ Origin[c] # Upload /\ Origin[c] = Origin[d] =>
      d \in beside[c] \/ c \in torn \/ d \in torn

HeldHaveAudio == pending \cup PromoteGot \subseteq audio \cup torn

(* The inductive invariant of the samples *)
SamplesInv ==
  /\ SamplesTypeOK
  /\ CapturesApart
  /\ PromotionsHaveRows /\ DiscardsOwnRows /\ DeletesOwnRows
  /\ HeldOnce /\ HeldHaveAudio
  /\ SamplesOwnAudio

(* Whatever happens in an evaluation, this is what happens to the samples. *)
SamplesStep ==
  \/ SStep
  \/ \E w \in Requesters : DeleteRows(w)
  \/ Event /\ CutShort(Open, Requesters)
  \/ UNCHANGED others /\ (Event \/ UNCHANGED events)

-----------------------------------------------------------------------------
(* Requests, taken apart *)
LEMMA RequestParts ==
  /\ \A op, c, at : /\ Request(op, c, at).op = op /\ Request(op, c, at).clip = c
                    /\ Request(op, c, at).at = at
  /\ \A op \in {"promote", "discard", "delete", "judge"} : \A c, at : Request(op, c, at) # Idle
<1>1. \A op, c, at : /\ Request(op, c, at).op = op /\ Request(op, c, at).clip = c
                     /\ Request(op, c, at).at = at
  BY DEF Request
<1>2. Idle.op = "none"
  BY DEF Idle
<1> QED
  BY <1>1, <1>2

LEMMA RequestOf ==
  ASSUME SamplesTypeOK, NEW w \in Requesters, request[w] # Idle
  PROVE  /\ request[w] = Request(request[w].op, request[w].clip, request[w].at)
         /\ request[w].op \in {"promote", "discard", "delete", "judge"}
         /\ request[w].clip \in Clips /\ request[w].at \in {"got", "half"}
<1>1. PICK op \in {"promote", "discard", "delete", "judge"}, c \in Clips, at \in {"got", "half"} :
        request[w] = Request(op, c, at)
  BY DEF SamplesTypeOK, Requests
<1> QED
  BY <1>1, RequestParts

LEMMA AskedIsTyped ==
  ASSUME SamplesTypeOK
  PROVE  /\ PromoteGot \subseteq Asked /\ PromoteHalf \subseteq Asked
         /\ DiscardHalf \subseteq Asked /\ DeleteHalf \subseteq Asked
         /\ \A w \in Requesters : request[w] # Idle => request[w].clip \in Asked
         /\ \A c \in Clips : Promoting(c) <=> c \in PromoteGot \cup PromoteHalf
<1>1. \A w \in Requesters : request[w] # Idle => request[w].clip \in Asked
  BY RequestOf DEF Asked
<1>2. \A c \in Clips : Promoting(c) <=> c \in PromoteGot \cup PromoteHalf
  BY DEF Promoting, PromoteGot, PromoteHalf, Doing
<1>3. ASSUME NEW op \in {"promote", "discard", "delete", "judge"}, NEW at
      PROVE  Doing(op, at) \subseteq Asked
  BY RequestParts DEF Doing, Asked
<1> QED
  BY <1>1, <1>2, <1>3 DEF PromoteGot, PromoteHalf, DiscardHalf, DeleteHalf

(* The end of a request, and its second half, as the clips see it *)
LEMMA AnswerMoves ==
  ASSUME SamplesTypeOK, NEW w \in Requesters, request[w] # Idle, Answer(w)
  PROVE  /\ PromoteGot' \subseteq PromoteGot /\ PromoteHalf' \subseteq PromoteHalf
         /\ Asked' \subseteq Asked
         /\ DiscardHalf' \subseteq DiscardHalf /\ DeleteHalf' \subseteq DeleteHalf
         /\ DiscardHalf \subseteq DiscardHalf' \cup {request[w].clip}
         /\ DeleteHalf \subseteq DeleteHalf' \cup {request[w].clip}
         /\ ~At(w, "discard", "half") => DiscardHalf' = DiscardHalf
         /\ ~At(w, "delete", "half") => DeleteHalf' = DeleteHalf
<1>1. /\ request'[w] = Idle
      /\ \A v \in Requesters \ {w} : request'[v] = request[v]
  BY DEF Answer, SamplesTypeOK
<1>2. ASSUME NEW op \in {"promote", "discard", "delete", "judge"}, NEW at
      PROVE  /\ Doing(op, at)' \subseteq Doing(op, at)
             /\ Doing(op, at) \subseteq Doing(op, at)' \cup {request[w].clip}
             /\ ~At(w, op, at) => Doing(op, at)' = Doing(op, at)
  <2>1. Doing(op, at)' = {c \in Clips : \E v \in Requesters : request'[v] = Request(op, c, at)}
    BY DEF Doing, Request
  <2>2. \A c \in Clips : request'[w] # Request(op, c, at)
    BY <1>1, RequestParts
  <2>3. \A c \in Clips : request[w] = Request(op, c, at) => request[w].clip = c /\ At(w, op, at)
    BY RequestParts DEF At
  <2> QED
    BY <1>1, <2>1, <2>2, <2>3 DEF Doing
<1>3. Asked' \subseteq Asked
  BY <1>1 DEF Asked
<1> QED
  BY <1>2, <1>3 DEF PromoteGot, PromoteHalf, DiscardHalf, DeleteHalf

LEMMA GoOnMoves ==
  ASSUME SamplesTypeOK, NEW w \in Requesters, NEW op \in {"promote", "discard", "delete"},
         At(w, op, "got"), GoOn(w)
  PROVE  /\ request[w].clip \in Asked
         /\ PromoteGot' \subseteq PromoteGot /\ Asked' = Asked
         /\ PromoteHalf' = PromoteHalf \cup IF op = "promote" THEN {request[w].clip} ELSE {}
         /\ DiscardHalf' = DiscardHalf \cup IF op = "discard" THEN {request[w].clip} ELSE {}
         /\ DeleteHalf' = DeleteHalf \cup IF op = "delete" THEN {request[w].clip} ELSE {}
<1> DEFINE c == request[w].clip
<1>1. request[w] = Request(op, c, "got") /\ c \in Clips /\ request[w] # Idle
  BY RequestOf DEF At
<1>2. /\ request'[w] = Request(op, c, "half") /\ request'[w] # Idle /\ request'[w].clip = c
      /\ \A v \in Requesters \ {w} : request'[v] = request[v]
  <2>1. request' = [request EXCEPT ![w] = [request[w] EXCEPT !.at = "half"]]
    BY DEF GoOn
  <2>2. [request[w] EXCEPT !.at = "half"] = Request(op, c, "half")
    BY <1>1 DEF Request
  <2>3. request'[w] = Request(op, c, "half") /\ \A v \in Requesters \ {w} : request'[v] = request[v]
    BY <2>1, <2>2 DEF SamplesTypeOK
  <2> QED
    BY <2>3, RequestParts
<1> HIDE DEF c
<1>3. ASSUME NEW o \in {"promote", "discard", "delete"}
      PROVE  Doing(o, "half")' = Doing(o, "half") \cup IF op = o THEN {c} ELSE {}
  <2>1. Doing(o, "half")' = {d \in Clips : \E v \in Requesters : request'[v] = Request(o, d, "half")}
    BY DEF Doing, Request
  <2>2. \A d \in Clips : request'[w] = Request(o, d, "half") <=> (o = op /\ d = c)
    BY <1>2, RequestParts
  <2>3. \A d \in Clips : request[w] # Request(o, d, "half")
    BY <1>1, RequestParts
  <2> QED
    BY <1>1, <1>2, <2>1, <2>2, <2>3 DEF Doing
<1>4. PromoteGot' \subseteq PromoteGot
  <2>1. \A d \in Clips : request'[w] # Request("promote", d, "got")
    BY <1>2, RequestParts
  <2>2. PromoteGot' = {d \in Clips : \E v \in Requesters : request'[v] = Request("promote", d, "got")}
    BY DEF PromoteGot, Doing, Request
  <2> QED
    BY <1>2, <2>1, <2>2 DEF PromoteGot, Doing
<1>5. Asked' = Asked /\ c \in Asked
  BY <1>1, <1>2 DEF Asked, c
<1> QED
  BY <1>3, <1>4, <1>5 DEF PromoteHalf, DiscardHalf, DeleteHalf, c

-----------------------------------------------------------------------------
(* Every step of the samples keeps their types. *)
LEMMA SamplesTyped ==
  ASSUME SamplesTypeOK, SamplesStep
  PROVE  SamplesTypeOK'
<1> USE DEF SamplesTypeOK
<1>0. MaxEvents \in Nat /\ (Event => events' \in 0 .. MaxEvents)
  BY EvalSamplesAssumption DEF Event
<1>1. ASSUME NEW c \in Clips, Check(c) \/ WriteWav(c) \/ InsertPending(c) \/ Undo(c)
      PROVE  SamplesTypeOK'
  <2>1. CASE Check(c)
    <3>1. Open \subseteq Clips
      BY DEF Open
    <3>2. beside' \in [Clips -> SUBSET Clips]
      BY <2>1, <3>1 DEF Check
    <3> QED
      BY <1>0, <2>1, <3>2 DEF Check, tables
  <2>2. CASE WriteWav(c)
    BY <1>0, <2>2 DEF WriteWav, tables
  <2>3. CASE InsertPending(c)
    BY <1>0, <2>3 DEF InsertPending
  <2>4. CASE Undo(c)
    BY <1>0, <2>4 DEF Undo, tables
  <2> QED
    BY <1>1, <2>1, <2>2, <2>3, <2>4
<1>2. ASSUME NEW w \in Requesters, NEW c \in Clips,
             NEW op \in {"promote", "discard", "delete", "judge"}, Get(w, op, c)
      PROVE  SamplesTypeOK'
  <2>1. Request(op, c, "got") \in Requests
    BY DEF Requests
  <2>2. request' \in [Requesters -> Requests \cup {Idle}]
    BY <1>2, <2>1 DEF Get
  <2> QED
    BY <1>0, <1>2, <2>2 DEF Get, tables
<1>3. ASSUME NEW w \in Requesters, Answer(w) PROVE request' \in [Requesters -> Requests \cup {Idle}]
  BY <1>3 DEF Answer
<1>4. ASSUME NEW w \in Requesters, request[w] # Idle, GoOn(w)
      PROVE  request' \in [Requesters -> Requests \cup {Idle}]
  <2>1. request[w] = Request(request[w].op, request[w].clip, request[w].at)
        /\ request[w].op \in {"promote", "discard", "delete", "judge"} /\ request[w].clip \in Clips
    BY <1>4, RequestOf
  <2>2. [request[w] EXCEPT !.at = "half"] = Request(request[w].op, request[w].clip, "half")
    BY <2>1 DEF Request
  <2>3. [request[w] EXCEPT !.at = "half"] \in Requests
    BY <2>1, <2>2 DEF Requests
  <2>4. request' = [request EXCEPT ![w] = [request[w] EXCEPT !.at = "half"]]
    BY <1>4 DEF GoOn
  <2> QED
    BY <2>3, <2>4
<1>5. ASSUME NEW w \in Requesters,
             \/ InsertSample(w) \/ DeletePending(w) \/ DiscardRow(w) \/ RemoveAudio(w)
             \/ Judge(w) \/ DeleteRows(w)
      PROVE  SamplesTypeOK'
  <2>1. request[w] # Idle /\ request[w].clip \in Clips
    BY <1>5, RequestOf DEF InsertSample, DeletePending, DiscardRow, RemoveAudio, Judge,
                           DeleteRows, At
  <2>2. request' \in [Requesters -> Requests \cup {Idle}]
    BY <1>3, <1>4, <1>5, <2>1 DEF InsertSample, DeletePending, DiscardRow, RemoveAudio, Judge,
                                  DeleteRows
  <2>3. CASE InsertSample(w)
    BY <2>1, <2>2, <2>3 DEF InsertSample
  <2>4. CASE DeletePending(w)
    BY <2>1, <2>2, <2>4 DEF DeletePending
  <2>5. CASE DiscardRow(w)
    BY <2>1, <2>2, <2>5 DEF DiscardRow
  <2>6. CASE RemoveAudio(w)
    BY <1>0, <2>1, <2>2, <2>6 DEF RemoveAudio, tables
  <2>7. CASE Judge(w)
    BY <2>1, <2>2, <2>7 DEF Judge
  <2>8. CASE DeleteRows(w)
    BY <2>1, <2>2, <2>8 DEF DeleteRows
  <2> QED
    BY <1>5, <2>3, <2>4, <2>5, <2>6, <2>7, <2>8
<1>6. ASSUME NEW j \in judged, Unjudge(j) PROVE SamplesTypeOK'
  BY <1>6 DEF Unjudge
<1>7. ASSUME NEW C, NEW W, C \subseteq Clips, W \subseteq Requesters, Event, CutShort(C, W)
      PROVE  SamplesTypeOK'
  <2>1. /\ capture' \in [Clips -> {"new", "free", "written", "undo", "over"}]
        /\ request' \in [Requesters -> Requests \cup {Idle}]
    BY <1>7 DEF CutShort
  <2>2. {request[w].clip : w \in {v \in W : At(v, "discard", "half")}} \subseteq Clips
        /\ {request[w].clip : w \in {v \in W : At(v, "delete", "half")}} \subseteq Clips
    BY <1>7, RequestOf DEF At
  <2>3. stray' \subseteq Clips /\ torn' \subseteq Clips
    BY <1>7, <2>2 DEF CutShort
  <2> QED
    BY <1>0, <1>7, <2>1, <2>3 DEF CutShort, tables
<1>8. CASE Dropped
  <2>1. Open \subseteq Clips
    BY DEF Open
  <2>2. \E C \in SUBSET Clips, W \in SUBSET Requesters : Event /\ CutShort(C, W)
    <3>1. CASE \E c \in Open : CutShort({c}, {})
      BY <1>8, <2>1, <3>1 DEF Dropped
    <3>2. CASE \E w \in Requesters : request[w] # Idle /\ CutShort({}, {w})
      BY <1>8, <3>2 DEF Dropped
    <3> QED
      BY <1>8, <3>1, <3>2 DEF Dropped
  <2> QED
    BY <1>7, <2>2
<1>9. CASE Event /\ CutShort(Open, Requesters)
  BY <1>7, <1>9 DEF Open
<1>10. CASE UNCHANGED others /\ (Event \/ UNCHANGED events)
  BY <1>0, <1>10 DEF others, tables
<1>11. SStep => SamplesTypeOK'
  BY <1>1, <1>2, <1>5, <1>6, <1>8 DEF SStep
<1> QED
  BY <1>5, <1>9, <1>10, <1>11 DEF SamplesStep

-----------------------------------------------------------------------------
(* Rows that only go, with what shows that they were torn, stay apart. *)
LEMMA HeldShrinks ==
  ASSUME HeldOnce, UNCHANGED beside, Held' \subseteq Held, torn \subseteq torn'
  PROVE  HeldOnce'
  BY DEF HeldOnce

LEMMA CheckKeeps ==
  ASSUME SamplesInv, NEW c \in Clips, Check(c)
  PROVE  SamplesInv'
<1> USE DEF SamplesInv
<1>1. SamplesTypeOK'
  BY SamplesTyped DEF SamplesStep, SStep
<1>2. /\ capture[c] = "new" /\ capture' = [capture EXCEPT ![c] = "free"]
      /\ UNCHANGED <<pending, sample, judged, audio, request, stray, torn>>
  BY DEF Check, tables
<1>3. /\ PromoteGot' = PromoteGot /\ PromoteHalf' = PromoteHalf /\ Asked' = Asked
      /\ DiscardHalf' = DiscardHalf /\ DeleteHalf' = DeleteHalf
  BY <1>2 DEF PromoteGot, PromoteHalf, DiscardHalf, DeleteHalf, Doing, Asked
<1>4. capture'[c] = "free" /\ \A d \in Clips \ {c} : capture'[d] = capture[d]
  BY <1>2 DEF SamplesTypeOK
<1>5. Open' = Open \cup {c} /\ c \notin Open
  BY <1>2, <1>4 DEF Open
<1>6. CapturesApart'
  BY <1>2, <1>3, <1>4 DEF CapturesApart
<1>7. PromotionsHaveRows' /\ DiscardsOwnRows' /\ DeletesOwnRows' /\ HeldHaveAudio'
  BY <1>2, <1>3 DEF PromotionsHaveRows, DiscardsOwnRows, DeletesOwnRows, HeldHaveAudio
<1>8. HeldOnce'
  <2>1. Held' = Held \cup {c}
    BY <1>2, <1>3, <1>5 DEF Held
  <2>2. c \notin Held
    BY <1>2, <1>5, AskedIsTyped DEF Held, CapturesApart
  <2>3. \A d \in Held : d \in Clips
    BY DEF Held, Open, PromoteGot, Doing, SamplesTypeOK
  <2>4. beside'[c] = Open /\ \A d \in Clips \ {c} :
          beside'[d] = IF d \in Open THEN beside[d] \cup {c} ELSE beside[d]
    BY DEF Check
  <2>5. \A d \in Held : Origin[c] # Upload /\ Origin[d] = Origin[c] => d \in Open \/ d \in torn
    BY DEF Check, Taken, Held, PromotionsHaveRows
  <2>6. \A x, y \in Held : x # y /\ Origin[x] # Upload /\ Origin[x] = Origin[y] =>
          y \in beside[x] \/ x \in torn \/ y \in torn
    BY DEF HeldOnce
  <2>7. SUFFICES ASSUME NEW x \in Held', NEW y \in Held',
                        x # y, Origin[x] # Upload, Origin[x] = Origin[y]
                 PROVE  y \in beside'[x] \/ x \in torn \/ y \in torn
    BY <1>2 DEF HeldOnce
  <2>8. CASE x = c
    BY <2>1, <2>4, <2>5, <2>7, <2>8
  <2>9. CASE y = c
    BY <2>1, <2>2, <2>3, <2>4, <2>5, <2>7, <2>9
  <2>10. CASE x # c /\ y # c
    BY <2>1, <2>2, <2>3, <2>4, <2>6, <2>7, <2>10
  <2> QED
    BY <2>8, <2>9, <2>10
<1>9. SamplesOwnAudio'
  BY <1>2, <1>4 DEF SamplesOwnAudio, SamplesTypeOK, Request
<1> QED
  BY <1>1, <1>6, <1>7, <1>8, <1>9

(* The other steps of a capture *)
LEMMA CaptureKeeps ==
  ASSUME SamplesInv, NEW c \in Clips, WriteWav(c) \/ InsertPending(c) \/ Undo(c)
  PROVE  SamplesInv'
<1> USE DEF SamplesInv
<1>1. SamplesTypeOK'
  BY SamplesTyped DEF SamplesStep, SStep
<1>2. /\ UNCHANGED <<sample, judged, request, beside, torn>> /\ stray \subseteq stray'
      /\ capture[c] \in {"free", "written", "undo"}
      /\ \E p : capture' = [capture EXCEPT ![c] = p]
  BY DEF WriteWav, InsertPending, Undo, tables
<1>3. /\ PromoteGot' = PromoteGot /\ PromoteHalf' = PromoteHalf /\ Asked' = Asked
      /\ DiscardHalf' = DiscardHalf /\ DeleteHalf' = DeleteHalf
  BY <1>2 DEF PromoteGot, PromoteHalf, DiscardHalf, DeleteHalf, Doing, Asked
<1>4. \A d \in Clips \ {c} : capture'[d] = capture[d]
  BY <1>2 DEF SamplesTypeOK
<1>5. c \notin pending \cup sample \cup Asked /\ c \in Open
  BY <1>2 DEF CapturesApart, Open
<1>6. /\ PromoteGot \subseteq Asked /\ PromoteHalf \subseteq Asked
      /\ DiscardHalf \subseteq Asked /\ DeleteHalf \subseteq Asked
  BY AskedIsTyped
<1>7. /\ pending' \ {c} = pending \ {c} /\ audio' \ {c} = audio \ {c}
      /\ c \in pending' => capture'[c] = "over" /\ c \in audio'
      /\ capture'[c] = "written" => c \in audio'
  BY <1>5 DEF WriteWav, InsertPending, Undo, CapturesApart, SamplesTypeOK, tables
<1>8. CapturesApart'
  BY <1>2, <1>3, <1>4, <1>5, <1>7 DEF CapturesApart
<1>9. PromotionsHaveRows' /\ DiscardsOwnRows' /\ DeletesOwnRows' /\ HeldHaveAudio'
  BY <1>2, <1>3, <1>5, <1>6, <1>7
     DEF PromotionsHaveRows, DiscardsOwnRows, DeletesOwnRows, HeldHaveAudio
<1>10. HeldOnce'
  <2>1. Open' \subseteq Open
    BY <1>4, <1>5 DEF Open
  <2>2. Held' \subseteq Held
    BY <1>2, <1>3, <1>5, <1>7, <2>1 DEF Held
  <2> QED
    BY <1>2, <2>2, HeldShrinks
<1>11. SamplesOwnAudio'
  <2>1. c \in audio' => c \in pending' \/ capture'[c] \in {"written", "undo"} \/ c \in stray'
    BY <1>5 DEF WriteWav, InsertPending, Undo, SamplesTypeOK, tables
  <2> QED
    BY <1>2, <1>4, <1>5, <1>7, <2>1 DEF SamplesOwnAudio, SamplesTypeOK, Request
<1> QED
  BY <1>1, <1>8, <1>9, <1>10, <1>11

-----------------------------------------------------------------------------
(* The property, in terms of the sets above *)
LEMMA OwnAudio ==
  ASSUME SamplesTypeOK
  PROVE  SamplesOwnAudio <=>
           /\ \A c \in sample \ audio : c \in torn \/ c \in DeleteHalf
           /\ \A c \in audio \ (pending \cup sample) :
                capture[c] \in {"written", "undo"} \/ c \in stray \/ c \in DiscardHalf
  BY DEF SamplesOwnAudio, DeleteHalf, DiscardHalf, Doing, SamplesTypeOK

(* A request begins: a promotion or a discard has a pending row, and a row has
   its audio or is known to be torn. *)
LEMMA GetKeeps ==
  ASSUME SamplesInv, NEW w \in Requesters, NEW c \in Clips,
         NEW op \in {"promote", "discard", "delete", "judge"}, Get(w, op, c)
  PROVE  SamplesInv'
<1> USE DEF SamplesInv
<1>1. SamplesTypeOK'
  BY SamplesTyped DEF SamplesStep, SStep
<1>2. UNCHANGED <<capture, pending, sample, judged, audio, beside, stray, torn>>
  BY DEF Get, tables
<1>3. /\ request[w] = Idle /\ request'[w] = Request(op, c, "got")
      /\ \A v \in Requesters \ {w} : request'[v] = request[v]
  BY DEF Get, SamplesTypeOK
<1>4. ASSUME NEW o \in {"promote", "discard", "delete"} PROVE Doing(o, "half")' = Doing(o, "half")
  <2>1. Doing(o, "half")' = {d \in Clips : \E v \in Requesters : request'[v] = Request(o, d, "half")}
    BY DEF Doing, Request
  <2>2. \A d \in Clips : request'[w] # Request(o, d, "half") /\ request[w] # Request(o, d, "half")
    BY <1>3, RequestParts
  <2> QED
    BY <1>3, <2>1, <2>2 DEF Doing
<1>5. PromoteHalf' = PromoteHalf /\ DiscardHalf' = DiscardHalf /\ DeleteHalf' = DeleteHalf
  BY <1>4 DEF PromoteHalf, DiscardHalf, DeleteHalf
<1>6. PromoteGot' \subseteq PromoteGot \cup IF op = "promote" THEN {c} ELSE {}
  <2>1. PromoteGot' = {d \in Clips : \E v \in Requesters : request'[v] = Request("promote", d, "got")}
    BY DEF PromoteGot, Doing, Request
  <2>2. \A d \in Clips : request'[w] = Request("promote", d, "got") => op = "promote" /\ d = c
    BY <1>3, RequestParts
  <2> QED
    BY <1>3, <2>1, <2>2 DEF PromoteGot, Doing
<1>7. Asked' \subseteq Asked \cup {c}
  BY <1>3, RequestParts DEF Asked
<1>8. /\ op = "promote" => c \in pending
      /\ c \in pending \cup sample
  BY DEF Get
<1>9. CapturesApart'
  BY <1>2, <1>7, <1>8 DEF CapturesApart
<1>10. PromotionsHaveRows' /\ DiscardsOwnRows' /\ DeletesOwnRows' /\ HeldHaveAudio'
  BY <1>2, <1>5, <1>6, <1>8
     DEF PromotionsHaveRows, DiscardsOwnRows, DeletesOwnRows, HeldHaveAudio
<1>11. HeldOnce'
  <2>1. Held' \subseteq Held
    BY <1>2, <1>6, <1>8 DEF Held, Open
  <2> QED
    BY <1>2, <2>1, HeldShrinks
<1>12. SamplesOwnAudio'
  <2>1. /\ \A d \in sample \ audio : d \in torn \/ d \in DeleteHalf
        /\ \A d \in audio \ (pending \cup sample) :
             capture[d] \in {"written", "undo"} \/ d \in stray \/ d \in DiscardHalf
    BY DEF SamplesOwnAudio, DeleteHalf, DiscardHalf, Doing, SamplesTypeOK
  <2>2. /\ \A d \in sample' \ audio' : d \in torn' \/ d \in DeleteHalf'
        /\ \A d \in audio' \ (pending' \cup sample') :
             capture'[d] \in {"written", "undo"} \/ d \in stray' \/ d \in DiscardHalf'
    BY <1>2, <1>5, <2>1
  <2> QED
    BY <2>2 DEF SamplesOwnAudio, DeleteHalf, DiscardHalf, Doing, Request
<1> QED
  BY <1>1, <1>9, <1>10, <1>11, <1>12

(* The requests on pending rows *)
LEMMA PromoteKeeps ==
  ASSUME SamplesInv, NEW w \in Requesters, InsertSample(w) \/ DeletePending(w)
  PROVE  SamplesInv'
<1> USE DEF SamplesInv
<1> DEFINE c == request[w].clip
<1>1. SamplesTypeOK'
  BY SamplesTyped DEF SamplesStep, SStep
<1>2. /\ UNCHANGED <<capture, judged, audio, beside, stray, torn>>
      /\ request[w] # Idle /\ ~At(w, "discard", "half") /\ ~At(w, "delete", "half")
  BY DEF InsertSample, DeletePending, At
<1>3. c \in Clips /\ c \in Asked /\ capture[c] = "over"
  BY <1>2, RequestOf, AskedIsTyped DEF CapturesApart
<1>4. /\ PromoteGot' \subseteq PromoteGot /\ DiscardHalf' = DiscardHalf
      /\ DeleteHalf' = DeleteHalf /\ Asked' \subseteq Asked
      /\ PromoteHalf' \subseteq PromoteHalf \cup {c}
      /\ DeletePending(w) => PromoteHalf' \subseteq PromoteHalf
  <2>1. CASE Answer(w)
    BY <1>2, <2>1, AnswerMoves
  <2>2. CASE GoOn(w) /\ At(w, "promote", "got")
    BY <2>2, GoOnMoves DEF DeletePending, At
  <2> QED
    BY <2>1, <2>2 DEF InsertSample, DeletePending
<1>5. Open' = Open
  BY <1>2 DEF Open
<1> HIDE DEF c
<1>6. CASE InsertSample(w)
  <2>1. c \in PromoteGot /\ sample' = sample \cup {c} /\ UNCHANGED pending
    BY <1>3, <1>6, RequestOf DEF InsertSample, At, PromoteGot, Doing, c
  <2>2. CapturesApart'
    BY <1>2, <1>3, <1>4, <2>1 DEF CapturesApart
  <2>3. PromotionsHaveRows' /\ DiscardsOwnRows' /\ DeletesOwnRows' /\ HeldHaveAudio'
    BY <1>2, <1>4, <2>1 DEF PromotionsHaveRows, DiscardsOwnRows, DeletesOwnRows, HeldHaveAudio
  <2>4. HeldOnce'
    <3>1. Held' \subseteq Held
      BY <1>4, <1>5, <2>1 DEF Held
    <3> QED
      BY <1>2, <3>1, HeldShrinks
  <2>5. SamplesOwnAudio'
    <3>1. /\ \A d \in sample' \ audio' : d \in torn' \/ d \in DeleteHalf'
          /\ \A d \in audio' \ (pending' \cup sample') :
               capture'[d] \in {"written", "undo"} \/ d \in stray' \/ d \in DiscardHalf'
      BY <1>2, <1>4, <2>1, OwnAudio DEF HeldHaveAudio
    <3> QED
      BY <1>1, <3>1 DEF SamplesOwnAudio, DeleteHalf, DiscardHalf, Doing, Request, SamplesTypeOK
  <2> QED
    BY <1>1, <2>2, <2>3, <2>4, <2>5
<1>7. CASE DeletePending(w)
  <2>1. c \in PromoteHalf /\ pending' = pending \ {c} /\ UNCHANGED sample
        /\ PromoteHalf' \subseteq PromoteHalf
    BY <1>3, <1>4, <1>7, RequestOf DEF DeletePending, At, PromoteHalf, Doing, c
  <2>2. CapturesApart'
    BY <1>2, <1>3, <1>4, <2>1 DEF CapturesApart
  <2>3. PromotionsHaveRows' /\ DiscardsOwnRows' /\ DeletesOwnRows' /\ HeldHaveAudio'
    BY <1>2, <1>4, <2>1 DEF PromotionsHaveRows, DiscardsOwnRows, DeletesOwnRows, HeldHaveAudio
  <2>4. HeldOnce'
    <3>1. Held' \subseteq Held
      BY <1>4, <1>5, <2>1 DEF Held
    <3> QED
      BY <1>2, <3>1, HeldShrinks
  <2>5. SamplesOwnAudio'
    <3>1. /\ \A d \in sample' \ audio' : d \in torn' \/ d \in DeleteHalf'
          /\ \A d \in audio' \ (pending' \cup sample') :
               capture'[d] \in {"written", "undo"} \/ d \in stray' \/ d \in DiscardHalf'
      BY <1>2, <1>4, <2>1, OwnAudio DEF PromotionsHaveRows
    <3> QED
      BY <1>1, <3>1 DEF SamplesOwnAudio, DeleteHalf, DiscardHalf, Doing, Request, SamplesTypeOK
  <2> QED
    BY <1>1, <2>2, <2>3, <2>4, <2>5
<1> QED
  BY <1>6, <1>7

(* discard_pending: a promotion whose row is taken is torn. *)
LEMMA DiscardKeeps ==
  ASSUME SamplesInv, NEW w \in Requesters, DiscardRow(w)
  PROVE  SamplesInv'
<1> USE DEF SamplesInv
<1> DEFINE c == request[w].clip
<1>1. SamplesTypeOK'
  BY SamplesTyped DEF SamplesStep, SStep
<1>2. /\ UNCHANGED <<capture, sample, judged, audio, beside, stray>>
      /\ request[w] # Idle /\ At(w, "discard", "got")
      /\ ~At(w, "discard", "half") /\ ~At(w, "delete", "half")
  BY DEF DiscardRow, At
<1>3. c \in Clips /\ c \in Asked /\ capture[c] = "over"
  BY <1>2, RequestOf, AskedIsTyped DEF CapturesApart
<1>4. /\ PromoteGot' \subseteq PromoteGot /\ PromoteHalf' \subseteq PromoteHalf
      /\ DeleteHalf' = DeleteHalf /\ Asked' \subseteq Asked
      /\ DiscardHalf' = DiscardHalf \cup IF c \in pending THEN {c} ELSE {}
  <2>1. CASE c \notin pending
    BY <1>2, <2>1, AnswerMoves DEF DiscardRow
  <2>2. CASE c \in pending
    BY <1>2, <2>2, GoOnMoves DEF DiscardRow
  <2> QED
    BY <2>1, <2>2
<1>5. /\ pending' = pending \ {c} /\ torn \subseteq torn'
      /\ c \in pending => c \in torn' \/ c \notin sample \cup PromoteGot \cup PromoteHalf
  BY <1>3, AskedIsTyped DEF DiscardRow
<1>6. Open' = Open
  BY <1>2 DEF Open
<1> HIDE DEF c
<1>7. CapturesApart'
  BY <1>2, <1>3, <1>4, <1>5 DEF CapturesApart
<1>8. PromotionsHaveRows' /\ DiscardsOwnRows' /\ DeletesOwnRows' /\ HeldHaveAudio'
  BY <1>2, <1>4, <1>5 DEF PromotionsHaveRows, DiscardsOwnRows, DeletesOwnRows, HeldHaveAudio
<1>9. HeldOnce'
  <2>1. Held' \subseteq Held
    BY <1>2, <1>4, <1>5, <1>6 DEF Held
  <2> QED
    BY <1>2, <1>5, <2>1, HeldShrinks
<1>10. SamplesOwnAudio'
  <2>1. /\ \A d \in sample' \ audio' : d \in torn' \/ d \in DeleteHalf'
        /\ \A d \in audio' \ (pending' \cup sample') :
             capture'[d] \in {"written", "undo"} \/ d \in stray' \/ d \in DiscardHalf'
    BY <1>2, <1>4, <1>5, OwnAudio
  <2> QED
    BY <1>1, <2>1 DEF SamplesOwnAudio, DeleteHalf, DiscardHalf, Doing, Request, SamplesTypeOK
<1> QED
  BY <1>1, <1>7, <1>8, <1>9, <1>10

(* remove_audio: nobody needs the file, or what needs it is torn. *)
LEMMA RemoveAudioKeeps ==
  ASSUME SamplesInv, NEW w \in Requesters, RemoveAudio(w)
  PROVE  SamplesInv'
<1> USE DEF SamplesInv
<1> DEFINE c == request[w].clip
<1>1. SamplesTypeOK'
  BY SamplesTyped DEF SamplesStep, SStep
<1>2. /\ UNCHANGED <<capture, pending, sample, judged, beside>>
      /\ request[w] # Idle
      /\ At(w, "discard", "half") \/ At(w, "delete", "got")
      /\ audio' \subseteq audio /\ audio \subseteq audio' \cup {c}
      /\ stray \subseteq stray' /\ torn \subseteq torn'
      /\ c \notin audio' \/ c \in stray'
  BY DEF RemoveAudio, tables, At
<1>3. c \in Clips /\ c \in Asked /\ capture[c] = "over"
  BY <1>2, RequestOf, AskedIsTyped DEF CapturesApart
<1>4. /\ PromoteGot' \subseteq PromoteGot /\ PromoteHalf' \subseteq PromoteHalf
      /\ Asked' \subseteq Asked
      /\ DiscardHalf' \subseteq DiscardHalf /\ DiscardHalf \subseteq DiscardHalf' \cup {c}
      /\ At(w, "discard", "half") => DeleteHalf' = DeleteHalf /\ c \in DiscardHalf
      /\ At(w, "delete", "got") => DeleteHalf' = DeleteHalf \cup {c}
      /\ DeleteHalf \subseteq DeleteHalf'
  <2>1. CASE At(w, "discard", "half")
    <3>1. Answer(w) /\ ~At(w, "delete", "half") /\ ~At(w, "delete", "got")
      BY <2>1 DEF RemoveAudio, At
    <3>2. c \in DiscardHalf
      BY <1>3, <2>1, RequestOf DEF At, DiscardHalf, Doing
    <3> QED
      BY <1>2, <3>1, <3>2, AnswerMoves
  <2>2. CASE At(w, "delete", "got")
    <3>1. GoOn(w) /\ ~At(w, "discard", "half")
      BY <2>2 DEF RemoveAudio, At
    <3> QED
      BY <2>2, <3>1, GoOnMoves
  <2> QED
    BY <1>2, <2>1, <2>2
<1>5. At(w, "delete", "got") => c \in torn' \/ c \notin pending \cup PromoteGot \cup PromoteHalf
  BY <1>3, AskedIsTyped DEF RemoveAudio
<1>6. Open' = Open
  BY <1>2 DEF Open
<1> HIDE DEF c
<1>7. CapturesApart'
  BY <1>2, <1>3, <1>4 DEF CapturesApart
<1>8. PromotionsHaveRows' /\ DiscardsOwnRows' /\ DeletesOwnRows'
  BY <1>2, <1>4, <1>5 DEF PromotionsHaveRows, DiscardsOwnRows, DeletesOwnRows
<1>9. HeldHaveAudio'
  BY <1>2, <1>4, <1>5 DEF HeldHaveAudio, DiscardsOwnRows
<1>10. HeldOnce'
  <2>1. Held' \subseteq Held
    BY <1>2, <1>4, <1>6 DEF Held
  <2> QED
    BY <1>2, <2>1, HeldShrinks
<1>11. SamplesOwnAudio'
  <2>1. \A d \in sample' \ audio' : d \in torn' \/ d \in DeleteHalf'
    BY <1>2, <1>4, OwnAudio DEF DiscardsOwnRows
  <2>2. \A d \in audio' \ (pending' \cup sample') :
          capture'[d] \in {"written", "undo"} \/ d \in stray' \/ d \in DiscardHalf'
    BY <1>2, <1>4, OwnAudio
  <2> QED
    BY <1>1, <2>1, <2>2
       DEF SamplesOwnAudio, DeleteHalf, DiscardHalf, Doing, Request, SamplesTypeOK
<1> QED
  BY <1>1, <1>7, <1>8, <1>9, <1>10, <1>11

(* delete_sample ends, and rulings come and go *)
LEMMA DeleteKeeps ==
  ASSUME SamplesInv, NEW w \in Requesters, DeleteRows(w) \/ Judge(w)
  PROVE  SamplesInv'
<1> USE DEF SamplesInv
<1> DEFINE c == request[w].clip
<1>1. SamplesTypeOK'
  BY SamplesTyped DEF SamplesStep, SStep
<1>2. /\ UNCHANGED <<capture, pending, audio, beside, stray, torn>>
      /\ request[w] # Idle /\ ~At(w, "discard", "half") /\ Answer(w)
      /\ (At(w, "delete", "half") /\ sample' = sample \ {c})
           \/ (~At(w, "delete", "half") /\ UNCHANGED sample)
  BY DEF DeleteRows, Judge, At
<1>3. c \in Clips /\ c \in Asked /\ capture[c] = "over"
  BY <1>2, RequestOf, AskedIsTyped DEF CapturesApart
<1>4. /\ PromoteGot' \subseteq PromoteGot /\ PromoteHalf' \subseteq PromoteHalf
      /\ Asked' \subseteq Asked /\ DiscardHalf' = DiscardHalf
      /\ DeleteHalf' \subseteq DeleteHalf /\ DeleteHalf \subseteq DeleteHalf' \cup {c}
      /\ UNCHANGED sample => DeleteHalf' = DeleteHalf \/ c \notin sample
  BY <1>2, AnswerMoves
<1>5. At(w, "delete", "half") => c \in DeleteHalf
  BY <1>2, <1>3, RequestOf DEF At, DeleteHalf, Doing
<1>6. Open' = Open
  BY <1>2 DEF Open
<1> HIDE DEF c
<1>7. CapturesApart'
  BY <1>2, <1>3, <1>4 DEF CapturesApart
<1>8. PromotionsHaveRows' /\ DiscardsOwnRows' /\ DeletesOwnRows' /\ HeldHaveAudio'
  BY <1>2, <1>4, <1>5 DEF PromotionsHaveRows, DiscardsOwnRows, DeletesOwnRows, HeldHaveAudio
<1>9. HeldOnce'
  <2>1. Held' \subseteq Held
    BY <1>2, <1>4, <1>6 DEF Held
  <2> QED
    BY <1>2, <2>1, HeldShrinks
<1>10. SamplesOwnAudio'
  <2>1. \A d \in sample' \ audio' : d \in torn' \/ d \in DeleteHalf'
    BY <1>2, <1>4, OwnAudio
  <2>2. \A d \in audio' \ (pending' \cup sample') :
          capture'[d] \in {"written", "undo"} \/ d \in stray' \/ d \in DiscardHalf'
    BY <1>2, <1>4, <1>5, OwnAudio DEF DeletesOwnRows
  <2> QED
    BY <1>1, <2>1, <2>2
       DEF SamplesOwnAudio, DeleteHalf, DiscardHalf, Doing, Request, SamplesTypeOK
<1> QED
  BY <1>1, <1>7, <1>8, <1>9, <1>10

LEMMA RestKeeps ==
  ASSUME SamplesInv, UNCHANGED <<capture, pending, sample, audio, request, beside, stray, torn>>,
         SamplesStep
  PROVE  SamplesInv'
<1>1. SamplesTypeOK'
  BY SamplesTyped DEF SamplesInv
<1>2. UNCHANGED <<PromoteGot, PromoteHalf, DiscardHalf, DeleteHalf, Asked, Open>>
  BY DEF PromoteGot, PromoteHalf, DiscardHalf, DeleteHalf, Doing, Asked, Open
<1> QED
  BY <1>1, <1>2
     DEF SamplesInv, CapturesApart, PromotionsHaveRows, DiscardsOwnRows, DeletesOwnRows,
         HeldOnce, Held, HeldHaveAudio, SamplesOwnAudio, Request

-----------------------------------------------------------------------------
(* What is cut short leaves its files among the strays and its rows torn. *)
LEMMA CutKeeps ==
  ASSUME SamplesInv, NEW C \in SUBSET Open, NEW W \in SUBSET Requesters, CutShort(C, W),
         SamplesTypeOK'
  PROVE  SamplesInv'
<1> USE DEF SamplesInv
<1>1. /\ UNCHANGED <<pending, sample, judged, audio, beside>>
      /\ \A d \in Clips : capture'[d] = IF d \in C THEN "over" ELSE capture[d]
      /\ \A v \in Requesters : request'[v] = IF v \in W THEN Idle ELSE request[v]
  BY DEF CutShort, tables
<1>2. ASSUME NEW op \in {"promote", "discard", "delete", "judge"}, NEW at
      PROVE  Doing(op, at)' \subseteq Doing(op, at)
  <2>1. Doing(op, at)' = {d \in Clips : \E v \in Requesters : request'[v] = Request(op, d, at)}
    BY DEF Doing, Request
  <2>2. \A d \in Clips : Idle # Request(op, d, at)
    BY RequestParts
  <2> QED
    BY <1>1, <2>1, <2>2 DEF Doing
<1>3. /\ PromoteGot' \subseteq PromoteGot /\ PromoteHalf' \subseteq PromoteHalf
      /\ DiscardHalf' \subseteq DiscardHalf /\ DeleteHalf' \subseteq DeleteHalf
  BY <1>2 DEF PromoteGot, PromoteHalf, DiscardHalf, DeleteHalf
<1>4. Asked' \subseteq Asked
  BY <1>1 DEF Asked
<1>5. stray \subseteq stray' /\ torn \subseteq torn'
  BY DEF CutShort
<1>6. DiscardHalf \subseteq DiscardHalf' \cup stray'
  <2> SUFFICES ASSUME NEW d \in DiscardHalf, d \notin stray' PROVE d \in DiscardHalf'
    OBVIOUS
  <2>1. PICK v \in Requesters : request[v] = Request("discard", d, "half")
    BY DEF DiscardHalf, Doing
  <2>2. At(v, "discard", "half") /\ request[v].clip = d
    BY <2>1, RequestParts DEF At
  <2>3. v \notin W
    BY <2>2 DEF CutShort
  <2>4. request'[v] = Request("discard", d, "half")
    BY <1>1, <2>1, <2>3
  <2> QED
    BY <2>4 DEF DiscardHalf, Doing, Request
<1>7. DeleteHalf \subseteq DeleteHalf' \cup torn'
  <2> SUFFICES ASSUME NEW d \in DeleteHalf, d \notin torn' PROVE d \in DeleteHalf'
    OBVIOUS
  <2>1. PICK v \in Requesters : request[v] = Request("delete", d, "half")
    BY DEF DeleteHalf, Doing
  <2>2. At(v, "delete", "half") /\ request[v].clip = d
    BY <2>1, RequestParts DEF At
  <2>3. v \notin W
    BY <2>2 DEF CutShort
  <2>4. request'[v] = Request("delete", d, "half")
    BY <1>1, <2>1, <2>3
  <2> QED
    BY <2>4 DEF DeleteHalf, Doing, Request
<1>8. \A d \in Clips : capture[d] \in {"written", "undo"} =>
        capture'[d] \in {"written", "undo"} \/ d \in stray'
  BY <1>1 DEF CutShort
<1>9. Open' \subseteq Open
  BY <1>1 DEF Open
<1>10. CapturesApart'
  BY <1>1, <1>4 DEF CapturesApart
<1>11. PromotionsHaveRows' /\ DiscardsOwnRows' /\ DeletesOwnRows' /\ HeldHaveAudio'
  BY <1>1, <1>3, <1>5 DEF PromotionsHaveRows, DiscardsOwnRows, DeletesOwnRows, HeldHaveAudio
<1>12. HeldOnce'
  <2>1. Held' \subseteq Held
    BY <1>1, <1>3, <1>9 DEF Held
  <2> QED
    BY <1>1, <1>5, <2>1, HeldShrinks
<1>13. SamplesOwnAudio'
  <2>1. \A d \in sample' \ audio' : d \in torn' \/ d \in DeleteHalf'
    BY <1>1, <1>5, <1>7, OwnAudio
  <2>2. \A d \in audio' \ (pending' \cup sample') :
          capture'[d] \in {"written", "undo"} \/ d \in stray' \/ d \in DiscardHalf'
    BY <1>1, <1>5, <1>6, <1>8, OwnAudio DEF SamplesTypeOK
  <2> QED
    BY <2>1, <2>2
       DEF SamplesOwnAudio, DeleteHalf, DiscardHalf, Doing, Request, SamplesTypeOK
<1> QED
  BY <1>10, <1>11, <1>12, <1>13

LEMMA SamplesKeep ==
  ASSUME SamplesInv, SamplesStep
  PROVE  SamplesInv'
<1>1. SamplesTypeOK'
  BY SamplesTyped DEF SamplesInv
<1>2. ASSUME NEW c \in Clips, Check(c) \/ WriteWav(c) \/ InsertPending(c) \/ Undo(c)
      PROVE  SamplesInv'
  BY <1>2, CheckKeeps, CaptureKeeps
<1>3. ASSUME NEW j \in judged, Unjudge(j) PROVE SamplesInv'
  BY <1>3, RestKeeps DEF Unjudge
<1>4. ASSUME NEW w \in Requesters, NEW c \in Clips,
             NEW op \in {"promote", "discard", "delete", "judge"}, Get(w, op, c)
      PROVE  SamplesInv'
  BY <1>4, GetKeeps
<1>5. ASSUME NEW w \in Requesters,
             \/ InsertSample(w) \/ DeletePending(w) \/ DiscardRow(w) \/ RemoveAudio(w)
             \/ Judge(w) \/ DeleteRows(w)
      PROVE  SamplesInv'
  BY <1>5, PromoteKeeps, DiscardKeeps, RemoveAudioKeeps, DeleteKeeps
<1>6. ASSUME Dropped PROVE SamplesInv'
  <2>1. ASSUME NEW c \in Open, CutShort({c}, {}) PROVE SamplesInv'
    BY <1>1, <2>1, CutKeeps
  <2>2. ASSUME NEW w \in Requesters, CutShort({}, {w}) PROVE SamplesInv'
    BY <1>1, <2>2, CutKeeps
  <2> QED
    BY <1>6, <2>1, <2>2 DEF Dropped
<1>7. ASSUME CutShort(Open, Requesters) PROVE SamplesInv'
  BY <1>1, <1>7, CutKeeps
<1>8. ASSUME UNCHANGED others PROVE SamplesInv'
  BY <1>8, RestKeeps DEF others, tables
<1>9. SStep => SamplesInv'
  BY <1>2, <1>3, <1>4, <1>5, <1>6 DEF SStep
<1> QED
  BY <1>5, <1>7, <1>8, <1>9 DEF SamplesStep

(* A run touches the samples in no other way. *)
LEMMA NextIsSamplesStep ==
  ASSUME [Next]_vars
  PROVE  SamplesStep
<1>1. CASE UNCHANGED vars
  BY <1>1 DEF vars, svars, others, SamplesStep
<1>2. CASE SStep
  BY <1>2 DEF SamplesStep
<1>3. ASSUME NEW w \in Requesters, DeleteSample(w) PROVE SamplesStep
  BY <1>3 DEF DeleteSample, SamplesStep
<1>4. ASSUME NEW r \in Runs, TakeSlot(r) \/ StartStep(r) \/ Cancel(r) \/ DeleteRun(r)
      PROVE  SamplesStep
  <2>1. UNCHANGED others /\ (Event \/ UNCHANGED events)
    BY <1>4 DEF TakeSlot, StartStep, InsertRun, Spawn, StartCut, Cancel, DeleteRun, svars, others
  <2> QED
    BY <2>1 DEF SamplesStep
<1>5. ASSUME NEW r \in Runs, TaskStep(r) PROVE SamplesStep
  <2>1. UNCHANGED others /\ (Event \/ UNCHANGED events)
    BY <1>5 DEF TaskStep, Load, NoMore, Measure, RunFails, Unload, FinishRun, LetGo, Release,
                Restore, svars, others
  <2> QED
    BY <2>1 DEF SamplesStep
<1>6. CASE Restart
  BY <1>6 DEF Restart, SamplesStep
<1> QED
  BY <1>1, <1>2, <1>3, <1>4, <1>5, <1>6 DEF Next

LEMMA InitSamples == Init => SamplesInv
<1> SUFFICES ASSUME Init PROVE SamplesInv
  OBVIOUS
<1> USE DEF Init, SInit
<1>1. SamplesTypeOK
  BY EvalSamplesAssumption DEF SamplesTypeOK
<1>2. \A op \in {"promote", "discard", "delete", "judge"} : \A at : Doing(op, at) = {}
  BY RequestParts DEF Doing
<1>3. PromoteGot = {} /\ PromoteHalf = {} /\ DiscardHalf = {} /\ DeleteHalf = {} /\ Asked = {}
  BY <1>2 DEF PromoteGot, PromoteHalf, DiscardHalf, DeleteHalf, Asked
<1>4. Open = {} /\ Held = Kept
  BY <1>3 DEF Open, Held
<1>5. HeldOnce
  BY <1>4, EvalSamplesAssumption DEF HeldOnce
<1>6. CapturesApart /\ PromotionsHaveRows /\ DiscardsOwnRows /\ DeletesOwnRows /\ HeldHaveAudio
  BY <1>3, EvalSamplesAssumption
     DEF CapturesApart, PromotionsHaveRows, DiscardsOwnRows, DeletesOwnRows, HeldHaveAudio
<1>7. SamplesOwnAudio
  BY DEF SamplesOwnAudio
<1> QED
  BY <1>1, <1>5, <1>6, <1>7 DEF SamplesInv

THEOREM SamplesInvariant == Spec => []SamplesInv
<1>1. SamplesInv /\ [Next]_vars => SamplesInv'
  BY NextIsSamplesStep, SamplesKeep
<1> QED
  BY InitSamples, <1>1, PTL DEF Spec

(* mod.rs:218-224: no record is labelled twice, but for captures of it that ran
   side by side and clips that came back from a discard or a delete. *)
THEOREM SamplesAreTakenOnce == Spec => []ClipsAreTakenOnce
<1>1. SamplesInv => ClipsAreTakenOnce
  BY DEF SamplesInv, HeldOnce, Held, ClipsAreTakenOnce
<1> QED
  BY <1>1, SamplesInvariant, PTL

(* mod.rs:20-21: samples and audio files belong together through every race of
   promotions, discards and deletes, and every failure is accounted for. *)
THEOREM SamplesOwnTheirAudio == Spec => []SamplesOwnAudio
<1>1. SamplesInv => SamplesOwnAudio
  BY DEF SamplesInv
<1> QED
  BY <1>1, SamplesInvariant, PTL

-----------------------------------------------------------------------------
(* Who holds the run slot, and who is named *)
Slotted == Starting \cup Executing \cup {"closing", "closed", "restoring"}
Named == Executing \cup {"closing", "closed"}
SlotIsOwn == \A r \in Runs :
  /\ phase[r] \in Slotted => slot = r
  /\ inFlight = r <=> phase[r] \in Named

(* What a run's row says at each point of its task *)
RowOf(r) ==
  /\ phase[r] \in {"new", "held"} => status[r] = "none"
  /\ phase[r] \in {"inserted", "closing"} \cup Executing => status[r] \in {"running", "gone"}
  /\ phase[r] = "closing" => local[r].outcome \in {"completed", "cancelled", "failed"}
  /\ status[r] = "running" =>
       \/ phase[r] \in Starting \cup Executing \cup {"closing"}
       \/ phase[r] = "cut" \/ local[r].outcome = "unknown"

(* A candidate that is through did not load, or has a result for every clip *)
HasCell(r, m, c) == \E k \in cell[r] : k.model = m /\ k.clip = c
Through(r, m) ==
  \/ [model |-> m, failed |-> TRUE] \in candidate[r]
  \/ \A c \in covered[r] \ torn : HasCell(r, m, c)

(* A task is through with the candidates before the one it is at; a candidate
   that is asked for again is, once more, when it is done again. *)
ProgressOf(r) ==
  /\ phase[r] \in Starting => local[r].at = 1
  /\ phase[r] \in Executing =>
       /\ covered[r] \subseteq local[r].covers
       /\ local[r].at <= Len(Plan[r]) + 1
       /\ \A i \in 1 .. local[r].at - 1 :
            Through(r, Plan[r][i]) \/ (phase[r] = "measuring" /\ Plan[r][i] = Candidate(r))
  /\ phase[r] = "measuring" =>
       /\ local[r].at <= Len(Plan[r])
       /\ \A c \in (covered[r] \ torn) \ local[r].todo : HasCell(r, Candidate(r), c)
  /\ (phase[r] = "closing" /\ local[r].outcome = "completed") \/ status[r] = "completed" =>
       \A i \in 1 .. Len(Plan[r]) : Through(r, Plan[r][i])

(* The inductive invariant of the runs *)
RunsInv ==
  /\ SamplesInv /\ TypeOK
  /\ SlotIsOwn
  /\ \A r \in Runs : RowOf(r) /\ ProgressOf(r)

LEMMA PhasesOfRuns ==
  /\ Starting = {"held", "inserted"} /\ Executing = {"between", "measuring"}
  /\ Slotted = {"held", "inserted", "between", "measuring", "closing", "closed", "restoring"}
  /\ Named = {"between", "measuring", "closing", "closed"}
  BY DEF Starting, Executing, Slotted, Named

LEMMA TornGrows ==
  ASSUME SamplesStep
  PROVE  torn \subseteq torn'
<1>1. \A C, W : CutShort(C, W) => torn \subseteq torn'
  BY DEF CutShort
<1>2. SStep => torn \subseteq torn'
  BY <1>1 DEF SStep, Check, WriteWav, InsertPending, Undo, Unjudge, Get, InsertSample,
              DeletePending, DiscardRow, RemoveAudio, Judge, Dropped
<1> QED
  BY <1>1, <1>2 DEF SamplesStep, DeleteRows, others

-----------------------------------------------------------------------------
Locals == [covers : SUBSET Clips, at : Nat \ {0}, todo : SUBSET Clips,
           outcome : {"none", "completed", "cancelled", "failed", "unknown"}]
RunPhases == {"new", "closing", "closed", "restoring", "over", "cut"} \cup Starting \cup Executing

LEMMA FreshIsLocal ==
  /\ Fresh \in Locals /\ Fresh.outcome = "none" /\ Fresh.at = 1
  /\ \A how \in {"none", "completed", "cancelled", "failed", "unknown"} :
       /\ [Fresh EXCEPT !.outcome = how] \in Locals
       /\ [Fresh EXCEPT !.outcome = how].outcome = how
  /\ \A wanted \in SUBSET Clips :
       /\ [Fresh EXCEPT !.covers = wanted] \in Locals
       /\ [Fresh EXCEPT !.covers = wanted].at = 1
  BY DEF Fresh, Locals

LEMMA LocalMoves ==
  ASSUME NEW x \in Locals
  PROVE  /\ [x EXCEPT !.at = @ + 1] \in Locals
         /\ [x EXCEPT !.at = @ + 1].at = x.at + 1 /\ [x EXCEPT !.at = @ + 1].covers = x.covers
         /\ \A S \in SUBSET Clips :
              LET y == [x EXCEPT !.todo = S]
              IN y \in Locals /\ y.todo = S /\ y.at = x.at /\ y.covers = x.covers
  BY DEF Locals

(* The candidates of a plan are models. *)
LEMMA CandidateIsModel ==
  ASSUME TypeOK, NEW r \in Runs
  PROVE  /\ Len(Plan[r]) \in Nat /\ \A i \in 1 .. Len(Plan[r]) : Plan[r][i] \in Models
         /\ local[r] \in Locals /\ local[r].at \in Nat \ {0}
         /\ More(r) => Candidate(r) \in Models
<1>1. Plan[r] \in Seq(Models)
  BY EvalRunnerAssumption
<1>2. local[r] \in Locals /\ local[r].at \in Nat \ {0}
  BY DEF TypeOK, Locals
<1>3. Len(Plan[r]) \in Nat /\ \A i \in 1 .. Len(Plan[r]) : Plan[r][i] \in Models
  BY <1>1
<1> QED
  BY <1>2, <1>3 DEF More, Candidate

(* What a run unloads and restores are models. *)
LEMMA ModelsTyped ==
  ASSUME TypeOK, Next
  PROVE  displaced' \in [Runs -> SUBSET Models] /\ missing' \in [Runs -> SUBSET Models]
<1>1. displaced \in [Runs -> SUBSET Models] /\ missing \in [Runs -> SUBSET Models]
  BY DEF TypeOK
<1>2. \A S \in SUBSET Voice : S \in SUBSET Models
  BY EvalRunnerAssumption
<1> DEFINE Modelled == displaced' \in [Runs -> SUBSET Models] /\ missing' \in [Runs -> SUBSET Models]
<1>3. ASSUME NEW r \in Runs, TakeSlot(r) PROVE Modelled
  BY <1>1, <1>2, <1>3 DEF TakeSlot
<1>4. ASSUME NEW r \in Runs, Load(r) PROVE Modelled
  <2>1. PICK S \in SUBSET Voice : missing' = [missing EXCEPT ![r] = @ \cup S]
    BY <1>4 DEF Load
  <2> QED
    BY <1>1, <1>2, <1>4, <2>1 DEF Load
<1>5. ASSUME NEW r \in Runs, RunFails(r) PROVE Modelled
  <2>1. CASE UNCHANGED missing
    BY <1>1, <1>5, <2>1 DEF RunFails
  <2>2. CASE \E loaded \in SUBSET Voice : missing' = [missing EXCEPT ![r] = @ \cup loaded]
    BY <1>1, <1>2, <1>5, <2>2 DEF RunFails
  <2> QED
    BY <1>5, <2>1, <2>2 DEF RunFails
<1>6. ASSUME NEW r \in Runs, StartCut(r) \/ Release(r) \/ \E m \in Models : Restore(r, m)
      PROVE  Modelled
  BY <1>1, <1>6 DEF StartCut, Release, Restore
<1>7. ASSUME NEW r \in Runs,
             \/ InsertRun(r) \/ Spawn(r) \/ NoMore(r) \/ Measure(r) \/ Unload(r)
             \/ FinishRun(r) \/ LetGo(r) \/ Cancel(r) \/ DeleteRun(r)
      PROVE  Modelled
  BY <1>1, <1>7 DEF InsertRun, Spawn, NoMore, Measure, Unload, FinishRun, LetGo, Cancel,
                    DeleteRun, task
<1>8. ASSUME NEW w \in Requesters, DeleteSample(w) PROVE Modelled
  BY <1>1, <1>8 DEF DeleteSample, task
<1>9. ASSUME Restart PROVE Modelled
  BY <1>9 DEF Restart
<1>10. ASSUME UNCHANGED rvars PROVE Modelled
  BY <1>1, <1>10 DEF rvars, task
<1> HIDE DEF Modelled
<1>11. Modelled
  BY <1>3, <1>4, <1>5, <1>6, <1>7, <1>8, <1>9, <1>10 DEF Next, StartStep, TaskStep
<1> QED
  BY <1>11 DEF Modelled

(* Every step of a run keeps the types. *)
LEMMA RunsTyped ==
  ASSUME RunsInv, Next
  PROVE  TypeOK'
<1> USE DEF RunsInv
<1>1. SamplesTypeOK'
  BY NextIsSamplesStep, SamplesTyped DEF TypeOK
<1>2. /\ status \in [Runs -> {"none", "running", "completed", "cancelled", "failed", "gone"}]
      /\ covered \in [Runs -> SUBSET Clips]
      /\ candidate \in [Runs -> SUBSET [model : Models, failed : BOOLEAN]]
      /\ cell \in [Runs -> SUBSET [model : Models, clip : Clips, text : Texts \cup {Error}]]
      /\ slot \in Runs \cup {NoRun} /\ inFlight \in Runs \cup {NoRun} /\ cancelled \subseteq Runs
      /\ phase \in [Runs -> RunPhases] /\ local \in [Runs -> Locals]
  BY DEF TypeOK, RunPhases, Locals
<1> DEFINE Typed ==
      /\ status' \in [Runs -> {"none", "running", "completed", "cancelled", "failed", "gone"}]
      /\ covered' \in [Runs -> SUBSET Clips]
      /\ candidate' \in [Runs -> SUBSET [model : Models, failed : BOOLEAN]]
      /\ cell' \in [Runs -> SUBSET [model : Models, clip : Clips, text : Texts \cup {Error}]]
      /\ slot' \in Runs \cup {NoRun} /\ inFlight' \in Runs \cup {NoRun} /\ cancelled' \subseteq Runs
      /\ phase' \in [Runs -> RunPhases] /\ local' \in [Runs -> Locals]
<1>3. SUFFICES Typed
  BY <1>1, ModelsTyped DEF TypeOK, RunPhases, Locals, Starting, Executing
<1>4. ASSUME NEW r \in Runs, NEW p \in RunPhases, Goes(r, p)
      PROVE  phase' \in [Runs -> RunPhases]
  BY <1>2, <1>4 DEF Goes
<1>5. ASSUME NEW r \in Runs, NEW x \in Locals, Keep(r, x) PROVE local' \in [Runs -> Locals]
  BY <1>2, <1>5 DEF Keep
<1>6. \A p \in {"new", "held", "inserted", "between", "measuring", "closing", "closed",
                "restoring", "over", "cut"} : p \in RunPhases
  BY DEF RunPhases, Starting, Executing
<1>7. ASSUME NEW r \in Runs, TakeSlot(r) PROVE Typed
  <2>1. phase' \in [Runs -> RunPhases]
    BY <1>4, <1>6, <1>7 DEF TakeSlot
  <2>2. local' \in [Runs -> Locals]
    <3>1. PICK wanted \in SUBSET sample \ {{}} : Keep(r, [Fresh EXCEPT !.covers = wanted])
      BY <1>7 DEF TakeSlot
    <3>2. wanted \in SUBSET Clips
      BY DEF SamplesInv, SamplesTypeOK
    <3> QED
      BY <1>5, <3>1, <3>2, FreshIsLocal
  <2> QED
    BY <1>2, <1>7, <2>1, <2>2 DEF TakeSlot, rtables
<1>8. ASSUME NEW r \in Runs, InsertRun(r) \/ Spawn(r) PROVE Typed
  <2>1. phase' \in [Runs -> RunPhases]
    BY <1>4, <1>6, <1>8 DEF InsertRun, Spawn
  <2>2. local[r].covers \in SUBSET Clips
    BY <1>2 DEF Locals
  <2> QED
    BY <1>2, <1>8, <2>1, <2>2 DEF InsertRun, Spawn, control
<1>9. ASSUME NEW r \in Runs, StartCut(r) PROVE Typed
  <2>1. phase' \in [Runs -> RunPhases] /\ local' \in [Runs -> Locals]
    BY <1>4, <1>5, <1>6, <1>9, FreshIsLocal DEF StartCut
  <2>2. local[r].covers \in SUBSET Clips
    BY <1>2 DEF Locals
  <2>3. covered' \in [Runs -> SUBSET Clips]
    BY <1>2, <1>9, <2>2 DEF StartCut
  <2> QED
    BY <1>2, <1>9, <2>1, <2>3 DEF StartCut
<1>10. ASSUME NEW r \in Runs, Load(r) PROVE Typed
  <2>1. Candidate(r) \in Models
    BY <1>10, CandidateIsModel DEF Load
  <2>2. \A failed \in BOOLEAN : [model |-> Candidate(r), failed |-> failed]
                                  \in [model : Models, failed : BOOLEAN]
    BY <2>1
  <2>3. \A failed \in BOOLEAN : Upsert(r, failed) =>
          candidate' \in [Runs -> SUBSET [model : Models, failed : BOOLEAN]]
    BY <1>2, <2>2 DEF Upsert
  <2>4. candidate' \in [Runs -> SUBSET [model : Models, failed : BOOLEAN]]
    BY <1>10, <2>3 DEF Load
  <2>5. local[r] \in Locals /\ local[r].covers \in SUBSET Clips
    BY <1>2 DEF Locals
  <2>6. phase' \in [Runs -> RunPhases]
    BY <1>2, <1>4, <1>6, <1>10 DEF Load
  <2>7. local' \in [Runs -> Locals]
    BY <1>5, <1>10, <2>5, LocalMoves DEF Load
  <2> QED
    BY <1>2, <1>10, <2>4, <2>6, <2>7 DEF Load, control
<1>11. ASSUME NEW r \in Runs, NoMore(r) \/ RunFails(r) \/ Unload(r) PROVE Typed
  <2>1. \A how \in {"completed", "cancelled", "failed"} :
          Ends(r, how) => phase' \in [Runs -> RunPhases] /\ local' \in [Runs -> Locals]
    BY <1>4, <1>5, <1>6, FreshIsLocal DEF Ends
  <2>2. local[r] \in Locals
    BY <1>2
  <2>3. phase' \in [Runs -> RunPhases] /\ local' \in [Runs -> Locals]
    <3>1. CASE NoMore(r) \/ RunFails(r)
      BY <2>1, <3>1 DEF NoMore, RunFails
    <3>2. CASE Unload(r)
      BY <1>4, <1>5, <1>6, <2>1, <2>2, <3>2, LocalMoves DEF Unload
    <3> QED
      BY <1>11, <3>1, <3>2
  <2> QED
    BY <1>2, <1>11, <2>3 DEF NoMore, RunFails, Unload, rtables, control
<1>12. ASSUME NEW r \in Runs, Measure(r) PROVE Typed
  <2>1. phase[r] = "measuring" /\ local[r].todo # {}
    BY <1>12 DEF Measure, Measuring
  <2>2. Due(r) \in local[r].todo
    BY <2>1 DEF Due
  <2>3. local[r] \in Locals /\ local[r].todo \in SUBSET Clips
    BY <1>2 DEF Locals
  <2>4. Candidate(r) \in Models
    BY <2>1, CandidateIsModel DEF ProgressOf, More
  <2>5. Output[Candidate(r)][Due(r)] \in Texts \cup {Error}
    BY <2>2, <2>3, <2>4, EvalRunnerAssumption
  <2>6. [model |-> Candidate(r), clip |-> Due(r),
         text |-> IF Due(r) \in audio THEN Output[Candidate(r)][Due(r)] ELSE Error]
          \in [model : Models, clip : Clips, text : Texts \cup {Error}]
    BY <2>2, <2>3, <2>4, <2>5
  <2>7. cell' \in [Runs -> SUBSET [model : Models, clip : Clips, text : Texts \cup {Error}]]
    BY <1>2, <1>12, <2>6 DEF Measure
  <2>8. local[r].todo \ {Due(r)} \in SUBSET Clips
    BY <2>3
  <2>9. Keep(r, [local[r] EXCEPT !.todo = local[r].todo \ {Due(r)}])
    BY <1>12 DEF Measure
  <2>10. local' \in [Runs -> Locals]
    BY <1>5, <2>3, <2>8, <2>9, LocalMoves
  <2> QED
    BY <1>2, <1>12, <2>7, <2>10 DEF Measure, control
<1>13. ASSUME NEW r \in Runs, FinishRun(r) PROVE Typed
  <2>1. phase' \in [Runs -> RunPhases] /\ local' \in [Runs -> Locals]
    BY <1>4, <1>5, <1>6, <1>13, FreshIsLocal DEF FinishRun
  <2>2. local[r].outcome \in {"completed", "cancelled", "failed"}
    BY <1>13 DEF FinishRun, RowOf
  <2>3. status' \in [Runs -> {"none", "running", "completed", "cancelled", "failed", "gone"}]
    BY <1>2, <1>13, <2>2 DEF FinishRun
  <2> QED
    BY <1>2, <1>13, <2>1, <2>3 DEF FinishRun, control
<1>14. ASSUME NEW r \in Runs, LetGo(r) \/ Release(r) \/ \E m \in Models : Restore(r, m) PROVE Typed
  <2>1. phase' \in [Runs -> RunPhases]
    BY <1>2, <1>4, <1>6, <1>14 DEF LetGo, Release, Restore
  <2> QED
    BY <1>2, <1>14, <2>1 DEF LetGo, Release, Restore, rtables, control
<1>15. ASSUME NEW r \in Runs, Cancel(r) \/ DeleteRun(r) PROVE Typed
  BY <1>2, <1>15 DEF Cancel, DeleteRun, rtables, task, control
<1>16. ASSUME NEW w \in Requesters, DeleteSample(w) PROVE Typed
  BY <1>2, <1>16 DEF DeleteSample, control, task
<1>17. CASE Restart
  <2>1. phase' \in [Runs -> RunPhases] /\ local' \in [Runs -> Locals]
    BY <1>2, <1>6, <1>17, FreshIsLocal DEF Restart
  <2>2. status' \in [Runs -> {"none", "running", "completed", "cancelled", "failed", "gone"}]
    BY <1>2, <1>17 DEF Restart
  <2> QED
    BY <1>2, <1>17, <2>1, <2>2 DEF Restart
<1>18. CASE UNCHANGED rvars
  BY <1>2, <1>18 DEF rvars, rtables, control, task
<1> HIDE DEF Typed
<1> QED
  BY <1>7, <1>8, <1>9, <1>10, <1>11, <1>12, <1>13, <1>14, <1>15, <1>16, <1>17, <1>18
     DEF Next, StartStep, TaskStep

-----------------------------------------------------------------------------
(* Rows that others touch: results only go with what they were to cover. *)
Milder(r) ==
  /\ torn \subseteq torn'
  /\ covered'[r] \subseteq covered[r]
  /\ \A k \in cell[r] : k \in cell'[r] \/ k.clip \notin covered'[r] \ torn'
  /\ candidate[r] \subseteq candidate'[r] \/ covered'[r] = {}

LEMMA CellKept ==
  ASSUME NEW r \in Runs, Milder(r), NEW m, NEW c \in covered'[r] \ torn', HasCell(r, m, c)
  PROVE  HasCell(r, m, c)'
<1>1. PICK k \in cell[r] : k.model = m /\ k.clip = c
  BY DEF HasCell
<1>2. k \in cell'[r]
  BY <1>1 DEF Milder
<1> QED
  BY <1>1, <1>2 DEF HasCell

LEMMA ThroughKept ==
  ASSUME NEW r \in Runs, Milder(r), NEW m, Through(r, m)
  PROVE  Through(r, m)'
<1>1. CASE [model |-> m, failed |-> TRUE] \in candidate[r]
  BY <1>1 DEF Milder, Through
<1>2. CASE \A c \in covered[r] \ torn : HasCell(r, m, c)
  <2>1. \A c \in covered'[r] \ torn' : HasCell(r, m, c)'
    BY <1>2, CellKept DEF Milder
  <2> QED
    BY <2>1 DEF Through
<1> QED
  BY <1>1, <1>2 DEF Through

LEMMA RunKept ==
  ASSUME TypeOK, NEW r \in Runs, RowOf(r), ProgressOf(r), Milder(r),
         phase'[r] = phase[r], local'[r] = local[r],
         status'[r] = status[r] \/ (status'[r] = "gone" /\ status[r] # "none")
  PROVE  RowOf(r)' /\ ProgressOf(r)'
<1>1. RowOf(r)'
  BY PhasesOfRuns DEF RowOf
<1>2. Candidate(r)' = Candidate(r)
  BY DEF Candidate
<1>3. \A m : Through(r, m) => Through(r, m)'
  BY ThroughKept
<1>4. \A m : \A c \in covered'[r] \ torn' : HasCell(r, m, c) => HasCell(r, m, c)'
  BY CellKept
<1>5. covered'[r] \subseteq covered[r] /\ torn \subseteq torn'
  BY DEF Milder
<1>6. Len(Plan[r]) \in Nat /\ local[r].at \in Nat \ {0}
  BY CandidateIsModel
<1> QED
  BY <1>1, <1>2, <1>3, <1>4, <1>5, <1>6 DEF ProgressOf

(* What a step of one run leaves alone of another *)
LEMMA OtherRunsKept ==
  ASSUME TypeOK, torn \subseteq torn', NEW r \in Runs, RowOf(r), ProgressOf(r),
         phase'[r] = phase[r], local'[r] = local[r], status'[r] = status[r],
         covered'[r] = covered[r], cell'[r] = cell[r], candidate'[r] = candidate[r]
  PROVE  RowOf(r)' /\ ProgressOf(r)'
<1>1. Milder(r)
  BY DEF Milder
<1> QED
  BY <1>1, RunKept

-----------------------------------------------------------------------------
(* One lemma for each part of a run's life *)
LEMMA StartKeeps ==
  ASSUME RunsInv, torn \subseteq torn', NEW r \in Runs, TakeSlot(r) \/ StartStep(r)
  PROVE  RowOf(r)' /\ ProgressOf(r)'
<1> USE DEF RunsInv
<1>0. /\ Len(Plan[r]) \in Nat /\ Len(Plan[r]) > 0
      /\ local[r] \in Locals
  BY CandidateIsModel, EvalRunnerAssumption
<1>1. CASE TakeSlot(r)
  <2>1. /\ phase'[r] = "held" /\ local'[r].at = 1 /\ UNCHANGED status /\ phase[r] = "new"
    <3>1. PICK wanted \in SUBSET sample \ {{}} : Keep(r, [Fresh EXCEPT !.covers = wanted])
      BY <1>1 DEF TakeSlot
    <3>2. wanted \in SUBSET Clips
      BY DEF SamplesInv, SamplesTypeOK
    <3>3. local'[r] = [Fresh EXCEPT !.covers = wanted]
      BY <3>1 DEF Keep, TypeOK
    <3> QED
      BY <1>1, <3>2, <3>3, FreshIsLocal DEF TakeSlot, Goes, rtables, TypeOK
  <2> QED
    BY <2>1, PhasesOfRuns DEF RowOf, ProgressOf
<1>2. CASE InsertRun(r)
  <2>1. phase'[r] = "inserted" /\ status'[r] = "running" /\ UNCHANGED local /\ phase[r] = "held"
    BY <1>2 DEF InsertRun, Goes, TypeOK
  <2> QED
    BY <2>1, PhasesOfRuns DEF RowOf, ProgressOf
<1>3. CASE Spawn(r)
  <2>1. /\ phase'[r] = "between" /\ phase[r] = "inserted" /\ UNCHANGED <<status, local>>
        /\ covered'[r] = local[r].covers
    BY <1>3 DEF Spawn, Goes, TypeOK
  <2>2. local[r].at = 1 /\ status[r] \in {"running", "gone"}
    BY <2>1, PhasesOfRuns DEF ProgressOf, RowOf
  <2> QED
    BY <1>0, <2>1, <2>2, PhasesOfRuns DEF RowOf, ProgressOf
<1>4. CASE StartCut(r)
  <2>1. /\ phase'[r] = "cut" /\ phase[r] \in {"held", "inserted"} /\ UNCHANGED status
    BY <1>4, PhasesOfRuns DEF StartCut, Goes, TypeOK
  <2>2. status[r] \in {"none", "running", "gone"}
    BY <2>1 DEF RowOf
  <2> QED
    BY <2>1, <2>2, PhasesOfRuns DEF RowOf, ProgressOf
<1> QED
  BY <1>1, <1>2, <1>3, <1>4 DEF StartStep

LEMMA LoadKeeps ==
  ASSUME RunsInv, torn \subseteq torn', NEW r \in Runs, Load(r)
  PROVE  RowOf(r)' /\ ProgressOf(r)'
<1> USE DEF RunsInv
<1>0. PICK m \in Models, at \in Nat \ {0} : m = Candidate(r) /\ at = local[r].at
  BY CandidateIsModel DEF Load
<1>1. /\ Len(Plan[r]) \in Nat /\ local[r] \in Locals /\ at \in Nat \ {0} /\ at <= Len(Plan[r])
      /\ m = Plan[r][at] /\ local[r].covers \in SUBSET Clips
      /\ phase[r] = "between" /\ UNCHANGED <<status, covered, cell>>
      /\ status[r] \in {"running", "gone"}
  BY <1>0, CandidateIsModel, PhasesOfRuns DEF Load, More, Candidate, RowOf, Locals
<1>2. /\ covered[r] \subseteq local[r].covers
      /\ \A i \in 1 .. at - 1 : Through(r, Plan[r][i])
  BY <1>0, <1>1, PhasesOfRuns DEF ProgressOf
<1>3. ASSUME NEW failed \in BOOLEAN, Upsert(r, failed), NEW n, n # m, Through(r, n)
      PROVE  Through(r, n)'
  <2>1. candidate'[r] = {k \in candidate[r] : k.model # m} \cup {[model |-> m, failed |-> failed]}
    BY <1>0, <1>3 DEF Upsert, TypeOK
  <2>2. CASE [model |-> n, failed |-> TRUE] \in candidate[r]
    <3>1. [model |-> n, failed |-> TRUE] \in candidate'[r]
      BY <1>3, <2>1, <2>2
    <3> QED
      BY <3>1 DEF Through
  <2>3. CASE \A c \in covered[r] \ torn : HasCell(r, n, c)
    <3>1. \A c : HasCell(r, n, c)' <=> HasCell(r, n, c)
      BY <1>1 DEF HasCell
    <3> QED
      BY <1>1, <2>3, <3>1 DEF Through
  <2> QED
    BY <1>3, <2>2, <2>3 DEF Through
<1>4. CASE /\ Upsert(r, FALSE) /\ Goes(r, "measuring")
           /\ Keep(r, [local[r] EXCEPT !.todo = local[r].covers])
  <2>1. /\ phase'[r] = "measuring" /\ local'[r].at = at /\ local'[r].covers = local[r].covers
        /\ local'[r].todo = local[r].covers
    <3>1. local'[r] = [local[r] EXCEPT !.todo = local[r].covers]
      BY <1>4 DEF Keep, TypeOK
    <3> QED
      BY <1>0, <1>1, <1>4, <3>1, LocalMoves DEF Goes, TypeOK
  <2>2. Candidate(r)' = m
    BY <1>0, <1>1, <2>1 DEF Candidate
  <2>3. \A i \in 1 .. at - 1 : Through(r, Plan[r][i])' \/ Plan[r][i] = m
    BY <1>2, <1>3, <1>4
  <2> QED
    BY <1>1, <1>2, <2>1, <2>2, <2>3, PhasesOfRuns DEF RowOf, ProgressOf
<1>5. CASE /\ Upsert(r, TRUE) /\ Keep(r, [local[r] EXCEPT !.at = @ + 1]) /\ UNCHANGED phase
  <2>1. /\ phase'[r] = "between" /\ local'[r].at = at + 1 /\ local'[r].covers = local[r].covers
    <3>1. local'[r] = [local[r] EXCEPT !.at = @ + 1]
      BY <1>5 DEF Keep, TypeOK
    <3> QED
      BY <1>0, <1>1, <1>5, <3>1, LocalMoves
  <2>2. Through(r, m)'
    <3>1. [model |-> m, failed |-> TRUE] \in candidate'[r]
      BY <1>0, <1>5 DEF Upsert, TypeOK
    <3> QED
      BY <3>1 DEF Through
  <2>3. \A i \in 1 .. at : Through(r, Plan[r][i])'
    <3>1. \A i \in 1 .. at - 1 : Through(r, Plan[r][i])'
      BY <1>2, <1>3, <1>5, <2>2
    <3> QED
      BY <1>1, <2>2, <3>1
  <2> QED
    BY <1>1, <1>2, <2>1, <2>3, PhasesOfRuns DEF RowOf, ProgressOf
<1> QED
  BY <1>4, <1>5 DEF Load

LEMMA MeasureKeeps ==
  ASSUME RunsInv, torn \subseteq torn', NEW r \in Runs, Measure(r)
  PROVE  RowOf(r)' /\ ProgressOf(r)'
<1> USE DEF RunsInv
<1>0. PICK m \in Models, c \in Clips : m = Candidate(r) /\ c = Due(r)
  <2>1. Candidate(r) \in Models
    BY CandidateIsModel DEF Measure, Measuring, ProgressOf, More
  <2>2. Due(r) \in local[r].todo
    BY DEF Measure, Measuring, Due
  <2>3. local[r].todo \in SUBSET Clips
    BY CandidateIsModel DEF Locals
  <2> QED
    BY <2>1, <2>2, <2>3
<1>1. /\ Len(Plan[r]) \in Nat /\ local[r] \in Locals /\ local[r].at \in Nat \ {0}
      /\ local[r].todo \in SUBSET Clips
  BY CandidateIsModel DEF Locals
<1>2. /\ phase[r] = "measuring" /\ phase'[r] = "measuring" /\ Due(r) \in local[r].todo
      /\ UNCHANGED <<status, covered, candidate>> /\ status[r] \in {"running", "gone"}
  BY PhasesOfRuns DEF Measure, Measuring, Due, RowOf
<1>3. cell[r] \subseteq cell'[r] /\ HasCell(r, m, c)'
  <2> DEFINE k == [model |-> m, clip |-> c,
                   text |-> IF c \in audio THEN Output[m][c] ELSE Error]
  <2>1. cell'[r] = cell[r] \cup {k}
    BY <1>0 DEF Measure, TypeOK
  <2>2. k.model = m /\ k.clip = c
    OBVIOUS
  <2> HIDE DEF k
  <2>3. cell[r] \subseteq cell'[r] /\ k \in cell'[r]
    BY <2>1
  <2> QED
    BY <2>2, <2>3 DEF HasCell
<1>4. /\ local'[r].at = local[r].at /\ local'[r].covers = local[r].covers
      /\ local'[r].todo = local[r].todo \ {Due(r)}
  <2>1. local'[r] = [local[r] EXCEPT !.todo = local[r].todo \ {Due(r)}]
    BY DEF Measure, Keep, TypeOK
  <2>2. local[r].todo \ {Due(r)} \in SUBSET Clips
    BY <1>1
  <2> QED
    BY <1>1, <2>1, <2>2, LocalMoves
<1>5. Candidate(r)' = m
  BY <1>0, <1>4 DEF Candidate
<1>6. Milder(r)
  BY <1>2, <1>3 DEF Milder
<1>7. \A n : Through(r, n) => Through(r, n)'
  BY <1>6, ThroughKept
<1>8. \A d \in (covered'[r] \ torn') \ local'[r].todo : HasCell(r, m, d)'
  <2> SUFFICES ASSUME NEW d \in (covered'[r] \ torn') \ local'[r].todo
               PROVE  HasCell(r, m, d)'
    OBVIOUS
  <2>1. CASE d = c
    BY <1>3, <2>1
  <2>2. CASE d # c
    <3>1. HasCell(r, m, d)
      BY <1>0, <1>2, <1>4, <2>2 DEF ProgressOf
    <3> QED
      BY <1>6, <3>1, CellKept
  <2> QED
    BY <2>1, <2>2
<1>9. \A d \in (covered'[r] \ torn') \ local'[r].todo : HasCell(r, Candidate(r), d)'
  BY <1>5, <1>8 DEF HasCell
<1> QED
  BY <1>0, <1>1, <1>2, <1>4, <1>5, <1>7, <1>9, PhasesOfRuns DEF RowOf, ProgressOf

(* The last steps of a candidate and of a run *)
LEMMA EndKeeps ==
  ASSUME RunsInv, torn \subseteq torn', NEW r \in Runs,
         NoMore(r) \/ RunFails(r) \/ Unload(r)
  PROVE  RowOf(r)' /\ ProgressOf(r)'
<1> USE DEF RunsInv
<1>1. /\ Len(Plan[r]) \in Nat /\ local[r] \in Locals /\ local[r].at \in Nat \ {0}
  BY CandidateIsModel
<1>2. /\ phase[r] \in {"between", "measuring"} /\ status[r] \in {"running", "gone"}
      /\ UNCHANGED <<status, covered, candidate, cell>>
  BY PhasesOfRuns DEF NoMore, RunFails, Measuring, Unload, RowOf, rtables
<1>3. Milder(r)
  BY <1>2 DEF Milder
<1>4. \A m : Through(r, m) => Through(r, m)'
  BY <1>3, ThroughKept
<1>5. ASSUME NEW how \in {"completed", "cancelled", "failed"}, Ends(r, how)
      PROVE  phase'[r] = "closing" /\ local'[r].outcome = how
  <2>1. phase'[r] = "closing" /\ local'[r] = [Fresh EXCEPT !.outcome = how]
    BY <1>5 DEF Ends, Goes, Keep, TypeOK
  <2> QED
    BY <2>1, FreshIsLocal
<1>6. CASE NoMore(r)
  <2>1. CASE More(r)
    <3>1. phase'[r] = "closing" /\ local'[r].outcome = "cancelled"
      BY <1>5, <1>6, <2>1 DEF NoMore
    <3> QED
      BY <1>2, <3>1, PhasesOfRuns DEF RowOf, ProgressOf
  <2>2. CASE ~More(r)
    <3>1. phase'[r] = "closing" /\ local'[r].outcome = "completed"
      BY <1>5, <1>6, <2>2 DEF NoMore
    <3>2. \A i \in 1 .. Len(Plan[r]) : Through(r, Plan[r][i])
      <4>1. phase[r] = "between" /\ local[r].at > Len(Plan[r])
        BY <1>1, <1>6, <2>2 DEF NoMore, More
      <4> QED
        BY <1>1, <4>1, PhasesOfRuns DEF ProgressOf
    <3> QED
      BY <1>2, <1>4, <3>1, <3>2, PhasesOfRuns DEF RowOf, ProgressOf
  <2> QED
    BY <2>1, <2>2
<1>7. CASE RunFails(r)
  <2>1. phase'[r] = "closing" /\ local'[r].outcome = "failed"
    BY <1>5, <1>7 DEF RunFails
  <2> QED
    BY <1>2, <2>1, PhasesOfRuns DEF RowOf, ProgressOf
<1>8. CASE Unload(r)
  <2>1. phase[r] = "measuring" /\ local[r].at <= Len(Plan[r])
    BY <1>8 DEF Unload, ProgressOf
  <2>2. CASE local[r].todo = {}
    <3>1. /\ phase'[r] = "between" /\ local'[r].at = local[r].at + 1
          /\ local'[r].covers = local[r].covers
      <4>1. phase'[r] = "between" /\ local'[r] = [local[r] EXCEPT !.at = @ + 1]
        BY <1>8, <2>2 DEF Unload, Goes, Keep, TypeOK
      <4> QED
        BY <1>1, <4>1, LocalMoves
    <3>2. Through(r, Candidate(r))
      BY <2>1, <2>2 DEF ProgressOf, Through
    <3>3. \A i \in 1 .. local[r].at - 1 : Through(r, Plan[r][i])
      BY <2>1, <3>2, PhasesOfRuns DEF ProgressOf
    <3>4. \A i \in 1 .. local[r].at : Through(r, Plan[r][i])'
      BY <1>1, <1>4, <3>2, <3>3 DEF Candidate
    <3> QED
      BY <1>1, <1>2, <2>1, <3>1, <3>4, PhasesOfRuns DEF RowOf, ProgressOf
  <2>3. CASE local[r].todo # {}
    <3>1. phase'[r] = "closing" /\ local'[r].outcome = "cancelled"
      BY <1>5, <1>8, <2>3 DEF Unload
    <3> QED
      BY <1>2, <3>1, PhasesOfRuns DEF RowOf, ProgressOf
  <2> QED
    BY <2>2, <2>3
<1> QED
  BY <1>6, <1>7, <1>8

LEMMA CloseKeeps ==
  ASSUME RunsInv, torn \subseteq torn', NEW r \in Runs,
         FinishRun(r) \/ LetGo(r) \/ Release(r)
  PROVE  RowOf(r)' /\ ProgressOf(r)'
<1> USE DEF RunsInv
<1>1. /\ phase[r] \in {"closing", "closed", "restoring"}
      /\ phase'[r] \in {"closed", "restoring", "over"}
      /\ UNCHANGED <<covered, candidate, cell>>
  BY DEF FinishRun, LetGo, Release, Goes, TypeOK, rtables
<1>2. \A m : Through(r, m) => Through(r, m)'
  <2>1. Milder(r)
    BY <1>1 DEF Milder
  <2> QED
    BY <2>1, ThroughKept
<1>3. CASE FinishRun(r)
  <2>1. /\ phase[r] = "closing" /\ local[r].outcome \in {"completed", "cancelled", "failed"}
        /\ status[r] \in {"running", "gone"}
    BY <1>3 DEF FinishRun, RowOf
  <2>2. CASE /\ status' = [status EXCEPT ![r] = IF @ = "gone" THEN @ ELSE local[r].outcome]
             /\ Keep(r, Fresh)
    <3>1. status'[r] \in {"gone", local[r].outcome}
      BY <2>1, <2>2 DEF TypeOK
    <3>2. RowOf(r)'
      BY <1>1, <2>1, <3>1, <1>3, PhasesOfRuns DEF RowOf, FinishRun, Goes, TypeOK
    <3>3. ProgressOf(r)'
      BY <1>1, <1>2, <2>1, <3>1, <1>3, PhasesOfRuns DEF ProgressOf, FinishRun, Goes, TypeOK
    <3> QED
      BY <3>2, <3>3
  <2>3. CASE Keep(r, [Fresh EXCEPT !.outcome = "unknown"]) /\ UNCHANGED status
    <3>1. local'[r].outcome = "unknown"
      BY <2>3, FreshIsLocal DEF Keep, TypeOK
    <3>2. phase'[r] = "closed"
      BY <1>3 DEF FinishRun, Goes, TypeOK
    <3> QED
      BY <2>1, <2>3, <3>1, <3>2, PhasesOfRuns DEF RowOf, ProgressOf
  <2> QED
    BY <1>3, <2>2, <2>3 DEF FinishRun
<1>4. CASE LetGo(r) \/ Release(r)
  <2>1. /\ phase[r] \in {"closed", "restoring"} /\ phase'[r] \in {"restoring", "over"}
        /\ UNCHANGED <<status, local>>
    BY <1>4 DEF LetGo, Release, Goes, TypeOK, rtables
  <2> QED
    BY <1>2, <2>1, PhasesOfRuns DEF RowOf, ProgressOf
<1> QED
  BY <1>3, <1>4

-----------------------------------------------------------------------------
(* The slot passes from one run to the next, and names only who holds it. *)
LEMMA SlotKept ==
  ASSUME RunsInv, [Next]_vars
  PROVE  SlotIsOwn'
<1> USE DEF RunsInv
<1>1. /\ slot \in Runs \cup {NoRun} /\ inFlight \in Runs \cup {NoRun} /\ NoRun \notin Runs
      /\ \A q \in Runs : /\ phase[q] \in Slotted => slot = q
                         /\ inFlight = q <=> phase[q] \in Named
  BY EvalRunnerAssumption DEF TypeOK, SlotIsOwn
<1>2. ASSUME NEW r \in Runs, NEW p, Goes(r, p)
      PROVE  phase'[r] = p /\ \A q \in Runs \ {r} : phase'[q] = phase[q]
  BY <1>2 DEF Goes, TypeOK
<1>3. ASSUME NEW r \in Runs, TakeSlot(r) PROVE SlotIsOwn'
  <2>1. slot = NoRun /\ slot' = r /\ UNCHANGED inFlight /\ Goes(r, "held") /\ phase[r] = "new"
    BY <1>3 DEF TakeSlot
  <2> QED
    BY <1>1, <1>2, <2>1, PhasesOfRuns DEF SlotIsOwn
<1>4. ASSUME NEW r \in Runs, InsertRun(r) PROVE SlotIsOwn'
  <2>1. UNCHANGED <<slot, inFlight>> /\ Goes(r, "inserted") /\ phase[r] = "held"
    BY <1>4 DEF InsertRun, control
  <2> QED
    BY <1>1, <1>2, <2>1, PhasesOfRuns DEF SlotIsOwn
<1>5. ASSUME NEW r \in Runs, Spawn(r) PROVE SlotIsOwn'
  <2>1. /\ UNCHANGED slot /\ inFlight' = r /\ Goes(r, "between") /\ phase[r] = "inserted"
    BY <1>5 DEF Spawn
  <2>2. slot = r
    BY <1>1, <2>1, PhasesOfRuns
  <2> QED
    BY <1>1, <1>2, <2>1, <2>2, PhasesOfRuns DEF SlotIsOwn
<1>6. ASSUME NEW r \in Runs, StartCut(r) PROVE SlotIsOwn'
  <2>1. slot' = NoRun /\ UNCHANGED inFlight /\ Goes(r, "cut") /\ phase[r] \in Starting
    BY <1>6 DEF StartCut
  <2>2. slot = r
    BY <1>1, <2>1, PhasesOfRuns
  <2> QED
    BY <1>1, <1>2, <2>1, <2>2, PhasesOfRuns DEF SlotIsOwn
<1>7. ASSUME NEW r \in Runs, Load(r) \/ NoMore(r) \/ RunFails(r) \/ Unload(r) PROVE SlotIsOwn'
  <2>1. /\ UNCHANGED <<slot, inFlight>> /\ phase[r] \in Executing
        /\ \/ Goes(r, "measuring") \/ Goes(r, "between") \/ Goes(r, "closing")
           \/ UNCHANGED phase
    BY <1>7, PhasesOfRuns DEF Load, NoMore, RunFails, Unload, Ends, Measuring, control
  <2> QED
    BY <1>1, <1>2, <2>1, PhasesOfRuns DEF SlotIsOwn
<1>8. ASSUME NEW r \in Runs, FinishRun(r) PROVE SlotIsOwn'
  <2>1. UNCHANGED <<slot, inFlight>> /\ phase[r] = "closing" /\ Goes(r, "closed")
    BY <1>8 DEF FinishRun, control
  <2> QED
    BY <1>1, <1>2, <2>1, PhasesOfRuns DEF SlotIsOwn
<1>9. ASSUME NEW r \in Runs, LetGo(r) PROVE SlotIsOwn'
  <2>1. UNCHANGED slot /\ inFlight' = NoRun /\ phase[r] = "closed" /\ Goes(r, "restoring")
    BY <1>9 DEF LetGo
  <2> QED
    BY <1>1, <1>2, <2>1, PhasesOfRuns DEF SlotIsOwn
<1>10. ASSUME NEW r \in Runs, Release(r) PROVE SlotIsOwn'
  <2>1. UNCHANGED inFlight /\ slot' = NoRun /\ phase[r] = "restoring" /\ Goes(r, "over")
    BY <1>10 DEF Release
  <2>2. slot = r
    BY <1>1, <2>1, PhasesOfRuns
  <2> QED
    BY <1>1, <1>2, <2>1, <2>2, PhasesOfRuns DEF SlotIsOwn
<1>11. CASE Restart
  <2>1. /\ slot' = NoRun /\ inFlight' = NoRun
        /\ \A q \in Runs : phase'[q] \in {"new", "over", "cut"}
    BY <1>11 DEF Restart
  <2> QED
    BY <1>1, <2>1, PhasesOfRuns DEF SlotIsOwn
<1>12. CASE UNCHANGED <<slot, inFlight, phase>>
  BY <1>12 DEF SlotIsOwn
<1>13. ASSUME NEW r \in Runs,
              Measure(r) \/ Cancel(r) \/ DeleteRun(r) \/ \E m \in Models : Restore(r, m)
       PROVE  UNCHANGED <<slot, inFlight, phase>>
  BY <1>13 DEF Measure, Cancel, DeleteRun, Restore, control, task
<1>14. ASSUME NEW w \in Requesters, DeleteSample(w) PROVE UNCHANGED <<slot, inFlight, phase>>
  BY <1>14 DEF DeleteSample, control, task
<1>15. UNCHANGED rvars \/ UNCHANGED vars => UNCHANGED <<slot, inFlight, phase>>
  BY DEF vars, rvars, control, task
<1> QED
  BY <1>3, <1>4, <1>5, <1>6, <1>7, <1>8, <1>9, <1>10, <1>11, <1>12, <1>13, <1>14, <1>15
     DEF Next, StartStep, TaskStep

LEMMA RestartKeepsRuns ==
  ASSUME RunsInv, Restart, torn \subseteq torn', NEW r \in Runs
  PROVE  RowOf(r)' /\ ProgressOf(r)'
<1> USE DEF RunsInv
<1>1. /\ phase[r] \in {"new", "over"} => phase'[r] = phase[r]
      /\ phase'[r] \in {"new", "over", "cut"}
      /\ phase'[r] = "new" => phase[r] = "new"
      /\ phase'[r] = "over" => phase[r] = "over"
      /\ status'[r] = status[r] \/ (status[r] = "running" /\ status'[r] = "failed")
      /\ phase[r] = "over" => local'[r] = local[r]
      /\ UNCHANGED <<covered, candidate>>
  BY DEF Restart
<1>2. Milder(r)
  <2>1. PICK C \in {{}} \cup {{request[w].clip} : w \in {v \in Requesters : At(v, "delete", "half")}} :
          cell'[r] = {k \in cell[r] : k.clip \notin C}
    BY DEF Restart
  <2>2. C \subseteq torn'
    BY <2>1 DEF Restart, CutShort
  <2> QED
    BY <1>1, <2>1, <2>2 DEF Milder
<1>3. \A m : Through(r, m) => Through(r, m)'
  BY <1>2, ThroughKept
<1>4. phase'[r] \notin {"inserted", "closing", "held"} \cup Starting \cup Executing
  BY <1>1, PhasesOfRuns
<1>5. status'[r] \in {"running", "completed"} => status'[r] = status[r]
  BY <1>1
<1>6. RowOf(r)'
  <2>1. phase'[r] = "new" => status'[r] = "none"
    BY <1>1, PhasesOfRuns DEF RowOf
  <2>2. status'[r] = "running" => phase'[r] = "cut" \/ local'[r].outcome = "unknown"
    BY <1>1, <1>5, PhasesOfRuns DEF RowOf
  <2> QED
    BY <1>4, <2>1, <2>2, PhasesOfRuns DEF RowOf
<1>7. ProgressOf(r)'
  BY <1>1, <1>3, <1>4, <1>5, PhasesOfRuns DEF ProgressOf
<1> QED
  BY <1>6, <1>7

LEMMA DeleteRunKeeps ==
  ASSUME RunsInv, torn \subseteq torn', NEW r \in Runs, DeleteRun(r)
  PROVE  RowOf(r)' /\ ProgressOf(r)'
<1> USE DEF RunsInv
<1>1. /\ phase' = phase /\ local' = local /\ status[r] # "none" /\ status'[r] = "gone"
      /\ covered'[r] = {}
  BY DEF DeleteRun, TypeOK, task
<1>2. Milder(r)
  BY <1>1 DEF Milder
<1> QED
  BY <1>1, <1>2, RunKept

LEMMA DeleteSampleKeeps ==
  ASSUME RunsInv, torn \subseteq torn', NEW w \in Requesters, DeleteSample(w), NEW r \in Runs
  PROVE  RowOf(r)' /\ ProgressOf(r)'
<1> USE DEF RunsInv
<1>1. /\ phase' = phase /\ local' = local /\ status' = status /\ candidate' = candidate
      /\ cell'[r] = {k \in cell[r] : k.clip # request[w].clip}
      /\ covered'[r] = covered[r] \ {request[w].clip}
  BY DEF DeleteSample, task
<1>2. Milder(r)
  BY <1>1 DEF Milder
<1> QED
  BY <1>1, <1>2, RunKept

LEMMA RunsKeep ==
  ASSUME RunsInv, [Next]_vars
  PROVE  RunsInv'
<1> USE DEF RunsInv
<1>1. SamplesInv' /\ torn \subseteq torn' /\ SlotIsOwn'
  BY NextIsSamplesStep, SamplesKeep, TornGrows, SlotKept
<1>2. CASE UNCHANGED rvars
  <2>1. TypeOK'
    BY <1>1, <1>2 DEF TypeOK, rvars, rtables, control, task, SamplesInv
  <2>2. \A r \in Runs : RowOf(r)' /\ ProgressOf(r)'
    BY <1>1, <1>2, OtherRunsKept DEF rvars, rtables, task
  <2> QED
    BY <1>1, <2>1, <2>2
<1>3. CASE Next /\ ~UNCHANGED rvars
  <2>1. TypeOK'
    BY <1>3, RunsTyped
  <2>2. ASSUME NEW r \in Runs, RowOf(r)' /\ ProgressOf(r)',
               \A q \in Runs \ {r} :
                 /\ phase'[q] = phase[q] /\ local'[q] = local[q] /\ status'[q] = status[q]
                 /\ covered'[q] = covered[q] /\ cell'[q] = cell[q]
                 /\ candidate'[q] = candidate[q]
        PROVE  \A q \in Runs : RowOf(q)' /\ ProgressOf(q)'
    BY <1>1, <2>2, OtherRunsKept
  <2>3. ASSUME NEW r \in Runs, TakeSlot(r) \/ StartStep(r)
        PROVE  \A q \in Runs : RowOf(q)' /\ ProgressOf(q)'
    <3>1. RowOf(r)' /\ ProgressOf(r)'
      BY <1>1, <2>3, StartKeeps
    <3>2. \A q \in Runs \ {r} :
            /\ phase'[q] = phase[q] /\ local'[q] = local[q] /\ status'[q] = status[q]
            /\ covered'[q] = covered[q] /\ cell'[q] = cell[q] /\ candidate'[q] = candidate[q]
      BY <2>3 DEF TakeSlot, StartStep, InsertRun, Spawn, StartCut, Goes, Keep, TypeOK, rtables
    <3> QED
      BY <3>1, <3>2, <2>2
  <2>4. ASSUME NEW r \in Runs, Load(r) \/ Measure(r)
        PROVE  \A q \in Runs : RowOf(q)' /\ ProgressOf(q)'
    <3>1. RowOf(r)' /\ ProgressOf(r)'
      BY <1>1, <2>4, LoadKeeps, MeasureKeeps
    <3>2. \A q \in Runs \ {r} :
            /\ phase'[q] = phase[q] /\ local'[q] = local[q] /\ status'[q] = status[q]
            /\ covered'[q] = covered[q] /\ cell'[q] = cell[q] /\ candidate'[q] = candidate[q]
      BY <2>4 DEF Load, Measure, Upsert, Goes, Keep, TypeOK, rtables
    <3> QED
      BY <3>1, <3>2, <2>2
  <2>5. ASSUME NEW r \in Runs,
               \/ NoMore(r) \/ RunFails(r) \/ Unload(r)
               \/ FinishRun(r) \/ LetGo(r) \/ Release(r)
        PROVE  \A q \in Runs : RowOf(q)' /\ ProgressOf(q)'
    <3>1. RowOf(r)' /\ ProgressOf(r)'
      BY <1>1, <2>5, EndKeeps, CloseKeeps
    <3>2. \A q \in Runs \ {r} :
            /\ phase'[q] = phase[q] /\ local'[q] = local[q] /\ status'[q] = status[q]
            /\ covered'[q] = covered[q] /\ cell'[q] = cell[q] /\ candidate'[q] = candidate[q]
      BY <2>5 DEF NoMore, RunFails, Unload, FinishRun, LetGo, Release, Ends, Goes, Keep,
                  TypeOK, rtables
    <3> QED
      BY <3>1, <3>2, <2>2
  <2>6. ASSUME NEW r \in Runs, Cancel(r) \/ \E m \in Models : Restore(r, m)
        PROVE  \A q \in Runs : RowOf(q)' /\ ProgressOf(q)'
    <3>1. UNCHANGED <<phase, local, status, covered, cell, candidate>>
      BY <2>6 DEF Cancel, Restore, task, rtables
    <3> QED
      BY <1>1, <3>1, OtherRunsKept
  <2>7. ASSUME NEW r \in Runs, DeleteRun(r)
        PROVE  \A q \in Runs : RowOf(q)' /\ ProgressOf(q)'
    <3>1. RowOf(r)' /\ ProgressOf(r)'
      BY <1>1, <2>7, DeleteRunKeeps
    <3>2. \A q \in Runs \ {r} :
            /\ phase'[q] = phase[q] /\ local'[q] = local[q] /\ status'[q] = status[q]
            /\ covered'[q] = covered[q] /\ cell'[q] = cell[q] /\ candidate'[q] = candidate[q]
      BY <2>7 DEF DeleteRun, TypeOK, task
    <3> QED
      BY <3>1, <3>2, <2>2
  <2>8. ASSUME NEW w \in Requesters, DeleteSample(w)
        PROVE  \A q \in Runs : RowOf(q)' /\ ProgressOf(q)'
    BY <1>1, <2>8, DeleteSampleKeeps
  <2>9. Restart => \A q \in Runs : RowOf(q)' /\ ProgressOf(q)'
    BY <1>1, RestartKeepsRuns
  <2>10. \A q \in Runs : RowOf(q)' /\ ProgressOf(q)'
    BY <1>3, <2>3, <2>4, <2>5, <2>6, <2>7, <2>8, <2>9 DEF Next, TaskStep
  <2> QED
    BY <1>1, <2>1, <2>10
<1>4. CASE UNCHANGED vars
  BY <1>2, <1>4 DEF vars
<1> QED
  BY <1>2, <1>3, <1>4

LEMMA InitRuns == Init => RunsInv
<1> SUFFICES ASSUME Init PROVE RunsInv
  OBVIOUS
<1>1. SamplesInv
  BY InitSamples
<1>2. TypeOK
  BY <1>1, FreshIsLocal DEF Init, TypeOK, SamplesInv, Locals
<1>3. SlotIsOwn
  BY EvalRunnerAssumption, PhasesOfRuns DEF Init, SlotIsOwn
<1>4. \A r \in Runs : phase[r] = "new" /\ status[r] = "none"
  BY DEF Init
<1>5. \A r \in Runs : RowOf(r) /\ ProgressOf(r)
  BY <1>4, PhasesOfRuns DEF RowOf, ProgressOf
<1> QED
  BY <1>1, <1>2, <1>3, <1>5 DEF RunsInv

THEOREM RunsInvariant == Spec => []RunsInv
  BY InitRuns, RunsKeep, PTL DEF Spec

(* Every variable of the runs and of the samples keeps its shape. *)
THEOREM EvaluationTypeCorrect == Spec => []TypeOK
<1>1. RunsInv => TypeOK
  BY DEF RunsInv
<1> QED
  BY <1>1, RunsInvariant, PTL

(* runner.rs:83-86: the run that is named can be stopped, the one that executes
   is named, and what a row says of a run that is over is not that it runs. *)
THEOREM RunsAreLive == Spec => []RunningIsLive
<1>1. RunsInv => RunningIsLive
  <2> SUFFICES ASSUME RunsInv, NEW r \in Runs
               PROVE  /\ phase[r] \in Executing => inFlight = r
                      /\ inFlight = r => slot = r
                      /\ status[r] = "running" =>
                           \/ phase[r] \in Starting \cup Executing \cup {"closing"}
                           \/ phase[r] = "cut" \/ local[r].outcome = "unknown"
    BY DEF RunningIsLive
  <2> QED
    BY PhasesOfRuns DEF RunsInv, SlotIsOwn, RowOf
<1> QED
  BY <1>1, RunsInvariant, PTL

(* runner.rs:240-258: a run that completed has a failed load or a result for
   every candidate and every sample it covers, through all deletes. *)
THEOREM RunsAreWhole == Spec => []CompletedIsWhole
<1>1. RunsInv => CompletedIsWhole
  BY DEF RunsInv, ProgressOf, Through, HasCell, CompletedIsWhole
<1> QED
  BY <1>1, RunsInvariant, PTL

-----------------------------------------------------------------------------
(* What the two screens count: a run's tables list every model once, and a
   result only of a model that is listed, until the run is deleted. *)
Listed(r, m) == \E k \in candidate[r] : k.model = m
TablesOf(r) ==
  /\ IsFiniteSet(candidate[r]) /\ IsFiniteSet(cell[r])
  /\ \A k, l \in candidate[r] : k.model = l.model => k = l
  /\ status[r] # "gone" =>
       /\ phase[r] = "measuring" => Listed(r, Candidate(r))
       /\ \A k \in cell[r] : Listed(r, k.model)

ReportInv == RunsInv /\ \A r \in Runs : TablesOf(r)

LEMMA TablesKept ==
  ASSUME NEW r \in Runs, TablesOf(r), status[r] = "gone" => status'[r] = "gone",
         candidate'[r] = candidate[r], cell'[r] \in SUBSET cell[r],
         phase'[r] = "measuring" => phase[r] = "measuring" /\ local'[r].at = local[r].at
  PROVE  TablesOf(r)'
<1>1. IsFiniteSet(cell'[r])
  BY FS_Subset DEF TablesOf
<1>2. /\ IsFiniteSet(candidate'[r])
      /\ \A k, l \in candidate'[r] : k.model = l.model => k = l
  BY DEF TablesOf
<1>3. \A m : Listed(r, m)' <=> Listed(r, m)
  BY DEF Listed
<1>4. ASSUME status'[r] # "gone", phase'[r] = "measuring" PROVE Listed(r, Candidate(r))'
  BY <1>4 DEF TablesOf, Candidate, Listed
<1>5. ASSUME status'[r] # "gone", NEW k \in cell'[r] PROVE Listed(r, k.model)'
  BY <1>3, <1>5 DEF TablesOf
<1> QED
  BY <1>1, <1>2, <1>4, <1>5 DEF TablesOf

(* What is asked for is listed, instead of what was listed of it before. *)
LEMMA LoadKeepsTables ==
  ASSUME RunsInv, NEW r \in Runs, TablesOf(r), Load(r)
  PROVE  TablesOf(r)'
<1>1. TypeOK
  BY DEF RunsInv
<1>2. PICK failed \in BOOLEAN : Upsert(r, failed)
  BY DEF Load
<1> DEFINE mine == [model |-> Candidate(r), failed |-> failed]
           rest == {k \in candidate[r] : k.model # Candidate(r)}
<1>3. candidate'[r] = rest \cup {mine} /\ mine.model = Candidate(r)
  BY <1>1, <1>2 DEF Upsert, TypeOK
<1>4. IsFiniteSet(rest) /\ \A k, l \in rest : k.model = l.model => k = l
  BY FS_Subset DEF TablesOf
<1>5. IsFiniteSet(candidate'[r])
  <2> HIDE DEF mine, rest
  <2>1. IsFiniteSet(rest \cup {mine})
    BY <1>4, FS_AddElement
  <2> QED
    BY <1>3, <2>1
<1>6. \A k, l \in candidate'[r] : k.model = l.model => k = l
  BY <1>3, <1>4
<1>7. \A m : Listed(r, m) \/ m = Candidate(r) => Listed(r, m)'
  BY <1>3 DEF Listed
<1>8. cell'[r] = cell[r] /\ status'[r] = status[r]
  BY DEF Load
<1>9. phase'[r] = "measuring" => local'[r].at = local[r].at
  <2>1. ASSUME phase'[r] = "measuring" PROVE Keep(r, [local[r] EXCEPT !.todo = local[r].covers])
    BY <1>1, <2>1 DEF Load, TypeOK
  <2> QED
    BY <1>1, <2>1 DEF Keep, TypeOK
<1>10. ASSUME phase'[r] = "measuring" PROVE Listed(r, Candidate(r))'
  BY <1>3, <1>9, <1>10 DEF Listed, Candidate
<1>11. ASSUME status'[r] # "gone", NEW k \in cell'[r] PROVE Listed(r, k.model)'
  BY <1>7, <1>8, <1>11 DEF TablesOf
<1> QED
  BY <1>5, <1>6, <1>8, <1>10, <1>11 DEF TablesOf

LEMMA MeasureKeepsTables ==
  ASSUME RunsInv, NEW r \in Runs, TablesOf(r), Measure(r)
  PROVE  TablesOf(r)'
<1>1. TypeOK
  BY DEF RunsInv
<1> DEFINE k == [model |-> Candidate(r), clip |-> Due(r),
                 text |-> IF Due(r) \in audio THEN Output[Candidate(r)][Due(r)] ELSE Error]
<1>2. cell'[r] = cell[r] \cup {k} /\ k.model = Candidate(r)
  BY <1>1 DEF Measure, TypeOK
<1> HIDE DEF k
<1>3. UNCHANGED <<status, candidate, phase>> /\ phase[r] = "measuring"
  BY DEF Measure, Measuring
<1>4. local'[r].at = local[r].at
  BY <1>1 DEF Measure, Keep, TypeOK
<1>5. IsFiniteSet(cell'[r])
  BY <1>2, FS_AddElement DEF TablesOf
<1>6. \A m : Listed(r, m)' <=> Listed(r, m)
  BY <1>3 DEF Listed
<1>7. status[r] # "gone" => Listed(r, Candidate(r))
  BY <1>3 DEF TablesOf
<1>8. status'[r] # "gone" => Listed(r, Candidate(r))'
  BY <1>3, <1>4, <1>7 DEF Listed, Candidate
<1>9. ASSUME status'[r] # "gone", NEW l \in cell'[r] PROVE Listed(r, l.model)'
  BY <1>2, <1>3, <1>6, <1>7, <1>9 DEF TablesOf
<1>10. /\ IsFiniteSet(candidate'[r])
       /\ \A j, l \in candidate'[r] : j.model = l.model => j = l
  BY <1>3 DEF TablesOf
<1> QED
  BY <1>5, <1>8, <1>9, <1>10 DEF TablesOf

LEMMA TablesKeep == ReportInv /\ [Next]_vars => ReportInv'
<1> SUFFICES ASSUME ReportInv, [Next]_vars, NEW q \in Runs PROVE TablesOf(q)'
  BY RunsKeep DEF ReportInv
<1> USE DEF ReportInv
<1>1. RunsInv /\ TypeOK /\ TablesOf(q) /\ RowOf(q)
  BY DEF RunsInv
<1>2. CASE UNCHANGED rvars
  BY <1>1, <1>2, TablesKept DEF rvars, rtables, task
<1>3. ASSUME NEW r \in Runs, Load(r) \/ Measure(r) PROVE TablesOf(q)'
  <2>1. CASE r = q
    BY <1>1, <1>3, <2>1, LoadKeepsTables, MeasureKeepsTables
  <2>2. CASE r # q
    <3>1. /\ candidate'[q] = candidate[q] /\ cell'[q] = cell[q] /\ status'[q] = status[q]
          /\ phase'[q] = phase[q] /\ local'[q] = local[q]
      BY <1>1, <1>3, <2>2 DEF Load, Measure, Upsert, Goes, Keep, TypeOK
    <3> QED
      BY <1>1, <3>1, TablesKept
  <2> QED
    BY <2>1, <2>2
<1>4. ASSUME NEW r \in Runs, TakeSlot(r) \/ StartStep(r) PROVE TablesOf(q)'
  <2>1. UNCHANGED <<candidate, cell>>
    BY <1>4 DEF TakeSlot, StartStep, InsertRun, Spawn, StartCut, rtables
  <2>2. status[q] = "gone" => status'[q] = "gone"
    BY <1>1, <1>4, PhasesOfRuns DEF TakeSlot, StartStep, InsertRun, Spawn, StartCut, rtables, RowOf, TypeOK
  <2>3. phase'[q] = "measuring" => phase[q] = "measuring" /\ local'[q] = local[q]
    BY <1>1, <1>4, PhasesOfRuns DEF TakeSlot, StartStep, InsertRun, Spawn, StartCut, Goes, Keep, TypeOK
  <2> QED
    BY <1>1, <2>1, <2>2, <2>3, TablesKept
<1>5. ASSUME NEW r \in Runs, NoMore(r) \/ RunFails(r) \/ Unload(r) \/ FinishRun(r) \/ LetGo(r) \/ Release(r)
      PROVE  TablesOf(q)'
  <2>1. UNCHANGED <<candidate, cell>>
    BY <1>5 DEF NoMore, RunFails, Unload, FinishRun, LetGo, Release, rtables
  <2>2. status[q] = "gone" => status'[q] = "gone"
    BY <1>1, <1>5 DEF NoMore, RunFails, Unload, FinishRun, LetGo, Release, rtables, TypeOK
  <2>3. phase'[q] = "measuring" => phase[q] = "measuring" /\ local'[q] = local[q]
    BY <1>1, <1>5, PhasesOfRuns DEF NoMore, RunFails, Unload, FinishRun, LetGo, Release, Ends, Goes, Keep, TypeOK
  <2> QED
    BY <1>1, <2>1, <2>2, <2>3, TablesKept
<1>6. ASSUME NEW r \in Runs, Cancel(r) \/ \E m \in Models : Restore(r, m) PROVE TablesOf(q)'
  BY <1>1, <1>6, TablesKept DEF Cancel, Restore, task, rtables
<1>7. ASSUME NEW r \in Runs, DeleteRun(r) PROVE TablesOf(q)'
  <2>1. CASE r = q
    <3>1. status'[q] = "gone" /\ cell'[q] = {} /\ candidate'[q] = {}
      BY <1>1, <1>7, <2>1 DEF DeleteRun, TypeOK
    <3> QED
      BY <3>1, FS_EmptySet DEF TablesOf
  <2>2. CASE r # q
    BY <1>1, <1>7, <2>2, TablesKept DEF DeleteRun, task, TypeOK
  <2> QED
    BY <2>1, <2>2
<1>8. ASSUME NEW w \in Requesters, DeleteSample(w) PROVE TablesOf(q)'
  BY <1>1, <1>8, TablesKept DEF DeleteSample, task
<1>9. ASSUME Restart PROVE TablesOf(q)'
  <2>1. /\ candidate'[q] = candidate[q] /\ cell'[q] \subseteq cell[q]
        /\ status[q] = "gone" => status'[q] = "gone"
        /\ phase'[q] # "measuring"
    BY <1>9 DEF Restart
  <2> QED
    BY <1>1, <2>1, TablesKept
<1> QED
  BY <1>2, <1>3, <1>4, <1>5, <1>6, <1>7, <1>8, <1>9 DEF Next, TaskStep, vars


(* The three numbers, each by what it counts *)
Counts(i, k) == /\ k.text # Error
                /\ i >= 2 => Verdict(k)
                /\ i = 3 => RulingOn(k) = {}
Counted(i, K) == {k \in K : Counts(i, k)}

LEMMA CountIs ==
  ASSUME NEW K, NEW i \in 1 .. 3
  PROVE  Count(K)[i] = Cardinality(Counted(i, K))
<1> DEFINE scored == {k \in K : k.text # Error}
           right == {k \in scored : Verdict(k)}
           agreed == {k \in right : RulingOn(k) = {}}
<1>1. Count(K) = <<Cardinality(scored), Cardinality(right), Cardinality(agreed)>>
  BY DEF Count
<1>2. Counted(1, K) = scored /\ Counted(2, K) = right /\ Counted(3, K) = agreed
  BY DEF Counted, Counts
<1> HIDE DEF scored, right, agreed
<1>3. /\ Count(K)[1] = Cardinality(scored) /\ Count(K)[2] = Cardinality(right)
      /\ Count(K)[3] = Cardinality(agreed)
  BY <1>1
<1>4. i = 1 \/ i = 2 \/ i = 3
  OBVIOUS
<1> QED
  BY <1>2, <1>3, <1>4

(* store.rs:754-757: summed up by candidate, the results are the results. *)
LEMMA SummaryCountsAll ==
  ASSUME NEW r \in Runs, NEW i \in 1 .. 3, IsFiniteSet(candidate[r]),
         \A k, l \in candidate[r] : k.model = l.model => k = l,
         IsFiniteSet(ListResults(r)), \A k \in ListResults(r) : Listed(r, k.model)
  PROVE  Summarised(r, i) = Count(ListResults(r))[i]
<1> DEFINE S == candidate[r]
           K == ListResults(r)
           of == [k \in S |-> ModelSummary(r, k.model)[i]]
           part == [k \in S |-> Counted(i, {c \in K : c.model = k.model})]
           sum == CHOOSE f : f = [s \in SUBSET S |->
                    IF s = {} THEN 0
                    ELSE ModelSummary(r, (CHOOSE x \in s : TRUE).model)[i] + f[s \ {CHOOSE x \in s : TRUE}]]
<1>1. Summarised(r, i) = sum[S]
  BY DEF Summarised, MapThenSumSet, MapThenFoldSet
<1>2. \A k \in S : ModelSummary(r, k.model)[i] = Cardinality(part[k])
  BY CountIs DEF ModelSummary
<1>3. sum = [s \in SUBSET S |->
               IF s = {} THEN 0
               ELSE ModelSummary(r, (CHOOSE x \in s : TRUE).model)[i] + sum[s \ {CHOOSE x \in s : TRUE}]]
  <2>0. \E f : f = [s \in SUBSET S |-> Adds(of, s, f)]
    <3>1. IsFiniteSet(S)
      OBVIOUS
    <3> HIDE DEF S, of, sum, K, part
    <3> QED
      BY ONLY <3>1, SumExists
  <2>1. PICK f : f = [s \in SUBSET S |-> Adds(of, s, f)]
    BY ONLY <2>0
  <2>2. \A s \in SUBSET S : Adds(of, s, f) =
          IF s = {} THEN 0
          ELSE ModelSummary(r, (CHOOSE x \in s : TRUE).model)[i] + f[s \ {CHOOSE x \in s : TRUE}]
    <3> SUFFICES ASSUME NEW s \in SUBSET S
                 PROVE  Adds(of, s, f) =
                          IF s = {} THEN 0
                          ELSE ModelSummary(r, Least(s).model)[i] + f[s \ {Least(s)}]
      BY DEF Least
    <3>1. s # {} => Least(s) \in S
      BY DEF Least
    <3>2. s # {} => of[Least(s)] = ModelSummary(r, Least(s).model)[i]
      BY <3>1
    <3>3. Adds(of, s, f) = IF s = {} THEN 0 ELSE of[Least(s)] + f[s \ {Least(s)}]
      BY DEF Adds, Rest
    <3> HIDE DEF of
    <3> QED
      BY <3>2, <3>3
  <2>3. f = [s \in SUBSET S |->
               IF s = {} THEN 0
               ELSE ModelSummary(r, (CHOOSE x \in s : TRUE).model)[i] + f[s \ {CHOOSE x \in s : TRUE}]]
    <3> HIDE DEF of
    <3>1. [s \in SUBSET S |-> Adds(of, s, f)] =
            [s \in SUBSET S |->
               IF s = {} THEN 0
               ELSE ModelSummary(r, (CHOOSE x \in s : TRUE).model)[i] + f[s \ {CHOOSE x \in s : TRUE}]]
      BY <2>2
    <3> QED
      BY <2>1, <3>1
  <2> QED
    BY <2>3
<1>4. AddsSizes(sum, part, S)
  <2> SUFFICES ASSUME NEW s \in SUBSET S
               PROVE  sum[s] = IF s = {} THEN 0 ELSE Cardinality(part[Least(s)]) + sum[Rest(s)]
    BY DEF AddsSizes
  <2> HIDE DEF sum, part
  <2>1. s # {} => Least(s) \in S
    BY DEF Least
  <2>2. sum[s] = IF s = {} THEN 0
                 ELSE ModelSummary(r, Least(s).model)[i] + sum[Rest(s)]
    BY <1>3 DEF Least, Rest
  <2> QED
    BY <1>2, <2>1, <2>2
<1>5. \A k \in S : IsFiniteSet(part[k])
  BY FS_Subset DEF Counted
<1>6. \A k, l \in S : k # l => part[k] \cap part[l] = {}
  BY DEF Counted
<1>7. All(part, S) = Counted(i, K)
  <2>1. \A c \in Counted(i, K) : \E k \in S : c \in part[k]
    BY DEF Counted, Listed
  <2>2. \A k \in S : part[k] \subseteq Counted(i, K)
    BY DEF Counted
  <2> HIDE DEF S, K, part
  <2> QED
    BY <2>1, <2>2 DEF All
<1>0. IsFiniteSet(S)
  OBVIOUS
<1> HIDE DEF S, K, part, sum
<1>8. sum[S] = Cardinality(All(part, S))
  BY <1>0, <1>4, <1>5, <1>6, PartsAddUp
<1>9. Count(K)[i] = Cardinality(Counted(i, K))
  BY CountIs
<1> QED
  BY <1>1, <1>7, <1>8, <1>9 DEF K

(* The list of runs and the overview agree on every run with a row, as long as
   a query returns all of its results (store.rs:754-757). *)
LEMMA ListsAgree == ReportInv => ListAgreesWithOverview
<1> SUFFICES ASSUME ReportInv, NEW r \in Runs, status[r] \notin {"none", "gone"},
                    Cardinality(Joined(r)) <= Limit, NEW i \in 1 .. 3
             PROVE  RunAggregate(r)[i] = Summarised(r, i)
  BY DEF ListAgreesWithOverview
<1>1. TablesOf(r)
  BY DEF ReportInv
<1>2. ListResults(r) = Joined(r)
  BY DEF ListResults
<1>3. IsFiniteSet(Joined(r)) /\ \A k \in Joined(r) : Listed(r, k.model)
  BY <1>1, FS_Subset DEF TablesOf, Joined
<1>4. Summarised(r, i) = Count(ListResults(r))[i]
  BY <1>1, <1>2, <1>3, SummaryCountsAll DEF TablesOf
<1> QED
  BY <1>2, <1>4 DEF RunAggregate

LEMMA InitReport == Init => ReportInv
<1> SUFFICES ASSUME Init, NEW r \in Runs PROVE TablesOf(r)
  BY InitRuns DEF ReportInv
<1>1. candidate[r] = {} /\ cell[r] = {} /\ phase[r] = "new"
  BY DEF Init
<1> QED
  BY <1>1, FS_EmptySet DEF TablesOf

(* With what the run slot and the rows say, the screens show of a run what
   became of it (runner.rs:83-86, 240-258; store.rs:754-757). *)
THEOREM RunsShowWhatTheyAre == Spec => []RunsAreWhatTheyShow
<1>1. Spec => []ReportInv
  BY InitReport, TablesKeep, PTL DEF Spec
<1>2. ReportInv => ListAgreesWithOverview
  BY ListsAgree
<1>3. TypeOK /\ RunningIsLive /\ CompletedIsWhole /\ ListAgreesWithOverview => RunsAreWhatTheyShow
  BY DEF RunsAreWhatTheyShow
<1> QED
  BY <1>1, <1>2, <1>3, EvaluationTypeCorrect, RunsAreLive, RunsAreWhole, PTL
=============================================================================
