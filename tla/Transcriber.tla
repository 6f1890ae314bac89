----------------------------- MODULE Transcriber -----------------------------
(***************************************************************************)
(* transcriber.rs and the handlers around it (api/stream.rs, the sync one  *)
(* of api/transcribe.rs), on top of the pool of the model they ask for.    *)
(* Each client has one request at a time: a batch transcription, or a      *)
(* stream session that is opened, fed, and finalized, aborted or dropped.  *)
(* An engine call runs on a thread of its own with the PoolGuard in hand;  *)
(* it cannot be stopped, so a request that runs out of time ends without   *)
(* its thread, and the guard comes back when the thread does.              *)
(***************************************************************************)
EXTENDS ModelPool

CONSTANTS Streamers,   \* clients that open stream sessions
          Batchers,    \* clients that send batches; the rest (evaluation runs) just
                       \* take an instance, use it and give it back
          CapMs,       \* stream_cap_ms of the model
          ChunkSizes   \* how many samples a frame of audio may have

ASSUME TranscriberAssumption ==
  Streamers \subseteq Clients /\ Batchers \subseteq Clients \ Streamers /\ CapMs \in Nat /\ ChunkSizes \subseteq Nat

VARIABLES
  phase,     \* where each client's request stands
  live,      \* engine_streaming: the session streams and does not just buffer
  buffer,    \* samples buffered by the session
  thread,    \* the engine call on a blocking thread: "none", "run" or "panicked"
  outcome,   \* what the request comes to
  rows,      \* the history rows it has written
  stream     \* per instance, the client whose stream the engine has open

session == <<phase, live, buffer, outcome, rows>>
tvars == <<vars, session, thread, stream>>

Nobody == "nobody"

(* A stream's calls: "begin" in open_stream, "feed", "finalize", and the
   "resetting" of fail; a batch has one, "infer".  "failing" and "recording"
   are about to write the history row, and "gone" is a batch whose client hung
   up: its future was dropped and nobody is left to write anything. *)
Calling == {"infer", "begin", "feed", "finalize", "resetting"}
Phases == Calling \cup {"none", "acquire", "open", "failing", "recording", "over", "gone"}

TInit ==
  /\ Init
  /\ phase = [c \in Clients |-> "none"] /\ live = [c \in Clients |-> FALSE]
  /\ buffer = [c \in Clients |-> 0] /\ thread = [c \in Clients |-> "none"]
  /\ outcome = [c \in Clients |-> "pending"] /\ rows = [c \in Clients |-> <<>>]
  /\ stream = [i \in Slots |-> Nobody]

To(c, p) == phase' = [phase EXCEPT ![c] = p]
(* The request is as good as over: what is left is its row, and the guard *)
Ends(c, p, o) ==
  /\ To(c, p) /\ outcome' = [outcome EXCEPT ![c] = o]
  /\ live' = [live EXCEPT ![c] = FALSE] /\ buffer' = [buffer EXCEPT ![c] = 0]
ThreadIs(c, t) == thread' = [thread EXCEPT ![c] = t]
StreamIs(c, s) == stream' = [stream EXCEPT ![held[c]] = s]

(* milliseconds in n samples at 16 kHz, rounded down *)
SampleMs == 16
Ms(n) == n \div SampleMs

(* InputLimit: the cap is on whole milliseconds, of what is buffered and of the chunk *)
OverCap(c, n) == Ms(buffer[c]) + Ms(n) > CapMs

-----------------------------------------------------------------------------
(* A request begins; a model that cannot be resolved is a failure with a row *)
Begins(c) ==
  /\ phase[c] \in {"none", "over", "gone"} /\ pc[c] = "idle"
  /\ rows' = [rows EXCEPT ![c] = <<>>]
  /\ Ends(c, "acquire", "pending") \/ Ends(c, "recording", "error")
  /\ UNCHANGED <<vars, thread, stream>>

BatchBegins(c) == c \in Batchers /\ Begins(c)

(* A socket whose first message is a valid start.  Before that there is no
   session: what the socket is refused for leaves no row. *)
StreamBegins(c) == c \in Streamers /\ Begins(c)

Request(c) == BatchBegins(c) \/ StreamBegins(c)

(* acquire_engine *)
Acquire(c) ==
  /\ phase[c] = "acquire"
  /\ TakePermit(c) \/ JoinQueue(c) \/ Wake(c)
  /\ UNCHANGED <<session, thread, stream>>

(* The pool's timeout or the request's deadline; or, before there is a pool to
   wait for, the load fails *)
AcquireFails(c) ==
  /\ phase[c] = "acquire"
  /\ \/ GiveUpWaiting(c) \/ GiveUpGranted(c)
     \/ pc[c] = "idle" /\ UNCHANGED vars
  /\ Ends(c, "recording", "error")
  /\ UNCHANGED <<rows, thread, stream>>

(* An instance that could not be rebuilt has no capabilities, and a batch may be
   over the model's limit *)
BatchAcquired(c) ==
  /\ phase[c] = "acquire" /\ c \in Batchers
  /\ PopIndex(c)
  /\ \/ /\ engine[Head(free)] # "none"
        /\ To(c, "infer") /\ ThreadIs(c, "run")
        /\ UNCHANGED <<live, buffer, outcome>>
     \/ Ends(c, "recording", "error") /\ UNCHANGED thread
  /\ UNCHANGED <<rows, stream>>

(* open_stream goes without the engine's stream when the model has none *)
StreamAcquired(c) ==
  /\ phase[c] = "acquire" /\ c \in Streamers
  /\ PopIndex(c)
  /\ IF engine[Head(free)] = "none"
     THEN Ends(c, "recording", "error") /\ UNCHANGED thread
     ELSE /\ \/ To(c, "begin") /\ ThreadIs(c, "run")
             \/ To(c, "open") /\ UNCHANGED thread
          /\ UNCHANGED <<live, buffer, outcome>>
  /\ UNCHANGED <<rows, stream>>

Acquired(c) == BatchAcquired(c) \/ StreamAcquired(c)

-----------------------------------------------------------------------------
(* The engine, on the thread.  It may panic; with_engine replaces the instance
   and whatever stream it had.  (run_on_engine's own EnginePanic, for a thread
   that panics, cannot occur: with_engine catches all of them.) *)
CallPanics(c) ==
  /\ thread[c] = "run" /\ EnginePanic(c)
  /\ UNCHANGED <<session, thread, stream>>

CallRebuilds(c) ==
  /\ thread[c] = "run" /\ Rebuild(c)
  /\ ThreadIs(c, "panicked") /\ StreamIs(c, Nobody)
  /\ UNCHANGED <<session>>

(* What else a call can come to: on no instance, or without the stream it needs,
   it fails; any other may fail too *)
CanSucceed(c) ==
  /\ thread[c] = "run" /\ engine[held[c]] = "sound"
  /\ phase[c] \in {"feed", "finalize"} /\ live[c] => stream[held[c]] = c
CallEnds(c, ok) ==
  /\ pc[c] = "holding" /\ thread[c] # "none" /\ (ok => CanSucceed(c))
  /\ ThreadIs(c, "none")

(* transcribe and stream_begin clear away what an earlier session left behind *)
BeginEnds(c) ==
  /\ phase[c] = "begin" /\ To(c, "open")
  /\ \E ok \in BOOLEAN :
       /\ CallEnds(c, ok)
       /\ live' = [live EXCEPT ![c] = ok]
       /\ StreamIs(c, IF ok THEN c ELSE Nobody)
  /\ UNCHANGED <<vars, buffer, outcome, rows>>

(* mutant: the chunk at hand is not counted *)
FeedUncounted(c) ==
  /\ phase[c] = "open"
  /\ \E n \in ChunkSizes :
       IF Ms(buffer[c]) > CapMs
       THEN Ends(c, "failing", "error") /\ UNCHANGED thread
       ELSE /\ buffer' = [buffer EXCEPT ![c] = @ + n]
            /\ IF live[c] THEN To(c, "feed") /\ ThreadIs(c, "run")
                          ELSE UNCHANGED <<phase, thread>>
            /\ UNCHANGED <<live, outcome>>
  /\ UNCHANGED <<vars, rows, stream>>

(* feed: without a stream of the engine's, buffering is all *)
Feed(c) ==
  /\ phase[c] = "open"
  /\ \E n \in ChunkSizes :
       IF OverCap(c, n)
       THEN Ends(c, "failing", "error") /\ UNCHANGED thread
       ELSE /\ buffer' = [buffer EXCEPT ![c] = @ + n]
            /\ IF live[c] THEN To(c, "feed") /\ ThreadIs(c, "run")
                          ELSE UNCHANGED <<phase, thread>>
            /\ UNCHANGED <<live, outcome>>
  /\ UNCHANGED <<vars, rows, stream>>

(* mutant: an error is reported and the session goes on *)
FeedEndsCareless(c) ==
  /\ phase[c] = "feed" /\ To(c, "open")
  /\ \/ CallEnds(c, TRUE) /\ UNCHANGED stream
     \/ CallEnds(c, FALSE) /\ StreamIs(c, Nobody)
  /\ UNCHANGED <<vars, live, buffer, outcome, rows>>

FeedEnds(c) ==
  /\ phase[c] = "feed"
  /\ \/ CallEnds(c, TRUE) /\ To(c, "open") /\ UNCHANGED <<live, buffer, outcome, stream>>
     \/ CallEnds(c, FALSE) /\ Ends(c, "failing", "error") /\ StreamIs(c, Nobody)
  /\ UNCHANGED <<vars, rows>>

(* finalize: of the engine's stream, or a transcription of the whole buffer *)
Finalize(c) ==
  /\ phase[c] = "open"
  /\ To(c, "finalize") /\ ThreadIs(c, "run")
  /\ UNCHANGED <<vars, live, buffer, outcome, rows, stream>>

(* What the last call says is what the request comes to *)
Concludes(c, ok) == Ends(c, "recording", IF ok THEN "ok" ELSE "error")

(* infer and finalize: the guard is dropped, on the thread or by the session,
   before the row is written.  Where the request no longer waits for it, that
   is all there is. *)
LastCallEnds(c) ==
  /\ phase[c] \in {"infer", "finalize", "recording", "over", "gone"}
  /\ ReturnIndex(c)
  /\ \E ok \in BOOLEAN :
       /\ CallEnds(c, ok) /\ StreamIs(c, Nobody)
       /\ IF phase[c] \in {"infer", "finalize"}
          THEN Concludes(c, ok)
          ELSE UNCHANGED <<phase, live, buffer, outcome>>
  /\ UNCHANGED rows

(* mutant: the row of a timeout is written before anyone knows of it *)
TimeoutUnnamed(c) ==
  /\ phase[c] \in {"infer", "finalize"} /\ thread[c] # "none"
  /\ Ends(c, "recording", "pending")
  /\ UNCHANGED <<vars, rows, thread, stream>>

(* The deadline, for inference and finalize: the thread keeps the guard *)
Timeout(c) ==
  /\ phase[c] \in {"infer", "finalize"} /\ thread[c] # "none"
  /\ Ends(c, "recording", "error")
  /\ UNCHANGED <<vars, rows, thread, stream>>

(* abort: the client broke the protocol or went silent for a minute *)
Abort(c) ==
  /\ phase[c] = "open"
  /\ Ends(c, "failing", "error")
  /\ UNCHANGED <<vars, rows, thread, stream>>

(* The socket is closed: Drop for StreamSession leaves the row to a task, and
   the engine's stream to the next user of the instance *)
Disconnect(c) ==
  /\ phase[c] = "open"
  /\ Ends(c, "recording", "disconnected")
  /\ UNCHANGED <<vars, rows, thread, stream>>

(* The connection of a sync request is closed, and its future dropped: in the
   queue, on the thread's result, or on the row that is being written *)
HangUp(c) ==
  /\ c \in Batchers /\ phase[c] \in {"acquire", "infer", "recording"}
  /\ \/ GiveUpWaiting(c) \/ GiveUpGranted(c)
     \/ (pc[c] = "idle" \/ thread[c] # "none") /\ UNCHANGED vars
  /\ Ends(c, "gone", "pending")
  /\ UNCHANGED <<rows, thread, stream>>

-----------------------------------------------------------------------------
Write(c) == rows' = [rows EXCEPT ![c] = Append(@, outcome[c])]

(* mutant: fail writes the row and leaves the session open *)
RecordKeepingOpen(c) ==
  /\ phase[c] \in {"failing", "recording"}
  /\ Write(c)
  /\ To(c, IF phase[c] = "failing" THEN "open" ELSE "over")
  /\ UNCHANGED <<vars, live, buffer, outcome, thread, stream>>

(* on_failure, save_to_history or the task of Drop.  fail goes on to reset the
   engine's stream, on a thread; the others have given the guard up or do now. *)
Record(c) ==
  /\ phase[c] \in {"failing", "recording"}
  /\ Write(c)
  /\ IF phase[c] = "failing" THEN To(c, "resetting") /\ ThreadIs(c, "run")
                             ELSE To(c, "over") /\ UNCHANGED thread
  /\ UNCHANGED <<vars, live, buffer, outcome, stream>>

ResetEnds(c) ==
  /\ phase[c] = "resetting" /\ ReturnIndex(c)
  /\ \E ok \in BOOLEAN : CallEnds(c, ok)
  /\ StreamIs(c, Nobody) /\ To(c, "over")
  /\ UNCHANGED <<live, buffer, outcome, rows>>

(* The guard of a request that made no last call *)
GuardDropped(c) ==
  /\ phase[c] \in {"recording", "over", "gone"} /\ thread[c] = "none"
  /\ ReturnIndex(c)
  /\ UNCHANGED <<session, thread, stream>>

PermitDropped(c) ==
  /\ DropPermit(c)
  /\ UNCHANGED <<session, thread, stream>>

(* The rest of the pool's users; an engine call of theirs that returns leaves no
   stream behind, and neither does one that panics *)
Other(c) == c \notin Streamers \cup Batchers
OtherGetsOn(c) ==
  /\ Other(c)
  /\ \/ Wake(c) \/ PopIndex(c)
     \/ Rebuild(c)
  /\ UNCHANGED <<session, thread, stream>>
OtherGivesBack(c) ==
  /\ Other(c) /\ ReturnIndex(c)
  /\ StreamIs(c, Nobody)
  /\ UNCHANGED <<session, thread>>
OtherMay(c) ==
  /\ Other(c)
  /\ TakePermit(c) \/ JoinQueue(c) \/ GiveUpWaiting(c) \/ GiveUpGranted(c) \/ EnginePanic(c)
  /\ UNCHANGED <<session, thread, stream>>

-----------------------------------------------------------------------------
Work(c) ==
  \/ Acquire(c) \/ Acquired(c) \/ CallRebuilds(c) \/ BeginEnds(c) \/ FeedEnds(c)
  \/ LastCallEnds(c) \/ Record(c) \/ ResetEnds(c) \/ GuardDropped(c) \/ PermitDropped(c)
  \/ OtherGetsOn(c)

TNext == \E c \in Clients :
  \/ Request(c) \/ AcquireFails(c) \/ CallPanics(c) \/ Feed(c) \/ Finalize(c)
  \/ Timeout(c) \/ Abort(c) \/ Disconnect(c) \/ HangUp(c) \/ Work(c)
  \/ OtherMay(c) \/ OtherGivesBack(c)

TSpec == TInit /\ [][TNext]_tvars

(* Tasks and threads run on, and an evaluation run gives back what it took.  No
   deadline is assumed, and nothing makes a client end its stream: the idle timeout
   starts anew with every frame, a Ping too. *)
TFairness ==
  /\ \A c \in Clients : WF_tvars(Work(c))
  /\ \A c \in Clients : Other(c) => SF_tvars(OtherGivesBack(c))
TFairSpec == TSpec /\ TFairness

-----------------------------------------------------------------------------
(* the part of the type invariant that the sessions add *)
SessionShape ==
  /\ phase \in [Clients -> Phases] /\ live \in [Clients -> BOOLEAN]
  /\ buffer \in [Clients -> Nat]
  /\ thread \in [Clients -> {"none", "run", "panicked"}]
  /\ outcome \in [Clients -> {"pending", "ok", "error", "disconnected"}]
  /\ rows \in [Clients -> Seq({"ok", "error", "disconnected"})]
  /\ stream \in [Slots -> Clients \cup {Nobody}]
(* Every variable of the pool and of the sessions keeps its shape. *)
SessionTypeOK == TypeOK /\ SessionShape

(* transcriber.rs:391-395, 661-663: however a request ends, in whatever order
   it was fed, finalized, aborted, timed out or dropped, it leaves exactly one
   row and that row says what it came to; a sync request whose client hung up
   leaves one at most. *)
EveryEndIsRecorded == \A c \in Clients :
  /\ phase[c] = "over" => rows[c] = <<outcome[c]>>
  /\ phase[c] = "gone" => rows[c] = <<>>

(* transcribe_bridge.rs:300-304: the instance a streaming session holds has that
   session's stream open, whoever left what in it before and however calls of
   others fail, panic or outlive their requests. *)
StreamIsOwn == \A c \in Clients :
  /\ phase[c] \in {"open", "feed", "finalize"} /\ live[c]
  /\ thread[c] # "panicked" /\ pc[c] # "rebuilding"
  => stream[held[c]] = c

(* The sessions c keeps open for ever: it never finalizes, breaks the protocol,
   falls silent or hangs up *)
KeptOpen(c) == <>[](phase[c] \in {"open", "feed"})

(* pool.rs:108, the queue is fair: a task that waits for an engine gets one or
   gives up, however often the others ask again and though no timeout ever
   fires.  It is enough that one instance is not held by a session whose client
   keeps it open for ever. *)
WaitersAreServed ==
  \/ \E S \in SUBSET Streamers : Cardinality(S) = Size /\ \A c \in S : KeptOpen(c)
  \/ \A c \in Clients : pc[c] = "waiting" ~> pc[c] # "waiting"

(* transcriber.rs:796-797: rounding each chunk down lets a session exceed the
   cap, but by less than two milliseconds however it slices its audio. *)
BufferBounded == \A c \in Clients : buffer[c] <= SampleMs * CapMs + 2 * (SampleMs - 1)
=============================================================================
