--------------------------- MODULE DownloadManager ---------------------------
(***************************************************************************)
(* model/download_manager.rs and model/download.rs: the queue of model     *)
(* downloads, the tasks that fetch, verify and rename a file, the progress *)
(* board, and cancellation, which tears a download down from outside its   *)
(* task.  One action is the code between two awaits (two of them where the *)
(* first touches only the board and the second only the file).             *)
(*                                                                         *)
(* A file is a number of chunks; its digest is right when the chunks came  *)
(* in order and all of them.  A .part file is an inode: unlinking it leaves *)
(* it to the tasks that have it open.  The server is external: it honours a *)
(* Range header, ignores it, answers 416 to a range past the end, or fails. *)
(***************************************************************************)
EXTENDS Integers, Sequences, SequencesExt, FiniteSets

CONSTANTS Variants,      \* VariantKeys of the catalog
          MaxActive,     \* MAX_CONCURRENT_DOWNLOADS
          MaxDownloads,  \* bound: how many requests are ever made
          Cancellers,    \* concurrent calls of cancel_download
          Chunks,        \* the length of a model file
          MaxRestarts,   \* bound: how often the add-on restarts
          NoFile, NoDownload, NoVariant, NoEntry, Garbled

Downloads == 1 .. MaxDownloads
Inodes == 1 .. (MaxDownloads + Cardinality(Variants))

ASSUME DownloadAssumption ==
  /\ IsFiniteSet(Variants) /\ IsFiniteSet(Cancellers)
  /\ MaxActive \in Nat \ {0} /\ MaxDownloads \in Nat \ {0} /\ Chunks \in Nat \ {0}
  /\ MaxRestarts \in Nat
  /\ NoDownload \notin Downloads /\ NoFile \notin Inodes /\ NoVariant \notin Variants
  /\ NoFile \notin 0 .. Chunks /\ Garbled \notin (0 .. Chunks) \cup {NoFile}

VARIABLES
  pending, active,          \* DownloadQueue
  board,                    \* the ProgressBoard: a DownloadPhase or NoEntry
  variant, token, pc,       \* a request: its Variant, CancelToken, position
  call,                     \* its start(): "starting", "parking" or over
  offset, handle,           \* its task: bytes received, the file it has open
  part, dest, content,      \* directory: .part and model file; inodes
  cpc, ctarget, cvariant,   \* a cancel: position, what it signalled, Variant
  restarts,
  robbed,      \* history: downloads whose slot, entry or .part another one's
               \* task or cancel took away
  abandoned,   \* history: downloads whose API call hung up half way
  crossed      \* history: downloads first shown while the entry of their Variant
               \* was about to be cleared

queue == <<pending, active>>
task == <<variant, token, pc, call, offset, handle>>
files == <<part, dest, content>>
cancels == <<cpc, ctarget, cvariant>>
history == <<restarts, robbed, abandoned, crossed>>
vars == <<queue, board, task, files, cancels, history>>

TaskPhase == {"probe", "request", "stream", "publish", "verify", "hash",
              "commit", "rename", "failed"}
TailPhase == {"tellFailed", "releaseFailed", "tellCompleted", "install", "release"}
Claimed == {"launch", "announce"} \cup TaskPhase \cup TailPhase
Phase == {"unused", "queued", "linger", "clear", "stranded", "done"} \cup Claimed

(* A download that still means to finish, and holds a slot to do so *)
Live(d) == pc[d] \in Claimed /\ token[d] # "cancelled"

Init ==
  /\ pending = <<>> /\ active = [v \in Variants |-> NoDownload]
  /\ board = [v \in Variants |-> NoEntry]
  /\ variant = [d \in Downloads |-> NoVariant]
  /\ token = [d \in Downloads |-> "running"]
  /\ pc = [d \in Downloads |-> "unused"]
  /\ call = [d \in Downloads |-> "over"]
  /\ offset = [d \in Downloads |-> 0]
  /\ handle = [d \in Downloads |-> NoFile]
  /\ part = [v \in Variants |-> NoFile] /\ dest = [v \in Variants |-> NoFile]
  /\ content = [i \in Inodes |-> 0]
  /\ cpc = [c \in Cancellers |-> "idle"]
  /\ ctarget = [c \in Cancellers |-> NoDownload]
  /\ cvariant = [c \in Cancellers |-> NoVariant]
  /\ restarts = 0 /\ robbed = {} /\ abandoned = {} /\ crossed = {}

-----------------------------------------------------------------------------
(* What is taken from v on behalf of d hits the download that has the slot *)
Robs(v, d) == robbed' = robbed \cup ({active[v]} \ {d, NoDownload})

Goto(d, phase) == pc' = [pc EXCEPT ![d] = phase]
Publish(d, phase) == board' = [board EXCEPT ![variant[d]] = phase]
Unboard(v) == board' = [board EXCEPT ![v] = NoEntry]

(* The task ends; its file is closed *)
Ended(d, phase) ==
  /\ Goto(d, phase)
  /\ handle' = [handle EXCEPT ![d] = NoFile] /\ offset' = [offset EXCEPT ![d] = 0]

Occupied == {v \in Variants : active[v] # NoDownload}
Taken(v) == v \in Occupied \/ \E i \in DOMAIN pending : variant[pending[i]] = v

(* mutant: the promoted request stays in the queue *)
FreeSlotPeeking(v, d, after) ==
  LET freed == active[v] # NoDownload
      next  == IF freed /\ pending # <<>> THEN Head(pending) ELSE NoDownload
  IN /\ active' = [w \in Variants |->
                     IF next # NoDownload /\ w = variant[next] THEN next
                     ELSE IF w = v THEN NoDownload ELSE active[w]]
     /\ pending' = pending
     /\ pc' = IF next # NoDownload THEN [after EXCEPT ![next] = "launch"] ELSE after
     /\ Robs(v, d)

(* mutant: the slot is freed and nobody promoted *)
FreeSlotUnpromoted(v, d, after) ==
  /\ active' = [active EXCEPT ![v] = NoDownload]
  /\ pc' = after
  /\ Robs(v, d)
  /\ UNCHANGED pending

(* finish, and phase 3 of cancel: free v's slot, if it is held, and promote the
   next request.  It is done for download d; `after` is where that leaves the
   tasks, but for the promoted one. *)
FreeSlot(v, d, after) ==
  LET freed == active[v] # NoDownload
      next  == IF freed /\ pending # <<>> THEN Head(pending) ELSE NoDownload
  IN /\ active' = [w \in Variants |->
                     IF next # NoDownload /\ w = variant[next] THEN next
                     ELSE IF w = v THEN NoDownload ELSE active[w]]
     /\ pending' = IF next # NoDownload THEN Tail(pending) ELSE pending
     /\ pc' = IF next # NoDownload THEN [after EXCEPT ![next] = "launch"] ELSE after
     /\ Robs(v, d)

-----------------------------------------------------------------------------
(* start: try_claim_slot under the queue's lock.  A Variant that is active or
   queued is rejected, which changes nothing. *)
Unused == {d \in Downloads : pc[d] = "unused"}
Start(v) ==
  /\ Unused # {} /\ ~Taken(v)
  /\ LET d == CHOOSE d \in Unused : \A e \in Unused : d <= e
     IN /\ variant' = [variant EXCEPT ![d] = v]
        /\ \/ /\ Cardinality(Occupied) < MaxActive
              /\ active' = [active EXCEPT ![v] = d]
              /\ Goto(d, "launch")
              /\ call' = [call EXCEPT ![d] = "starting"]
              /\ UNCHANGED pending
           \/ /\ Cardinality(Occupied) >= MaxActive
              /\ pending' = Append(pending, d)
              /\ Goto(d, "queued")
              /\ call' = [call EXCEPT ![d] = "parking"]
              /\ UNCHANGED active
  /\ UNCHANGED <<board, token, offset, handle, files, cancels, history>>

(* ... and with the lock dropped, the Queued entry *)
ParkedTold(d) ==
  /\ call[d] = "parking"
  /\ Publish(d, "Queued")
  /\ call' = [call EXCEPT ![d] = "over"]
  /\ UNCHANGED <<queue, variant, token, pc, offset, handle, files, cancels, history>>

(* download_model looks at the token, *)
Launch(d) ==
  /\ pc[d] = "launch"
  /\ \/ token[d] # "cancelled" /\ Goto(d, "announce") /\ UNCHANGED call
     \/ /\ token[d] = "cancelled" /\ Goto(d, "probe")
        /\ call' = [call EXCEPT ![d] = IF @ = "starting" THEN "over" ELSE @]
  /\ UNCHANGED <<queue, board, variant, token, offset, handle, files, cancels, history>>

(* then publishes the first snapshot and spawns the task *)
Announce(d) ==
  /\ pc[d] = "announce"
  /\ Publish(d, "Downloading")
  /\ crossed' = IF \E e \in Downloads : pc[e] = "clear" /\ variant[e] = variant[d]
                THEN crossed \cup {d} ELSE crossed
  /\ Goto(d, "probe")
  /\ call' = [call EXCEPT ![d] = IF @ = "starting" THEN "over" ELSE @]
  /\ UNCHANGED <<queue, variant, token, offset, handle, files, cancels,
                 restarts, robbed, abandoned>>

(* The client of start hangs up and the handler is dropped at an await: a
   request that waits stays, one that was claimed never gets its task *)
StartDropped(d) ==
  /\ \/ call[d] = "parking" /\ UNCHANGED <<pc, abandoned>>
     \/ /\ call[d] = "starting" /\ pc[d] = "announce"
        /\ Goto(d, "stranded")
        /\ abandoned' = abandoned \cup {d}
  /\ call' = [call EXCEPT ![d] = "over"]
  /\ UNCHANGED <<queue, board, variant, token, offset, handle, files, cancels,
                 restarts, robbed, crossed>>

-----------------------------------------------------------------------------
(* download_task: the size of the .part that is there, for the Range header *)
Probe(d) ==
  /\ pc[d] = "probe"
  /\ offset' = [offset EXCEPT ![d] =
       IF part[variant[d]] = NoFile THEN 0
       ELSE IF content[part[variant[d]]] = Garbled THEN Chunks
       ELSE content[part[variant[d]]]]
  /\ Goto(d, "request")
  /\ UNCHANGED <<queue, board, variant, token, call, handle, files, cancels, history>>

Linked == {part[v] : v \in Variants} \cup {handle[d] : d \in Downloads}
FreshInode == CHOOSE i \in Inodes : i \notin Linked

(* The answer is taken: open the .part for appending, creating it.  An answer
   to a Range request may hold the whole file all the same (status 200). *)
Responded(d) ==
  LET v == variant[d]
      i == IF part[v] # NoFile THEN part[v] ELSE FreshInode
  IN /\ pc[d] = "request"
     /\ part' = [part EXCEPT ![v] = i]
     /\ content' = IF part[v] = NoFile THEN [content EXCEPT ![i] = 0] ELSE content
     /\ handle' = [handle EXCEPT ![d] = i]
     /\ \/ offset[d] < Chunks /\ UNCHANGED offset
        \/ offset[d] > 0 /\ offset' = [offset EXCEPT ![d] = 0]
     /\ Goto(d, "stream")
     /\ UNCHANGED <<queue, board, variant, token, call, dest, cancels, history>>

(* 416: nothing is left to send.  The .part is removed and all starts over. *)
RangeRefused(d) ==
  /\ pc[d] = "request" /\ offset[d] = Chunks
  /\ part' = [part EXCEPT ![variant[d]] = NoFile]
  /\ Robs(variant[d], d)
  /\ Goto(d, "probe")
  /\ UNCHANGED <<queue, board, variant, token, call, offset, handle, dest,
                 content, cancels, restarts, abandoned, crossed>>

(* No connection, an error status, a broken stream, a full disk *)
TransferFails(d) ==
  /\ pc[d] \in {"request", "stream", "rename"}
  /\ Ended(d, "failed")
  /\ UNCHANGED <<queue, board, variant, token, call, files, cancels, history>>

(* `return Ok(Cancelled)`, and the wrapper that then touches nothing *)
StopCancelled(d) ==
  /\ pc[d] \in {"stream", "commit", "failed"}
  /\ token[d] = "cancelled"
  /\ Ended(d, "done")
  /\ UNCHANGED <<queue, board, variant, token, call, files, cancels, history>>

(* One chunk: the token is looked at, the chunk written, the token looked at
   again; a cancel in between is as one before the first look. *)
WriteChunk(d) ==
  /\ pc[d] = "stream" /\ offset[d] < Chunks
  /\ token[d] # "cancelled"
  /\ content' = [content EXCEPT ![handle[d]] = IF @ = offset[d] THEN @ + 1 ELSE Garbled]
  /\ offset' = [offset EXCEPT ![d] = @ + 1]
  /\ Goto(d, "publish")
  /\ UNCHANGED <<queue, board, variant, token, call, handle, part, dest, cancels, history>>

PublishChunk(d) ==
  /\ pc[d] = "publish"
  /\ Publish(d, "Downloading")
  /\ Goto(d, "stream")
  /\ UNCHANGED <<queue, variant, token, call, offset, handle, files, cancels, history>>

(* End of the body: the file is closed, the token looked at *)
BodyComplete(d) ==
  /\ pc[d] = "stream" /\ offset[d] = Chunks
  /\ token[d] # "cancelled"
  /\ Ended(d, "verify")
  /\ UNCHANGED <<queue, board, variant, token, call, files, cancels, history>>

PublishVerifying(d) ==
  /\ pc[d] = "verify"
  /\ Publish(d, "Verifying")
  /\ Goto(d, "hash")
  /\ UNCHANGED <<queue, variant, token, call, offset, handle, files, cancels, history>>

(* mutant: the digest is computed and not compared *)
VerifyNothing(d) ==
  /\ pc[d] = "hash"
  /\ Goto(d, IF part[variant[d]] = NoFile THEN "failed" ELSE "commit")
  /\ UNCHANGED <<queue, board, variant, token, call, offset, handle, files,
                 cancels, history>>

Whole(v) == part[v] # NoFile /\ content[part[v]] = Chunks

(* compute_sha256 of what the path names now; a mismatch removes the file *)
Verify(d) ==
  LET v == variant[d]
  IN /\ pc[d] = "hash"
     /\ \/ Whole(v) /\ Goto(d, "commit") /\ UNCHANGED <<part, robbed>>
        \/ /\ ~Whole(v)
           /\ Goto(d, "failed")
           /\ part' = [part EXCEPT ![v] = NoFile]
           /\ Robs(v, d)
     /\ UNCHANGED <<queue, board, variant, token, call, offset, handle, dest,
                    content, cancels, restarts, abandoned, crossed>>

(* CancelToken::commit *)
Commit(d) ==
  /\ pc[d] = "commit" /\ token[d] = "running"
  /\ token' = [token EXCEPT ![d] = "committed"]
  /\ Goto(d, "rename")
  /\ UNCHANGED <<queue, board, variant, call, offset, handle, files, cancels, history>>

(* The rename of whatever is there by now; it fails when nothing is *)
Rename(d) ==
  LET v == variant[d]
  IN /\ pc[d] = "rename" /\ part[v] # NoFile
     /\ dest' = [dest EXCEPT ![v] = content[part[v]]]
     /\ part' = [part EXCEPT ![v] = NoFile]
     /\ Goto(d, "tellCompleted")
     /\ UNCHANGED <<queue, board, variant, token, call, offset, handle, content,
                    cancels, history>>

(* An error is dropped when the token says cancelled *)
Conclude(d) ==
  /\ pc[d] = "failed"
  /\ token[d] # "cancelled"
  /\ Goto(d, "tellFailed")
  /\ UNCHANGED <<queue, board, variant, token, call, offset, handle, files, cancels, history>>

(* complete: the terminal snapshot, *)
PublishTerminal(d) ==
  /\ \/ pc[d] = "tellFailed" /\ Publish(d, "Failed") /\ Goto(d, "releaseFailed")
     \/ pc[d] = "tellCompleted" /\ Publish(d, "Completed") /\ Goto(d, "install")
  /\ Robs(variant[d], d)
  /\ UNCHANGED <<queue, variant, token, call, offset, handle, files, cancels,
                 restarts, abandoned, crossed>>

(* the Install of a completed one (model/install.rs), *)
Install(d) ==
  /\ pc[d] = "install"
  /\ Goto(d, "release")
  /\ UNCHANGED <<queue, board, variant, token, call, offset, handle, files, cancels, history>>

(* mutant: only a completed download gives its slot back *)
ReleaseCompleted(d) ==
  /\ \/ pc[d] = "releaseFailed" /\ Goto(d, "done") /\ UNCHANGED <<queue, robbed>>
     \/ pc[d] = "release" /\ FreeSlot(variant[d], d, [pc EXCEPT ![d] = "linger"])
  /\ UNCHANGED <<board, variant, token, call, offset, handle, files, cancels,
                 restarts, abandoned, crossed>>

(* finish_and_launch_next, *)
Release(d) ==
  /\ \/ pc[d] = "releaseFailed" /\ FreeSlot(variant[d], d, [pc EXCEPT ![d] = "done"])
     \/ pc[d] = "release" /\ FreeSlot(variant[d], d, [pc EXCEPT ![d] = "linger"])
  /\ UNCHANGED <<board, variant, token, call, offset, handle, files, cancels,
                 restarts, abandoned, crossed>>

(* mutant: the entry is cleared without a look at whose it is *)
EndGraceUnchecked(d) ==
  /\ pc[d] = "linger"
  /\ Goto(d, "clear")
  /\ UNCHANGED <<queue, board, variant, token, call, offset, handle, files, cancels, history>>

(* and after the grace window: is the entry still this Completed one? *)
EndGrace(d) ==
  /\ pc[d] = "linger"
  /\ Goto(d, IF board[variant[d]] = "Completed" THEN "clear" ELSE "done")
  /\ UNCHANGED <<queue, board, variant, token, call, offset, handle, files, cancels, history>>

ClearCompleted(d) ==
  /\ pc[d] = "clear"
  /\ Unboard(variant[d])
  /\ Goto(d, "done")
  /\ UNCHANGED <<queue, variant, token, call, offset, handle, files, cancels, history>>

-----------------------------------------------------------------------------
(* mutant: what CancelToken::cancel returns is not looked at *)
CancelIgnoringCommit(c, v) ==
  /\ cpc[c] = "idle"
  /\ cvariant' = [cvariant EXCEPT ![c] = v]
  /\ active[v] # NoDownload
  /\ token' = [token EXCEPT ![active[v]] = IF @ = "running" THEN "cancelled" ELSE @]
  /\ ctarget' = [ctarget EXCEPT ![c] = active[v]]
  /\ cpc' = [cpc EXCEPT ![c] = "teardown"]
  /\ UNCHANGED <<queue, pc, board, variant, call, offset, handle, files, history>>

(* cancel, phase 1: classify and signal under the queue's lock *)
Cancel(c, v) ==
  /\ cpc[c] = "idle"
  /\ cvariant' = [cvariant EXCEPT ![c] = v]
  /\ \/ \E i \in DOMAIN pending :
          /\ variant[pending[i]] = v
          /\ pending' = RemoveAt(pending, i)
          /\ Goto(pending[i], "done")
          /\ cpc' = [cpc EXCEPT ![c] = "erase"]
          /\ UNCHANGED <<token, ctarget>>
     \/ /\ active[v] # NoDownload
        /\ token[active[v]] # "committed"
        /\ token' = [token EXCEPT ![active[v]] = "cancelled"]
        /\ ctarget' = [ctarget EXCEPT ![c] = active[v]]
        /\ cpc' = [cpc EXCEPT ![c] = "teardown"]
        /\ UNCHANGED <<pending, pc>>
     \/ /\ ~Taken(v) /\ board[v] # NoEntry
        /\ cpc' = [cpc EXCEPT ![c] = "erase"]
        /\ UNCHANGED <<pending, pc, token, ctarget>>
  /\ UNCHANGED <<active, board, variant, call, offset, handle, files, history>>

CancelOver(c) ==
  /\ cpc' = [cpc EXCEPT ![c] = "idle"]
  /\ ctarget' = [ctarget EXCEPT ![c] = NoDownload]
  /\ cvariant' = [cvariant EXCEPT ![c] = NoVariant]

(* A queued or a finished download only has its entry on the board *)
Erase(c) ==
  /\ cpc[c] = "erase"
  /\ Unboard(cvariant[c])
  /\ Robs(cvariant[c], NoDownload)
  /\ CancelOver(c)
  /\ UNCHANGED <<queue, task, files, restarts, abandoned, crossed>>

(* Phase 2: the entry on the board and the .part go *)
Teardown(c) ==
  /\ cpc[c] = "teardown"
  /\ Unboard(cvariant[c])
  /\ part' = [part EXCEPT ![cvariant[c]] = NoFile]
  /\ Robs(cvariant[c], ctarget[c])
  /\ cpc' = [cpc EXCEPT ![c] = "release"]
  /\ UNCHANGED <<queue, task, dest, content, ctarget, cvariant, restarts, abandoned, crossed>>

(* Phase 3: whoever is in the slot by now goes, and the next one is launched *)
CancelRelease(c) ==
  /\ cpc[c] = "release"
  /\ FreeSlot(cvariant[c], ctarget[c], pc)
  /\ CancelOver(c)
  /\ UNCHANGED <<board, variant, token, call, offset, handle, files, restarts, abandoned, crossed>>

(* The client of the cancel hangs up between two phases *)
CancelDropped(c) ==
  /\ cpc[c] # "idle"
  /\ abandoned' = IF cpc[c] = "erase" THEN abandoned ELSE abandoned \cup {ctarget[c]}
  /\ CancelOver(c)
  /\ UNCHANGED <<queue, board, task, files, restarts, robbed, crossed>>

(* The add-on stops and starts again: only the directory stays *)
Restart ==
  /\ restarts < MaxRestarts
  /\ restarts' = restarts + 1
  /\ pending' = <<>> /\ active' = [v \in Variants |-> NoDownload]
  /\ board' = [v \in Variants |-> NoEntry]
  /\ pc' = [d \in Downloads |-> IF pc[d] = "unused" THEN "unused" ELSE "done"]
  /\ call' = [d \in Downloads |-> "over"]
  /\ offset' = [d \in Downloads |-> 0] /\ handle' = [d \in Downloads |-> NoFile]
  /\ cpc' = [c \in Cancellers |-> "idle"]
  /\ ctarget' = [c \in Cancellers |-> NoDownload]
  /\ cvariant' = [c \in Cancellers |-> NoVariant]
  /\ UNCHANGED <<variant, token, files, robbed, abandoned, crossed>>

-----------------------------------------------------------------------------
TaskStep(d) ==
  \/ Launch(d) \/ Announce(d) \/ Probe(d) \/ Responded(d) \/ RangeRefused(d)
  \/ TransferFails(d) \/ StopCancelled(d) \/ WriteChunk(d) \/ PublishChunk(d)
  \/ BodyComplete(d) \/ PublishVerifying(d) \/ Verify(d) \/ Commit(d) \/ Rename(d)
  \/ Conclude(d) \/ PublishTerminal(d) \/ Install(d) \/ Release(d)
  \/ EndGrace(d) \/ ClearCompleted(d)

CancelStep(c) == Erase(c) \/ Teardown(c) \/ CancelRelease(c)

Next ==
  \/ \E v \in Variants : Start(v)
  \/ \E d \in Downloads : TaskStep(d) \/ ParkedTold(d) \/ StartDropped(d)
  \/ \E c \in Cancellers :
       CancelStep(c) \/ CancelDropped(c) \/ \E v \in Variants : Cancel(c, v)
  \/ Restart

Spec == Init /\ [][Next]_vars

(* Tasks and calls are polled on, and a request to the server ends, if only in
   its timeout (http.rs); a 416 is answered for ever by no server. *)
Fairness ==
  /\ \A d \in Downloads : WF_vars(TaskStep(d)) /\ WF_vars(ParkedTold(d))
                          /\ SF_vars(pc[d] = "request" /\ (Responded(d) \/ TransferFails(d)))
  /\ \A c \in Cancellers : WF_vars(CancelStep(c))
FairSpec == Spec /\ Fairness

-----------------------------------------------------------------------------
(* Every variable keeps its shape; the queue holds each request once. *)
TypeOK ==
  /\ pending \in Seq({d \in Downloads : pc[d] = "queued"})
  /\ \A i, j \in DOMAIN pending : pending[i] = pending[j] => i = j
  /\ active \in [Variants -> Downloads \cup {NoDownload}]
  /\ board \in [Variants -> {NoEntry, "Queued", "Downloading", "Verifying",
                             "Completed", "Failed"}]
  /\ variant \in [Downloads -> Variants \cup {NoVariant}]
  /\ token \in [Downloads -> {"running", "cancelled", "committed"}]
  /\ pc \in [Downloads -> Phase]
  /\ call \in [Downloads -> {"starting", "parking", "over"}]
  /\ offset \in [Downloads -> 0 .. Chunks]
  /\ handle \in [Downloads -> Inodes \cup {NoFile}]
  /\ part \in [Variants -> Inodes \cup {NoFile}]
  /\ dest \in [Variants -> (0 .. Chunks) \cup {Garbled, NoFile}]
  /\ content \in [Inodes -> (0 .. Chunks) \cup {Garbled}]
  /\ cpc \in [Cancellers -> {"idle", "erase", "teardown", "release"}]
  /\ ctarget \in [Cancellers -> Downloads \cup {NoDownload}]
  /\ cvariant \in [Cancellers -> Variants \cup {NoVariant}]
  /\ restarts \in 0 .. MaxRestarts
  /\ robbed \subseteq Downloads /\ abandoned \subseteq Downloads
  /\ crossed \subseteq Downloads

(* download_manager.rs:9-21, 93-97: a download that goes on holds the slot of
   its Variant, a committed one to the end of its Install, so that no two of a
   Variant and no more than the limit go on; but for the robbed ones. *)
LiveDownloadsHoldSlots ==
  \A d \in Downloads : Live(d) /\ d \notin robbed => active[variant[d]] = d

(* and as that comment has it *)
OneDownloadPerVariant ==
  \A d, e \in Downloads : Live(d) /\ Live(e) /\ variant[d] = variant[e] => d = e

(* download_manager.rs:56-59: a slot that is held will be freed, by the task of
   its download or by a cancel under way, unless the API call that had to do it
   was dropped. *)
HeldSlotsAreFreed ==
  \A v \in Occupied :
    LET d == active[v]
    IN \/ Live(d)
       \/ pc[d] \in TailPhase
       \/ \E c \in Cancellers : cvariant[c] = v /\ cpc[c] \in {"teardown", "release"}
       \/ d \in abandoned

(* A request waits only while every slot is taken: whoever frees one promotes. *)
QueuedOnlyWhenFull == pending # <<>> => Cardinality(Occupied) = MaxActive

(* What gets installed is the file the catalog names, whole and in order, and
   resumed, restarted, cancelled and abandoned downloads do not get mixed; *)
InstalledIsWhole ==
  robbed = {} => \A v \in Variants : dest[v] \in {NoFile, Chunks}

(* without that exception: download_manager.rs:33-36, a cancelled task that is
   still draining does nothing to a download of its Variant that came later. *)
VerifiedIsInstalled == \A v \in Variants : dest[v] \in {NoFile, Chunks}

(* download.rs:174-177: a download that is being fetched shows on the board as
   not over, by which an uninstall of the Variant is refused: the late clear of
   the download before it does not take its entry.  Against
   download_manager.rs:405-407 it does take one first published between the look
   at 428-431 and the removal, until the next chunk is told. *)
FetchingIsShown ==
  \A d \in Downloads :
    Live(d) /\ pc[d] \in TaskPhase /\ d \notin robbed
      => \/ board[variant[d]] \in {"Queued", "Downloading", "Verifying"}
         \/ d \in crossed /\ board[variant[d]] = NoEntry

(* Nobody waits in the queue for ever, unless an API call that holds a slot was
   dropped (until its Variant is cancelled once more). *)
QueuedLeaves ==
  \A d \in Downloads : pc[d] = "queued" ~> (pc[d] # "queued" \/ abandoned # {})

=============================================================================
