------------------------------ MODULE AsrError ------------------------------
(***************************************************************************)
(* error.rs: what can be wrong with a request, the status it is answered   *)
(* with, and what the answer names.                                        *)
(***************************************************************************)
EXTENDS Integers

(* The kinds by the identifier they carry and report *)
AboutModel == {"ModelNotFound", "VariantNotInstalled", "VariantRequired", "InferenceFailed",
  "InferenceTimeout", "EnginePanic", "PoolAcquireTimeout", "ModelNotLoaded", "InputTooLong",
  "DownloadFailed", "DownloadInProgress"}
AboutRecord == {"RecordNotFound", "NoAudio", "EvalSampleExists"}
AboutJob == {"JobNotFound", "JobNotComplete", "JobCancelled"}
AboutRun == {"EvalRunNotFound", "EvalRunNotRunning"}
Nameless == {"AudioFormatError", "StreamingUnsupported", "StreamProtocol", "ProtocolError",
  "DatabaseError", "AuthRequired", "InvalidApiKey", "Forbidden", "ServiceUnavailable",
  "EvalAudioNotLossless", "EvalRunInProgress", "EvalBlockedByDownload", "JobFailed",
  "NotInSupervisor", "NoSystemApiKey", "HostnameLookup", "SupervisorRejected",
  "SupervisorRequestFailed", "Io", "Json"}

Kinds == AboutModel \cup AboutRecord \cup AboutJob \cup AboutRun
         \cup {"ModelFileNotFound", "EvalSampleNotFound"} \cup Nameless

RelatedId(kind) ==
  CASE kind \in AboutModel -> "model"
    [] kind \in AboutRecord -> "record"
    [] kind \in AboutJob -> "job"
    [] kind \in AboutRun -> "run"
    [] kind = "ModelFileNotFound" -> "path"
    [] kind = "EvalSampleNotFound" -> "sample"
    [] kind \in Nameless -> "none"

BadRequest == {"AudioFormatError", "ProtocolError", "StreamingUnsupported", "StreamProtocol",
  "EvalAudioNotLossless"}
NotFound == {"ModelNotFound", "ModelFileNotFound", "VariantNotInstalled", "RecordNotFound",
  "NoAudio", "JobNotFound", "EvalSampleNotFound", "EvalRunNotFound"}
Conflict == {"DownloadInProgress", "VariantRequired", "JobNotComplete", "EvalSampleExists",
  "EvalRunInProgress", "EvalRunNotRunning", "EvalBlockedByDownload"}
ServerError == {"InferenceFailed", "EnginePanic", "ModelNotLoaded", "DatabaseError",
  "DownloadFailed", "JobFailed", "HostnameLookup", "SupervisorRequestFailed", "Io", "Json"}

(* `rejected` is the Supervisor's own status, passed on if it is one *)
Status(kind, rejected) ==
  CASE kind \in BadRequest -> 400
    [] kind \in {"AuthRequired", "InvalidApiKey"} -> 401
    [] kind = "Forbidden" -> 403
    [] kind \in NotFound -> 404
    [] kind = "InferenceTimeout" -> 408
    [] kind \in Conflict -> 409
    [] kind = "JobCancelled" -> 410
    [] kind = "NoSystemApiKey" -> 412
    [] kind = "InputTooLong" -> 413
    [] kind = "PoolAcquireTimeout" -> 429
    [] kind \in {"ServiceUnavailable", "NotInSupervisor"} -> 503
    [] kind = "SupervisorRejected" -> IF rejected \in 100 .. 999 THEN rejected ELSE 502
    [] kind \in ServerError -> 500

Answer(kind) == [status |-> Status(kind, 0), about |-> RelatedId(kind)]

(* Every kind has its status, and one that a 404 or 410 reports as gone says what is. *)
EveryKindIsAnswered ==
  \A k \in Kinds :
    /\ Answer(k).status \in 400 .. 599
    /\ Answer(k).status \in {404, 410} => Answer(k).about # "none"
=============================================================================
