-------------------------------- MODULE Push --------------------------------
(***************************************************************************)
(* One push of depot-push (push_paths in crates/depot-push/src/push.rs)    *)
(* from the upload plan to the end: a task for each required upload, a     *)
(* semaphore that limits them, and what the uploads leave in the storage   *)
(* backend.  With an S3 backend a task cuts its stream into parts, sends   *)
(* them straight to S3, and asks the server to complete the upload; with a *)
(* file system it streams to the server, which writes a temporary file and *)
(* renames it.                                                             *)
(*                                                                         *)
(* Calls fail, answers are lost, handlers are dropped, and client and      *)
(* server stop, each as a fault.  Rows of the database are left to Ingest. *)
(***************************************************************************)
EXTENDS Integers, Sequences, FiniteSets

CONSTANTS
  Uploads,        \* required uploads, one for each path to be uploaded
  Objects,        \* their objects; two paths may share one
  ObjectOf,
  PartSize,       \* of a multipart upload
  MaxParts,       \* MAX_MULTIPART_PARTS
  Jobs,           \* pushes to be considered, each with:
                  \*   direct   TRUE with an S3 backend, FALSE with a file system
                  \*   size     length of the compressed NAR stream of each object
                  \*   limit    max_concurrent_uploads
                  \*   withPin  whether it asks for a pin
  MaxFaults       \* bound: faults in a behaviour

ASSUME PushConstants ==
  /\ ObjectOf \in [Uploads -> Objects]
  /\ \A o \in Objects : \E u \in Uploads : ObjectOf[u] = o
  /\ PartSize \in Nat \ {0}
  /\ MaxParts \in Nat \ {0}
  /\ Jobs \subseteq [direct : BOOLEAN, size : [Objects -> Nat], limit : Nat, withPin : BOOLEAN]
  /\ MaxFaults \in Nat

VARIABLES
  job,        \* the push
  phase,      \* where push_paths stands
  task,       \* the upload tasks, each with its place in the code and its stream
  call,       \* the server's request for each task, and the parts it is given
  session,    \* the multipart uploads of the backend
  received,   \* the parts that the backend has of each, by number
  temp,       \* the temporary files of put_stream
  stored,     \* objects that the backend holds
  content,    \* and the pieces they consist of
  published,  \* the server has finalized the build
  faults      \* faults so far

vars == <<job, phase, task, call, session, received, temp, stored, content,
          published, faults>>

backend == <<session, received, temp, stored, content>>

\* A piece of a stream: the bytes after the first "from" and up to "to".
Piece == [from : Nat, to : Nat]

\* The pieces make up the first n bytes of a stream, in order.
Whole(pieces, n) ==
  IF pieces = <<>> THEN n = 0
  ELSE /\ pieces[1].from = 0
       /\ \A k \in 1 .. Len(pieces) - 1 : pieces[k].to = pieces[k + 1].from
       /\ pieces[Len(pieces)].to = n

Direct == job.direct

Size == job.size

Length(u) == Size[ObjectOf[u]]

Phases == {"plan", "upload", "finalize", "pin", "done", "failed"}

TaskStates ==
  [pc : {"waiting", "read", "part", "complete", "answer", "abort",
         "ended", "failed", "dropped"},
   at : Nat,              \* bytes read from the stream
   piece : Piece,         \* the part read last
   parts : Seq(Piece)]    \* parts whose ETag the task has

CallStates ==
  [pc : {"none", "assemble", "copy", "rename", "persist", "cleanup", "ok", "error"},
   parts : Seq(Piece)]

InProgress == {"assemble", "copy", "rename", "persist", "cleanup"}

TypeOK ==
  /\ job \in Jobs
  /\ phase \in Phases
  /\ task \in [Uploads -> TaskStates]
  /\ call \in [Uploads -> CallStates]
  /\ session \in [Uploads -> {"none", "open", "completed", "aborted"}]
  /\ received \in [Uploads -> Seq(Piece)]
  /\ temp \in [Uploads -> Seq(Piece)]
  /\ stored \subseteq Objects
  /\ content \in [Objects -> Seq(Piece)]
  /\ published \in BOOLEAN
  /\ faults \in Nat

NoCall == [pc |-> "none", parts |-> <<>>]

Init ==
  /\ job \in Jobs
  /\ phase = "plan"
  /\ task = [u \in Uploads |-> [pc |-> "waiting", at |-> 0, piece |-> [from |-> 0, to |-> 0],
                                parts |-> <<>>]]
  /\ call = [u \in Uploads |-> NoCall]
  /\ session = [u \in Uploads |-> "none"]
  /\ received = [u \in Uploads |-> <<>>]
  /\ temp = [u \in Uploads |-> <<>>]
  /\ stored = {}
  /\ content = [o \in Objects |-> <<>>]
  /\ published = FALSE
  /\ faults = 0

-----------------------------------------------------------------------------
(* Helpers of the actions *)

Faulty ==
  /\ faults < MaxFaults
  /\ faults' = faults + 1

TaskAt(u, pc) == phase = "upload" /\ task[u].pc = pc

TaskGoes(u, s) == task' = [task EXCEPT ![u] = s]

\* Mutant of Erred: a failed upload is left as it is.
ErredOnly(u) == [task[u] EXCEPT !.pc = "failed"]

\* The error of a direct upload is followed by abort_multipart_upload.
Erred(u) == [task[u] EXCEPT !.pc = IF Direct THEN "abort" ELSE "failed"]

Answers(u, answer) == call' = [call EXCEPT ![u].pc = answer]

\* Mutant of Permits: as many permits as the option says.
PermitsAsGiven == job.limit

\* The semaphore has one permit at least.
Permits == IF job.limit > 1 THEN job.limit ELSE 1

\* Mutant of Running: a task keeps its permit when it has ended.
NotWaiting == {u \in Uploads : task[u].pc # "waiting"}

Running == {u \in Uploads : task[u].pc \in {"read", "part", "complete", "answer", "abort"}}

StoreObject(o, pieces) ==
  /\ stored' = stored \cup {o}
  /\ content' = [content EXCEPT ![o] = pieces]

-----------------------------------------------------------------------------
(* register_paths on the server creates the multipart uploads one by one *)

\* Mutant of CreateUpload: a state that a multipart upload does not have.
StartUpload(u) ==
  /\ phase = "plan"
  /\ Direct /\ session[u] = "none"
  /\ session' = [session EXCEPT ![u] = "started"]
  /\ UNCHANGED <<phase, task, call, received, temp, stored, content, published, faults>>

CreateUpload(u) ==
  /\ phase = "plan"
  /\ Direct /\ session[u] = "none"
  /\ session' = [session EXCEPT ![u] = "open"]
  /\ UNCHANGED <<phase, task, call, received, temp, stored, content, published, faults>>

SpawnUploads ==
  /\ phase = "plan"
  /\ Direct => \A u \in Uploads : session[u] = "open"
  /\ phase' = "upload"
  /\ UNCHANGED <<task, call, backend, published, faults>>

\* A task that gets its permit starts to read its stream, or sends it.
Acquire(u) ==
  /\ TaskAt(u, "waiting")
  /\ Cardinality(Running) < Permits
  /\ TaskGoes(u, [task[u] EXCEPT !.pc = IF Direct THEN "read" ELSE "answer"])
  /\ IF Direct THEN UNCHANGED call ELSE Answers(u, "copy")
  /\ UNCHANGED <<phase, backend, published, faults>>

-----------------------------------------------------------------------------
(* upload_s3_multipart_reader *)

\* read_next_upload_part fills the part or comes to the end of the stream.
ReadPart(u) ==
  LET end == IF task[u].at + PartSize < Length(u) THEN task[u].at + PartSize
             ELSE Length(u) IN
  /\ TaskAt(u, "read")
  /\ Len(task[u].parts) < MaxParts
  /\ task[u].at < Length(u)
  /\ TaskGoes(u, [task[u] EXCEPT !.pc = "part", !.at = end,
                                 !.piece = [from |-> task[u].at, to |-> end]])
  /\ UNCHANGED <<phase, call, backend, published, faults>>

\* Mutant of ReadEnd: a last part that is not full counts as the end.
ReadEndShort(u) ==
  /\ TaskAt(u, "read")
  /\ Len(task[u].parts) < MaxParts
  /\ task[u].at + PartSize > Length(u)
  /\ TaskGoes(u, IF task[u].parts = <<>> THEN Erred(u)
                 ELSE [task[u] EXCEPT !.pc = "complete"])
  /\ UNCHANGED <<phase, call, backend, published, faults>>

\* A stream without any byte is an error.
ReadEnd(u) ==
  /\ TaskAt(u, "read")
  /\ Len(task[u].parts) < MaxParts
  /\ task[u].at = Length(u)
  /\ TaskGoes(u, IF task[u].parts = <<>> THEN Erred(u)
                 ELSE [task[u] EXCEPT !.pc = "complete"])
  /\ UNCHANGED <<phase, call, backend, published, faults>>

TooManyParts(u) ==
  /\ TaskAt(u, "read")
  /\ Len(task[u].parts) >= MaxParts
  /\ TaskGoes(u, Erred(u))
  /\ UNCHANGED <<phase, call, backend, published, faults>>

ReadFails(u) ==
  /\ TaskAt(u, "read")
  /\ Faulty
  /\ TaskGoes(u, Erred(u))
  /\ UNCHANGED <<phase, call, backend, published>>

\* The part is sent to the presigned URL, under the number after the last.
PutPart(u) ==
  /\ TaskAt(u, "part")
  /\ received' = [received EXCEPT ![u] = Append(@, task[u].piece)]
  /\ TaskGoes(u, [task[u] EXCEPT !.pc = "read", !.parts = Append(@, task[u].piece)])
  /\ UNCHANGED <<phase, call, session, temp, stored, content, published, faults>>

\* The part may have arrived all the same.
PutPartFails(u) ==
  /\ TaskAt(u, "part")
  /\ Faulty
  /\ received' \in {received, [received EXCEPT ![u] = Append(@, task[u].piece)]}
  /\ TaskGoes(u, Erred(u))
  /\ UNCHANGED <<phase, call, session, temp, stored, content, published>>

SendComplete(u) ==
  /\ TaskAt(u, "complete")
  /\ TaskGoes(u, [task[u] EXCEPT !.pc = "answer"])
  /\ call' = [call EXCEPT ![u] = [pc |-> "assemble", parts |-> task[u].parts]]
  /\ UNCHANGED <<phase, backend, published, faults>>

\* The backend refuses to abort an upload that is completed; the task fails with
\* the error it had before.
AbortUpload(u) ==
  /\ TaskAt(u, "abort")
  /\ session' = [session EXCEPT ![u] = IF @ = "open" THEN "aborted" ELSE @]
  /\ TaskGoes(u, [task[u] EXCEPT !.pc = "failed"])
  /\ UNCHANGED <<phase, call, received, temp, stored, content, published, faults>>

AbortFails(u) ==
  /\ TaskAt(u, "abort")
  /\ Faulty
  /\ TaskGoes(u, [task[u] EXCEPT !.pc = "failed"])
  /\ UNCHANGED <<phase, call, backend, published>>

-----------------------------------------------------------------------------
(* The answer to the last call of a task *)

ReceiveAnswer(u) ==
  /\ TaskAt(u, "answer")
  /\ \/ /\ call[u].pc = "ok"
        /\ TaskGoes(u, [task[u] EXCEPT !.pc = "ended"])
     \/ /\ call[u].pc = "error"
        /\ TaskGoes(u, Erred(u))
  /\ UNCHANGED <<phase, call, backend, published, faults>>

\* The server goes on with the request, and may complete it.
LoseAnswer(u) ==
  /\ TaskAt(u, "answer")
  /\ Faulty
  /\ TaskGoes(u, Erred(u))
  /\ UNCHANGED <<phase, call, backend, published>>

-----------------------------------------------------------------------------
(* The server: complete_multipart_upload and upload_object *)

Assemble(u) ==
  /\ call[u].pc = "assemble"
  /\ session[u] = "open"
  /\ Len(call[u].parts) <= Len(received[u])
  /\ \A k \in 1 .. Len(call[u].parts) : received[u][k] = call[u].parts[k]
  /\ session' = [session EXCEPT ![u] = "completed"]
  /\ StoreObject(ObjectOf[u], call[u].parts)
  /\ Answers(u, "persist")
  /\ UNCHANGED <<phase, task, received, temp, published, faults>>

AssembleRejected(u) ==
  /\ call[u].pc = "assemble"
  /\ session[u] # "open"
  /\ Answers(u, "error")
  /\ UNCHANGED <<phase, task, backend, published, faults>>

\* The answer of the backend is lost: the object is there, and nobody deletes it.
AssembleUnknown(u) ==
  /\ call[u].pc = "assemble"
  /\ session[u] = "open"
  /\ Faulty
  /\ session' = [session EXCEPT ![u] = "completed"]
  /\ StoreObject(ObjectOf[u], call[u].parts)
  /\ Answers(u, "error")
  /\ UNCHANGED <<phase, task, received, temp, published>>

\* put_stream takes the stream as it comes, for as long as the client sends it.
CopyChunk(u) ==
  /\ call[u].pc = "copy"
  /\ TaskAt(u, "answer")
  /\ \E end \in task[u].at + 1 .. Length(u) :
       /\ temp' = [temp EXCEPT ![u] = Append(@, [from |-> task[u].at, to |-> end])]
       /\ TaskGoes(u, [task[u] EXCEPT !.at = end])
  /\ UNCHANGED <<phase, call, session, received, stored, content, published, faults>>

CopyEnd(u) ==
  /\ call[u].pc = "copy"
  /\ TaskAt(u, "answer")
  /\ task[u].at = Length(u)
  /\ Answers(u, "rename")
  /\ UNCHANGED <<phase, task, backend, published, faults>>

\* Mutant of RenameFile: the temporary file is copied and not removed.
CopyFile(u) ==
  /\ call[u].pc = "rename"
  /\ StoreObject(ObjectOf[u], temp[u])
  /\ Answers(u, "persist")
  /\ UNCHANGED <<phase, task, session, received, temp, published, faults>>

RenameFile(u) ==
  /\ call[u].pc = "rename"
  /\ StoreObject(ObjectOf[u], temp[u])
  /\ temp' = [temp EXCEPT ![u] = <<>>]
  /\ Answers(u, "persist")
  /\ UNCHANGED <<phase, task, session, received, published, faults>>

\* Mutant of CopyBreaks: a stream that breaks off counts as one that ends.
CopyBreaksOff(u) ==
  /\ call[u].pc = "copy"
  /\ ~TaskAt(u, "answer")
  /\ Answers(u, "rename")
  /\ UNCHANGED <<phase, task, backend, published, faults>>

\* The stream breaks off; the temporary file is removed.
CopyBreaks(u) ==
  /\ call[u].pc = "copy"
  /\ ~TaskAt(u, "answer")
  /\ temp' = [temp EXCEPT ![u] = <<>>]
  /\ Answers(u, "error")
  /\ UNCHANGED <<phase, task, session, received, stored, content, published, faults>>

CopyFails(u) ==
  /\ call[u].pc \in {"copy", "rename"}
  /\ Faulty
  /\ temp' = [temp EXCEPT ![u] = <<>>]
  /\ Answers(u, "error")
  /\ UNCHANGED <<phase, task, session, received, stored, content, published>>

Persist(u) ==
  /\ call[u].pc = "persist"
  /\ Answers(u, "ok")
  /\ UNCHANGED <<phase, task, backend, published, faults>>

PersistFails(u) ==
  /\ call[u].pc = "persist"
  /\ Faulty
  /\ Answers(u, "cleanup")
  /\ UNCHANGED <<phase, task, backend, published>>

CleanUpObject(u) ==
  /\ call[u].pc = "cleanup"
  /\ stored' = stored \ {ObjectOf[u]}
  /\ Answers(u, "error")
  /\ UNCHANGED <<phase, task, session, received, temp, content, published, faults>>

\* The handler is dropped or fails at an await and cleans nothing up.
DropCall(u) ==
  /\ call[u].pc \in InProgress
  /\ Faulty
  /\ Answers(u, "error")
  /\ UNCHANGED <<phase, task, backend, published>>

-----------------------------------------------------------------------------
(* push_paths *)

DropTasks ==
  task' = [u \in Uploads |-> IF task[u].pc \in {"ended", "failed"} THEN task[u]
                             ELSE [task[u] EXCEPT !.pc = "dropped"]]

\* Mutant of NoticeFailure: the error of a task is only logged.
IgnoreFailure ==
  /\ phase = "upload"
  /\ \A u \in Uploads : task[u].pc \in {"ended", "failed"}
  /\ \E u \in Uploads : task[u].pc = "failed"
  /\ phase' = "finalize"
  /\ UNCHANGED <<task, call, backend, published, faults>>

\* The first task that fails ends the push, and with the JoinSet all others.
NoticeFailure ==
  /\ phase = "upload"
  /\ \E u \in Uploads : task[u].pc = "failed"
  /\ phase' = "failed"
  /\ DropTasks
  /\ UNCHANGED <<call, backend, published, faults>>

JoinUploads ==
  /\ phase = "upload"
  /\ \A u \in Uploads : task[u].pc = "ended"
  /\ phase' = "finalize"
  /\ UNCHANGED <<task, call, backend, published, faults>>

\* finalize_build rejects a build whose objects are not all there.
Finalize ==
  /\ phase = "finalize"
  /\ published' = (stored = Objects)
  /\ phase' = IF ~published' THEN "failed" ELSE IF job.withPin THEN "pin" ELSE "done"
  /\ UNCHANGED <<task, call, backend, faults>>

\* The call fails or its answer is lost.
FinalizeFails ==
  /\ phase = "finalize"
  /\ Faulty
  /\ published' \in BOOLEAN
  /\ published' => stored = Objects
  /\ phase' = "failed"
  /\ UNCHANGED <<task, call, backend>>

Pin ==
  /\ phase = "pin"
  /\ phase' = "done"
  /\ UNCHANGED <<task, call, backend, published, faults>>

\* Any other call fails, or the client stops.
PushFails ==
  /\ phase \in {"plan", "upload", "pin"}
  /\ Faulty
  /\ phase' = "failed"
  /\ DropTasks
  /\ UNCHANGED <<call, backend, published>>

TaskStep(u) ==
  \/ Acquire(u)
  \/ ReadPart(u)
  \/ ReadEnd(u)
  \/ TooManyParts(u)
  \/ PutPart(u)
  \/ SendComplete(u)
  \/ AbortUpload(u)
  \/ ReceiveAnswer(u)

ServerStep(u) ==
  \/ CreateUpload(u)
  \/ Assemble(u)
  \/ AssembleRejected(u)
  \/ CopyChunk(u)
  \/ CopyEnd(u)
  \/ RenameFile(u)
  \/ CopyBreaks(u)
  \/ Persist(u)
  \/ CleanUpObject(u)

Fault(u) ==
  \/ ReadFails(u)
  \/ PutPartFails(u)
  \/ AbortFails(u)
  \/ LoseAnswer(u)
  \/ AssembleUnknown(u)
  \/ CopyFails(u)
  \/ PersistFails(u)
  \/ DropCall(u)

PushStep ==
  \/ SpawnUploads
  \/ NoticeFailure
  \/ JoinUploads
  \/ Finalize
  \/ Pin

Next ==
  /\ \/ \E u \in Uploads : TaskStep(u) \/ ServerStep(u) \/ Fault(u)
     \/ PushStep
     \/ FinalizeFails
     \/ PushFails
  /\ UNCHANGED job

Spec == Init /\ [][Next]_vars

\* Both runtimes poll whatever can go on.
Fairness ==
  /\ WF_vars(PushStep /\ UNCHANGED job)
  /\ \A u \in Uploads : /\ WF_vars(TaskStep(u) /\ UNCHANGED job)
                        /\ WF_vars(ServerStep(u) /\ UNCHANGED job)

FairSpec == Spec /\ Fairness

-----------------------------------------------------------------------------
(* Properties *)

\* What the backend holds under the name of an object is its whole stream: the
\* parts in order and none left out, or the temporary file after the last byte
\* of put_stream; no failure or lost answer in between leaves less behind.
WholeObjects == \A o \in stored : Whole(content[o], Size[o])

\* A push that succeeds leaves neither an open multipart upload, which S3 would
\* keep, nor a temporary file.
DoneLeavesNothing ==
  phase = "done" => \A u \in Uploads : session[u] # "open" /\ temp[u] = <<>>

\* Nor does an upload that fails by itself, over its limit of parts for one: it is
\* aborted before the push hears of it.
FailedLeavesNothing ==
  faults = 0 => \A u \in Uploads : task[u].pc = "failed" => session[u] # "open"

\* The push implements its abstract specification: its build is published only
\* with all objects there, and no cleanup of one of its uploads comes later.
Promise == INSTANCE AtomicPush WITH
  stored <- {o \in stored : Whole(content[o], Size[o])},
  outcome <- IF published THEN "published" ELSE IF phase = "failed" THEN "failed" ELSE "open"

KeepsPromise == Promise!Spec

\* A push comes to an end, whatever limit of concurrent uploads it is given.
PushEnds == <>(phase \in {"done", "failed"})

\* Without a fault it succeeds, unless it goes to S3 and has a stream that is empty
\* or takes MAX_MULTIPART_PARTS parts or more.
PushSucceeds ==
  (Direct => \A o \in Objects : Size[o] \in 1 .. (MaxParts - 1) * PartSize)
    => <>(phase = "done" \/ faults > 0)

-----------------------------------------------------------------------------
(***************************************************************************)
(* The inductive invariant behind WholeObjects and KeepsPromise: wherever  *)
(* an upload stands, the pieces at hand make up what was read so far, and  *)
(* once the uploads are joined no request of theirs is left on the server. *)
(***************************************************************************)
PiecesInOrder(u) ==
  /\ task[u].pc = "waiting" =>
       task[u].at = 0 /\ task[u].parts = <<>> /\ temp[u] = <<>> /\ call[u] = NoCall
  /\ task[u].pc = "read" => Whole(task[u].parts, task[u].at)
  /\ task[u].pc = "part" =>
       /\ Whole(task[u].parts, task[u].piece.from)
       /\ task[u].piece.to = task[u].at
  /\ task[u].pc = "complete" => Whole(task[u].parts, Length(u))
  /\ call[u].pc = "assemble" => Whole(call[u].parts, Length(u))
  /\ call[u].pc = "copy" /\ task[u].pc = "answer" => Whole(temp[u], task[u].at)
  /\ call[u].pc = "rename" => Whole(temp[u], Length(u))

(***************************************************************************)
(* What DoneLeavesNothing and FailedLeavesNothing need besides: a push     *)
(* keeps to one kind of upload, a request past the step that stores its    *)
(* object has nothing open behind it, and a task that failed without any   *)
(* fault was aborted.                                                      *)
(***************************************************************************)
Leftovers(u) ==
  /\ Direct => call[u].pc \notin {"copy", "rename"} /\ temp[u] = <<>>
  /\ ~Direct => /\ session[u] = "none" /\ call[u].pc # "assemble"
                /\ task[u].pc \notin {"read", "part", "complete", "abort"}
  /\ phase = "plan" => task[u].pc = "waiting"
  /\ call[u].pc \in {"persist", "cleanup", "ok"} =>
       temp[u] = <<>> /\ session[u] = IF Direct THEN "completed" ELSE "none"
  /\ faults = 0 /\ task[u].pc = "failed" => session[u] # "open"

Joined ==
  /\ \A u \in Uploads : task[u].pc = "ended" => call[u].pc = "ok"
  /\ phase \in {"finalize", "pin", "done"} \/ published => \A u \in Uploads : task[u].pc = "ended"
  /\ published => phase \in {"pin", "done", "failed"}

PushInv ==
  /\ TypeOK
  /\ \A u \in Uploads : PiecesInOrder(u) /\ Leftovers(u)
  /\ WholeObjects
  /\ Joined
=============================================================================
