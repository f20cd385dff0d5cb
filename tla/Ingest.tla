------------------------------- MODULE Ingest -------------------------------
(***************************************************************************)
(* The publishing service (crates/depot-ingest/src/service.rs) and the pin *)
(* handlers: what the server does between two awaits of a request.  A      *)
(* handler is one HTTP request being served; the service takes no lock, so *)
(* several serve the same build at once, and a handler that awaits may be  *)
(* dropped there, when its client goes away or the server stops.           *)
(*                                                                         *)
(* Clients are free: they may send any request for any build at any time,  *)
(* in particular one again that is being served.                           *)
(***************************************************************************)
EXTENDS Catalog

CONSTANTS
  Handlers,  \* requests that can be served at once
  MaxFaults  \* bound: requests and collections that fail or are dropped

ASSUME IngestConstants == MaxFaults \in Nat

VARIABLES
  handler,  \* the request that each handler serves and where it stands
  faults    \* requests and collections that failed or were dropped so far

ingestVars == <<handler, faults>>

Idle == [pc |-> "idle", op |-> "none", build |-> NoBuild, path |-> NoPath,
         paths |-> {}, todo |-> {}, at |-> 0]

\* From the first step of a request its build is known, and where a path is at
\* hand that one too.
Shaped(s) ==
  /\ s.pc # "idle" => s.build \in Builds
  /\ s.pc \in {"attach", "row", "link", "put", "cleanup"} => s.path \in Paths

HandlerStates ==
  {s \in [pc : {"idle", "info", "attach", "head", "row", "link", "put",
                "cleanup", "list", "stamp", "commit"},
          op : {"none", "register", "upload", "finalize"},
          build : Builds \cup {NoBuild},
          path : Paths \cup {NoPath},  \* the path at hand
          paths : SUBSET Paths,        \* the paths of the request or of the build
          todo : SUBSET Paths,         \* those the current loop has yet to visit
          at : Nat] :                  \* finalized_at, once read
   Shaped(s)}

IngestTypeOK ==
  /\ handler \in [Handlers -> HandlerStates]
  /\ faults \in Nat

IngestInit ==
  /\ handler = [h \in Handlers |-> Idle]
  /\ faults = 0

-----------------------------------------------------------------------------

\* Handler h, which is at pc, moves on to the state s.
Goes(h, pc, s) ==
  /\ handler[h].pc = pc
  /\ handler' = [handler EXCEPT ![h] = s]
  /\ UNCHANGED faults

\* The state of h once its loop has dealt with path p; a loop that is through
\* ends the registration, and takes finalization to the publication.
Visited(h, p) ==
  LET left == handler[h].todo \ {p} IN
  CASE left # {}                      -> [handler[h] EXCEPT !.pc = "head", !.path = NoPath, !.todo = left]
    [] left = {} /\ handler[h].op = "finalize"
                                      -> [handler[h] EXCEPT !.pc = "stamp", !.path = NoPath, !.todo = {}]
    [] OTHER                          -> Idle

BeginBuild(b) ==
  /\ status[b] = "absent"
  /\ InsertBuild(b)
  /\ UNCHANGED ingestVars

-----------------------------------------------------------------------------
(* register_paths *)

RegisterPaths(h, b, ps) ==
  /\ status[b] = "pending"
  /\ Goes(h, "idle", [Idle EXCEPT !.pc = "info", !.op = "register", !.build = b,
                                  !.paths = ps, !.todo = ps])
  /\ UNCHANGED catalogVars

RegisterInfo(h, p) ==
  /\ p \in handler[h].todo
  /\ UpsertPathInfo(p)
  /\ Goes(h, "info", [handler[h] EXCEPT !.pc = "attach", !.path = p])

\* After the last path the planner looks for each object (its answer goes to
\* the client and changes nothing here) and the second loop starts.
RegisterAttach(h) ==
  LET p == handler[h].path
      left == handler[h].todo \ {p} IN
  /\ Goes(h, "attach",
          IF left # {} THEN [handler[h] EXCEPT !.pc = "info", !.path = NoPath, !.todo = left]
          ELSE [handler[h] EXCEPT !.pc = "head", !.path = NoPath, !.todo = handler[h].paths])
  /\ AttachBuildPath(handler[h].build, p)

-----------------------------------------------------------------------------
(* storage.head in the loops of register_paths and finalize_build *)

HeadFound(h, p) ==
  /\ p \in handler[h].todo
  /\ NarOf[p] \in blobs
  /\ Goes(h, "head", [handler[h] EXCEPT !.pc = "row", !.path = p])
  /\ UNCHANGED catalogVars

\* Mutant of HeadPassedOver: finalize_build does not reject a missing object.
HeadPassedOverAny(h, p) ==
  /\ p \in handler[h].todo
  /\ NarOf[p] \notin blobs
  /\ Goes(h, "head", Visited(h, p))
  /\ UNCHANGED catalogVars

\* register_paths leaves the object to the client; finalize_build accepts one
\* that an upstream serves.
HeadPassedOver(h, p) ==
  /\ p \in handler[h].todo
  /\ NarOf[p] \notin blobs
  /\ handler[h].op = "register" \/ NarOf[p] \in Upstream
  /\ Goes(h, "head", Visited(h, p))
  /\ UNCHANGED catalogVars

FinalizeRejected(h, p) ==
  /\ p \in handler[h].todo
  /\ NarOf[p] \notin blobs
  /\ handler[h].op = "finalize" /\ NarOf[p] \notin Upstream
  /\ Goes(h, "head", Idle)
  /\ UNCHANGED catalogVars

\* Mutant of PersistRow: the object is not linked to its path.
PersistRowOnly(h) ==
  /\ Goes(h, "row", IF handler[h].op = "upload" THEN Idle
                    ELSE Visited(h, handler[h].path))
  /\ UpsertStorageObject(NarOf[handler[h].path])

\* upsert_storage_object and link_path_object, of all three requests.
PersistRow(h) ==
  /\ Goes(h, "row", [handler[h] EXCEPT !.pc = "link"])
  /\ UpsertStorageObject(NarOf[handler[h].path])

PersistLink(h) ==
  /\ Goes(h, "link", IF handler[h].op = "upload" THEN Idle
                     ELSE Visited(h, handler[h].path))
  /\ LinkPathObject(handler[h].path)

-----------------------------------------------------------------------------
(* upload_object and complete_multipart_upload *)

UploadObject(h, b, p) ==
  /\ status[b] = "pending"
  /\ Goes(h, "idle", [Idle EXCEPT !.pc = "put", !.op = "upload", !.build = b, !.path = p])
  /\ UNCHANGED catalogVars

\* validate_upload_target wants the path in the build, which it then stays.
PutObject(h) ==
  /\ Goes(h, "put", [handler[h] EXCEPT !.pc = "row"])
  /\ handler[h].path \in buildPaths[handler[h].build]
  /\ PutBlob(NarOf[handler[h].path])

UploadRejected(h) ==
  /\ Goes(h, "put", Idle)
  /\ handler[h].path \notin buildPaths[handler[h].build]
  /\ UNCHANGED catalogVars

\* A database write after the upload fails; the code then deletes the object,
\* whoever else may have uploaded it before.
PersistFails(h) ==
  /\ handler[h].op = "upload"
  /\ handler[h].pc \in {"row", "link"}
  /\ faults < MaxFaults
  /\ faults' = faults + 1
  /\ handler' = [handler EXCEPT ![h].pc = "cleanup"]
  /\ UNCHANGED catalogVars

CleanUpUpload(h) ==
  /\ Goes(h, "cleanup", Idle)
  /\ DeleteBlob(NarOf[handler[h].path])

-----------------------------------------------------------------------------
(* finalize_build *)

FinalizeBuild(h, b) ==
  /\ status[b] = "pending"
  /\ Goes(h, "idle", [Idle EXCEPT !.pc = "list", !.op = "finalize", !.build = b])
  /\ UNCHANGED catalogVars

\* A build without paths is an error.
ListBuildPaths(h) ==
  LET listed == buildPaths[handler[h].build] IN
  /\ Goes(h, "list", IF listed = {} THEN Idle
                     ELSE [handler[h] EXCEPT !.pc = "head", !.paths = listed, !.todo = listed])
  /\ UNCHANGED catalogVars

StampBuild(h, t) ==
  /\ Goes(h, "stamp", [handler[h] EXCEPT !.pc = "commit", !.at = t])
  /\ ReadClock(t)

Publish(h) ==
  /\ Goes(h, "commit", Idle)
  /\ PublishBuildToRef(handler[h].build, handler[h].at)

-----------------------------------------------------------------------------

\* The future of a handler is dropped at an await, or a call in it fails where
\* the code only returns the error: what was done stays done.
DropRequest(h) ==
  /\ handler[h].pc # "idle"
  /\ faults < MaxFaults
  /\ faults' = faults + 1
  /\ handler' = [handler EXCEPT ![h] = Idle]
  /\ UNCHANGED catalogVars

\* create_pin: a registered path never disappears, so the check and the
\* insertion are one step.
CreatePin(x, p) ==
  /\ p \in pathInfos
  /\ pins[x] # p
  /\ SetPin(x, p)
  /\ UNCHANGED ingestVars

DeletePin(x) ==
  /\ pins[x] # NoPath
  /\ SetPin(x, NoPath)
  /\ UNCHANGED ingestVars

\* The steps of a request that is being served.
HandlerStep(h) ==
  \/ \E p \in Paths : \/ RegisterInfo(h, p)
                      \/ HeadFound(h, p)
                      \/ HeadPassedOver(h, p)
                      \/ FinalizeRejected(h, p)
  \/ RegisterAttach(h)
  \/ PersistRow(h)
  \/ PersistLink(h)
  \/ PutObject(h)
  \/ UploadRejected(h)
  \/ PersistFails(h)
  \/ CleanUpUpload(h)
  \/ ListBuildPaths(h)
  \/ \E t \in (clock + 1) .. MaxClock : StampBuild(h, t)
  \/ Publish(h)

Request(h) ==
  \E b \in Builds :
    \/ \E ps \in (SUBSET Paths) \ {{}} : RegisterPaths(h, b, ps)
    \/ \E p \in Paths : UploadObject(h, b, p)
    \/ FinalizeBuild(h, b)

IngestNext ==
  \/ \E b \in Builds : BeginBuild(b)
  \/ \E h \in Handlers : Request(h) \/ HandlerStep(h) \/ DropRequest(h)
  \/ \E x \in PinNames : DeletePin(x) \/ \E p \in Paths : CreatePin(x, p)
=============================================================================
