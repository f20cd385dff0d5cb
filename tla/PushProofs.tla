----------------------------- MODULE PushProofs -----------------------------
(***************************************************************************)
(* The push client stores whole objects and keeps its promise, for every   *)
(* number of uploads, every size and part size, and every limit.           *)
(***************************************************************************)
EXTENDS Push, TLAPS

\* A piece that begins where the others end makes them longer (PutPart,
\* CopyChunk).
LEMMA WholeAppend ==
  ASSUME NEW pieces \in Seq(Piece), NEW p \in Piece, Whole(pieces, p.from)
  PROVE  Whole(Append(pieces, p), p.to)
<1> DEFINE longer == Append(pieces, p)
<1>1. Len(longer) = Len(pieces) + 1 /\ longer[Len(pieces) + 1] = p
  OBVIOUS
<1>2. \A k \in 1 .. Len(pieces) : longer[k] = pieces[k]
  OBVIOUS
<1>3. longer # <<>>
  BY <1>1
<1>4. CASE pieces = <<>>
  BY <1>1, <1>3, <1>4 DEF Whole, Piece
<1>5. CASE pieces # <<>>
  <2>1. Len(pieces) \in Nat \ {0}
    BY <1>5
  <2>2. longer[1].from = 0
    BY <1>2, <1>5, <2>1 DEF Whole
  <2>3. ASSUME NEW k \in 1 .. Len(longer) - 1
        PROVE  longer[k].to = longer[k + 1].from
    <3>1. CASE k = Len(pieces)
      BY <1>1, <1>2, <1>5, <2>1, <3>1 DEF Whole
    <3>2. CASE k # Len(pieces)
      <4>1. k \in 1 .. Len(pieces) - 1
        BY <1>1, <2>1, <3>2
      <4>2. pieces[k].to = pieces[k + 1].from
        BY <1>5, <4>1 DEF Whole
      <4> QED
        BY <1>2, <2>1, <4>1, <4>2
    <3> QED
      BY <3>1, <3>2
  <2> HIDE DEF longer
  <2> QED
    BY <1>1, <1>3, <2>2, <2>3 DEF Whole
<1> QED
  BY <1>4, <1>5

-----------------------------------------------------------------------------
(* Types *)

\* The helpers by which an action changes one task or one request keep types.
LEMMA TaskTyped ==
  ASSUME TypeOK, NEW u \in Uploads, NEW s \in TaskStates, TaskGoes(u, s)
  PROVE  task' \in [Uploads -> TaskStates]
BY DEF TypeOK, TaskGoes

LEMMA CallTyped ==
  ASSUME TypeOK, NEW u \in Uploads, NEW answer, Answers(u, answer),
         answer \in {"copy", "rename", "persist", "cleanup", "ok", "error"}
  PROVE  call' \in [Uploads -> CallStates]
BY DEF TypeOK, Answers, CallStates

LEMMA ErredTyped ==
  ASSUME TypeOK, NEW u \in Uploads
  PROVE  /\ Erred(u) \in TaskStates
         /\ Erred(u).pc \in {"abort", "failed"}
BY DEF TypeOK, Erred, TaskStates

\* A push that drops its tasks keeps them well typed.
LEMMA DropTyped ==
  ASSUME TypeOK, DropTasks
  PROVE  task' \in [Uploads -> TaskStates]
<1>1. \A u \in Uploads : task[u] \in TaskStates
  BY DEF TypeOK
<1>2. \A u \in Uploads : [task[u] EXCEPT !.pc = "dropped"] \in TaskStates
  BY <1>1 DEF TaskStates
<1> QED
  BY <1>1, <1>2 DEF DropTasks

LEMMA StoreTyped ==
  ASSUME TypeOK, NEW u \in Uploads, NEW pieces \in Seq(Piece),
         StoreObject(ObjectOf[u], pieces)
  PROVE  stored' \subseteq Objects /\ content' \in [Objects -> Seq(Piece)]
BY PushConstants DEF TypeOK, StoreObject

LEMMA LengthNat == ASSUME TypeOK, NEW u \in Uploads PROVE Length(u) \in Nat
BY PushConstants DEF TypeOK, Length, Size

\* The push is the same throughout.
LEMMA JobStays == [Next]_vars => job' = job
BY DEF Next, vars

\* Every step keeps the types.
LEMMA TypeStep == TypeOK /\ [Next]_vars => TypeOK'
<1> SUFFICES ASSUME TypeOK, [Next]_vars
             PROVE  TypeOK'
  OBVIOUS
<1>0. job' = job
  BY JobStays
<1> USE <1>0
<1>1. ASSUME NEW u \in Uploads, Acquire(u)
       PROVE  TypeOK'
  <2>1. [task[u] EXCEPT !.pc = IF Direct THEN "read" ELSE "answer"] \in TaskStates
    BY <1>1 DEF TypeOK, TaskStates
  <2>2. call' \in [Uploads -> CallStates]
    BY <1>1, CallTyped DEF Acquire, TypeOK
  <2> QED
    BY <1>1, <2>1, <2>2, TaskTyped DEF Acquire, TypeOK, backend
<1>2. ASSUME NEW u \in Uploads, ReadPart(u)
       PROVE  TypeOK'
  <2> DEFINE end == IF task[u].at + PartSize < Length(u) THEN task[u].at + PartSize
                   ELSE Length(u)
  <2>1. task[u] \in TaskStates /\ end \in Nat
    <3>1. task[u] \in TaskStates
      BY DEF TypeOK
    <3>2. task[u].at \in Nat /\ Length(u) \in Nat /\ PartSize \in Nat
      BY <3>1, PushConstants, LengthNat DEF TaskStates
    <3> QED
      BY <3>1, <3>2
  <2>2. [task[u] EXCEPT !.pc = "part", !.at = end,
                        !.piece = [from |-> task[u].at, to |-> end]] \in TaskStates
    BY <2>1 DEF TaskStates, Piece
  <2> QED
    BY <1>2, <2>2, TaskTyped DEF ReadPart, TypeOK, backend
<1>3. ASSUME NEW u \in Uploads, ReadEnd(u)
       PROVE  TypeOK'
  <2>1. [task[u] EXCEPT !.pc = "complete"] \in TaskStates
    BY DEF TypeOK, TaskStates
  <2> QED
    BY <1>3, <2>1, TaskTyped, ErredTyped DEF ReadEnd, TypeOK, backend
<1>4. ASSUME NEW u \in Uploads, TooManyParts(u)
       PROVE  TypeOK'
  BY <1>4, TaskTyped, ErredTyped DEF TooManyParts, TypeOK, backend
<1>5. ASSUME NEW u \in Uploads, PutPart(u)
       PROVE  TypeOK'
  <2>1. task[u] \in TaskStates /\ task[u].piece \in Piece /\ task[u].parts \in Seq(Piece)
    BY DEF TypeOK, TaskStates
  <2>2. Append(task[u].parts, task[u].piece) \in Seq(Piece)
    BY <2>1
  <2>3. [task[u] EXCEPT !.pc = "read", !.parts = Append(@, task[u].piece)] \in TaskStates
    BY <2>1, <2>2 DEF TaskStates
  <2>4. received' \in [Uploads -> Seq(Piece)]
    BY <1>5, <2>1 DEF PutPart, TypeOK
  <2> QED
    BY <1>5, <2>3, <2>4, TaskTyped DEF PutPart, TypeOK
<1>6. ASSUME NEW u \in Uploads, SendComplete(u)
       PROVE  TypeOK'
  <2>1. [task[u] EXCEPT !.pc = "answer"] \in TaskStates
    BY DEF TypeOK, TaskStates
  <2>2. task[u].parts \in Seq(Piece)
    BY DEF TypeOK, TaskStates
  <2>3. call' \in [Uploads -> CallStates]
    BY <1>6, <2>2 DEF SendComplete, TypeOK, CallStates
  <2> QED
    BY <1>6, <2>1, <2>3, TaskTyped DEF SendComplete, TypeOK, backend
<1>7. ASSUME NEW u \in Uploads, AbortUpload(u)
       PROVE  TypeOK'
  <2>1. [task[u] EXCEPT !.pc = "failed"] \in TaskStates
    BY DEF TypeOK, TaskStates
  <2>2. session' \in [Uploads -> {"none", "open", "completed", "aborted"}]
    BY <1>7 DEF AbortUpload, TypeOK
  <2> QED
    BY <1>7, <2>1, <2>2, TaskTyped DEF AbortUpload, TypeOK
<1>8. ASSUME NEW u \in Uploads, ReceiveAnswer(u)
       PROVE  TypeOK'
  <2>1. [task[u] EXCEPT !.pc = "ended"] \in TaskStates
    BY DEF TypeOK, TaskStates
  <2> QED
    BY <1>8, <2>1, TaskTyped, ErredTyped DEF ReceiveAnswer, TypeOK, backend
<1>9. ASSUME NEW u \in Uploads, CreateUpload(u)
       PROVE  TypeOK'
  BY <1>9 DEF CreateUpload, TypeOK
<1>10. ASSUME NEW u \in Uploads, Assemble(u)
       PROVE  TypeOK'
  <2>1. call[u].parts \in Seq(Piece)
    BY DEF TypeOK, CallStates
  <2>2. session' \in [Uploads -> {"none", "open", "completed", "aborted"}]
    BY <1>10 DEF Assemble, TypeOK
  <2> QED
    BY <1>10, <2>1, <2>2, CallTyped, StoreTyped DEF Assemble, TypeOK
<1>11. ASSUME NEW u \in Uploads, AssembleRejected(u)
       PROVE  TypeOK'
  BY <1>11, CallTyped DEF AssembleRejected, TypeOK, backend
<1>12. ASSUME NEW u \in Uploads, CopyChunk(u)
       PROVE  TypeOK'
  <2>1. task[u] \in TaskStates /\ temp[u] \in Seq(Piece)
    BY DEF TypeOK
  <2>2. PICK end \in task[u].at + 1 .. Length(u) :
          /\ temp' = [temp EXCEPT ![u] = Append(@, [from |-> task[u].at, to |-> end])]
          /\ TaskGoes(u, [task[u] EXCEPT !.at = end])
    BY <1>12 DEF CopyChunk
  <2>3. end \in Nat /\ task[u].at \in Nat
    BY <2>1, <2>2, LengthNat DEF TaskStates
  <2>4. [task[u] EXCEPT !.at = end] \in TaskStates
    BY <2>1, <2>3 DEF TaskStates
  <2>5. Append(temp[u], [from |-> task[u].at, to |-> end]) \in Seq(Piece)
    BY <2>1, <2>3 DEF Piece
  <2>6. temp' \in [Uploads -> Seq(Piece)]
    BY <2>2, <2>5 DEF TypeOK
  <2>7. task' \in [Uploads -> TaskStates]
    BY <2>2, <2>4, TaskTyped
  <2> QED
    BY <1>12, <2>6, <2>7 DEF CopyChunk, TypeOK
<1>13. ASSUME NEW u \in Uploads, CopyEnd(u)
       PROVE  TypeOK'
  BY <1>13, CallTyped DEF CopyEnd, TypeOK, backend
<1>14. ASSUME NEW u \in Uploads, RenameFile(u)
       PROVE  TypeOK'
  <2>1. temp[u] \in Seq(Piece)
    BY DEF TypeOK
  <2>2. temp' \in [Uploads -> Seq(Piece)]
    BY <1>14 DEF RenameFile, TypeOK
  <2> QED
    BY <1>14, <2>1, <2>2, CallTyped, StoreTyped DEF RenameFile, TypeOK
<1>15. ASSUME NEW u \in Uploads, CopyBreaks(u)
       PROVE  TypeOK'
  <2>1. temp' \in [Uploads -> Seq(Piece)]
    BY <1>15 DEF CopyBreaks, TypeOK
  <2> QED
    BY <1>15, <2>1, CallTyped DEF CopyBreaks, TypeOK
<1>16. ASSUME NEW u \in Uploads, Persist(u)
       PROVE  TypeOK'
  BY <1>16, CallTyped DEF Persist, TypeOK, backend
<1>17. ASSUME NEW u \in Uploads, CleanUpObject(u)
       PROVE  TypeOK'
  BY <1>17, CallTyped DEF CleanUpObject, TypeOK
<1>18. ASSUME NEW u \in Uploads, ReadFails(u)
       PROVE  TypeOK'
  <2>1. task' \in [Uploads -> TaskStates]
    BY <1>18, TaskTyped, ErredTyped DEF ReadFails
  <2> QED
    BY <1>18, <2>1 DEF ReadFails, TypeOK, backend, Faulty
<1>19. ASSUME NEW u \in Uploads, PutPartFails(u)
       PROVE  TypeOK'
  <2>1. task[u].piece \in Piece /\ received[u] \in Seq(Piece)
    BY DEF TypeOK, TaskStates
  <2>2. Append(received[u], task[u].piece) \in Seq(Piece)
    BY <2>1
  <2>3. received' \in [Uploads -> Seq(Piece)]
    <3>1. CASE received' = received
      BY <3>1 DEF TypeOK
    <3>2. CASE received' = [received EXCEPT ![u] = Append(@, task[u].piece)]
      BY <2>2, <3>2 DEF TypeOK
    <3> QED
      BY <1>19, <3>1, <3>2 DEF PutPartFails
  <2>4. task' \in [Uploads -> TaskStates]
    BY <1>19, TaskTyped, ErredTyped DEF PutPartFails
  <2> QED
    BY <1>19, <2>3, <2>4 DEF PutPartFails, TypeOK, Faulty
<1>20. ASSUME NEW u \in Uploads, AbortFails(u)
       PROVE  TypeOK'
  <2>1. [task[u] EXCEPT !.pc = "failed"] \in TaskStates
    BY DEF TypeOK, TaskStates
  <2> QED
    BY <1>20, <2>1, TaskTyped DEF AbortFails, TypeOK, backend, Faulty
<1>21. ASSUME NEW u \in Uploads, LoseAnswer(u)
       PROVE  TypeOK'
  <2>1. task' \in [Uploads -> TaskStates]
    BY <1>21, TaskTyped, ErredTyped DEF LoseAnswer
  <2> QED
    BY <1>21, <2>1 DEF LoseAnswer, TypeOK, backend, Faulty
<1>22. ASSUME NEW u \in Uploads, AssembleUnknown(u)
       PROVE  TypeOK'
  <2>1. call[u].parts \in Seq(Piece)
    BY DEF TypeOK, CallStates
  <2>2. session' \in [Uploads -> {"none", "open", "completed", "aborted"}]
    BY <1>22 DEF AssembleUnknown, TypeOK
  <2> QED
    BY <1>22, <2>1, <2>2, CallTyped, StoreTyped DEF AssembleUnknown, TypeOK, Faulty
<1>23. ASSUME NEW u \in Uploads, CopyFails(u)
       PROVE  TypeOK'
  <2>1. temp' \in [Uploads -> Seq(Piece)]
    BY <1>23 DEF CopyFails, TypeOK
  <2> QED
    BY <1>23, <2>1, CallTyped DEF CopyFails, TypeOK, Faulty
<1>24. ASSUME NEW u \in Uploads, PersistFails(u)
       PROVE  TypeOK'
  BY <1>24, CallTyped DEF PersistFails, TypeOK, backend, Faulty
<1>25. ASSUME NEW u \in Uploads, DropCall(u)
       PROVE  TypeOK'
  BY <1>25, CallTyped DEF DropCall, TypeOK, backend, Faulty
<1>26. CASE SpawnUploads
  BY <1>26 DEF SpawnUploads, TypeOK, Phases, backend
<1>27. CASE NoticeFailure
  <2>1. task' \in [Uploads -> TaskStates]
    BY <1>27, DropTyped DEF NoticeFailure
  <2> QED
    BY <1>27, <2>1 DEF NoticeFailure, TypeOK, Phases, backend, Faulty
<1>28. CASE JoinUploads
  BY <1>28 DEF JoinUploads, TypeOK, Phases, backend
<1>29. CASE Finalize
  BY <1>29 DEF Finalize, TypeOK, Phases, backend, Faulty
<1>30. CASE Pin
  BY <1>30 DEF Pin, TypeOK, Phases, backend
<1>31. CASE FinalizeFails
  BY <1>31 DEF FinalizeFails, TypeOK, Phases, backend, Faulty
<1>32. CASE PushFails
  <2>1. task' \in [Uploads -> TaskStates]
    BY <1>32, DropTyped DEF PushFails
  <2> QED
    BY <1>32, <2>1 DEF PushFails, TypeOK, Phases, backend, Faulty
<1>33. CASE UNCHANGED vars
  BY <1>33 DEF TypeOK, vars, backend
<1> QED
  BY <1>1, <1>2, <1>3, <1>4, <1>5, <1>6, <1>7, <1>8, <1>9, <1>10, <1>11, <1>12, <1>13,
     <1>14, <1>15, <1>16, <1>17, <1>18, <1>19, <1>20, <1>21, <1>22, <1>23, <1>24,
     <1>25, <1>26, <1>27, <1>28, <1>29, <1>30, <1>31, <1>32, <1>33
  DEF Next, TaskStep, ServerStep, Fault, PushStep

-----------------------------------------------------------------------------
(* The pieces at hand *)

\* A step of one upload leaves the task, the request and the temporary file of
\* the others alone.
LEMMA OneUpload ==
  ASSUME TypeOK, NEW u \in Uploads, NEW v \in Uploads \ {u},
         TaskStep(u) \/ ServerStep(u) \/ Fault(u)
  PROVE  task'[v] = task[v] /\ call'[v] = call[v] /\ temp'[v] = temp[v]
<1>1. CASE TaskStep(u)
  BY <1>1 DEF TypeOK, TaskStep, TaskGoes, Answers, backend, Acquire, ReadPart, ReadEnd,
     TooManyParts, PutPart, SendComplete, AbortUpload, ReceiveAnswer
<1>2. CASE ServerStep(u)
  BY <1>2 DEF TypeOK, ServerStep, TaskGoes, Answers, backend, CreateUpload, Assemble,
     AssembleRejected, CopyChunk, CopyEnd, RenameFile, CopyBreaks, Persist, CleanUpObject
<1>3. CASE Fault(u)
  BY <1>3 DEF TypeOK, Fault, TaskGoes, Answers, backend, ReadFails, PutPartFails, AbortFails,
     LoseAnswer, AssembleUnknown, CopyFails, PersistFails, DropCall
<1> QED
  BY <1>1, <1>2, <1>3

\* Its own pieces stay in order at a step of the task itself.
LEMMA TaskPieces ==
  ASSUME PushInv, NEW u \in Uploads, TaskStep(u), job' = job
  PROVE  PiecesInOrder(u)'
<1> USE DEF PushInv, Size
<1>0. task[u] \in TaskStates /\ call[u] \in CallStates /\ temp[u] \in Seq(Piece) /\ PiecesInOrder(u)
  BY DEF TypeOK
<1>1. CASE Acquire(u)
  <2>1. task'[u].pc \in {"read", "answer"} /\ task'[u].parts = <<>> /\ task'[u].at = 0
    BY <1>0, <1>1 DEF Acquire, TaskGoes, TaskAt, TypeOK, TaskStates, PiecesInOrder
  <2>2. temp'[u] = <<>> /\ call'[u].pc \in {"none", "copy"}
    BY <1>0, <1>1 DEF Acquire, Answers, TaskAt, TypeOK, backend, PiecesInOrder, NoCall, CallStates
  <2> QED
    BY <2>1, <2>2 DEF PiecesInOrder, Whole
<1>2. CASE ReadPart(u)
  <2>1. /\ task'[u].pc = "part" /\ task'[u].parts = task[u].parts
        /\ task'[u].piece.from = task[u].at /\ task'[u].piece.to = task'[u].at
        /\ call'[u] = call[u] /\ temp'[u] = temp[u]
    BY <1>0, <1>2 DEF ReadPart, TaskGoes, TypeOK, TaskStates, backend
  <2>2. Whole(task[u].parts, task[u].at)
    BY <1>0, <1>2 DEF ReadPart, TaskAt, PiecesInOrder
  <2> QED
    BY <1>0, <2>1, <2>2 DEF PiecesInOrder, Length
<1>3. CASE ReadEnd(u)
  <2>1. /\ task'[u].pc \in {"complete", "abort", "failed"} /\ task'[u].parts = task[u].parts
        /\ call'[u] = call[u] /\ temp'[u] = temp[u]
    BY <1>0, <1>3 DEF ReadEnd, Erred, TaskGoes, TypeOK, TaskStates, backend
  <2>2. Whole(task[u].parts, Length(u))
    BY <1>0, <1>3 DEF ReadEnd, TaskAt, PiecesInOrder
  <2> QED
    BY <1>0, <2>1, <2>2 DEF PiecesInOrder, Length
<1>4. CASE PutPart(u)
  <2>1. task[u].piece \in Piece /\ task[u].parts \in Seq(Piece)
    BY <1>0 DEF TaskStates
  <2>2. /\ task'[u].pc = "read" /\ task'[u].parts = Append(task[u].parts, task[u].piece)
        /\ task'[u].at = task[u].at /\ call'[u] = call[u] /\ temp'[u] = temp[u]
    BY <1>0, <1>4 DEF PutPart, TaskGoes, TypeOK, TaskStates
  <2>3. Whole(Append(task[u].parts, task[u].piece), task[u].at)
    BY <1>0, <1>4, <2>1, WholeAppend DEF PutPart, TaskAt, PiecesInOrder
  <2> QED
    BY <1>0, <2>2, <2>3 DEF PiecesInOrder, Length
<1>5. CASE SendComplete(u)
  <2>1. /\ task'[u].pc = "answer" /\ temp'[u] = temp[u]
        /\ call'[u] = [pc |-> "assemble", parts |-> task[u].parts]
    BY <1>0, <1>5 DEF SendComplete, TaskGoes, TypeOK, TaskStates, backend
  <2>2. Whole(task[u].parts, Length(u))
    BY <1>0, <1>5 DEF SendComplete, TaskAt, PiecesInOrder
  <2> QED
    BY <2>1, <2>2 DEF PiecesInOrder, Length
<1>6. CASE TooManyParts(u) \/ AbortUpload(u) \/ ReceiveAnswer(u)
  <2>1. /\ task'[u].pc \in {"abort", "failed", "ended"}
        /\ call'[u] = call[u] /\ temp'[u] = temp[u]
    <3>1. CASE TooManyParts(u)
      BY <1>0, <3>1 DEF TooManyParts, Erred, TaskGoes, TypeOK, TaskStates, backend
    <3>2. CASE AbortUpload(u)
      BY <1>0, <3>2 DEF AbortUpload, TaskGoes, TypeOK, TaskStates
    <3>3. CASE ReceiveAnswer(u)
      BY <1>0, <3>3 DEF ReceiveAnswer, Erred, TaskGoes, TypeOK, TaskStates, backend
    <3> QED
      BY <1>6, <3>1, <3>2, <3>3
  <2> QED
    BY <1>0, <2>1 DEF PiecesInOrder, Length
<1> QED
  BY <1>1, <1>2, <1>3, <1>4, <1>5, <1>6 DEF TaskStep

\* At a step of the server for it.
LEMMA ServerPieces ==
  ASSUME PushInv, NEW u \in Uploads, ServerStep(u), job' = job
  PROVE  PiecesInOrder(u)'
<1> USE DEF PushInv, Size
<1>0. task[u] \in TaskStates /\ call[u] \in CallStates /\ temp[u] \in Seq(Piece) /\ PiecesInOrder(u)
  BY DEF TypeOK
<1>1. CASE CreateUpload(u)
  <2>1. task'[u] = task[u] /\ call'[u] = call[u] /\ temp'[u] = temp[u]
    BY <1>1 DEF CreateUpload
  <2> QED
    BY <1>0, <2>1 DEF PiecesInOrder, Length
<1>2. CASE CopyChunk(u)
  <2>1. PICK end \in task[u].at + 1 .. Length(u) :
          /\ temp' = [temp EXCEPT ![u] = Append(@, [from |-> task[u].at, to |-> end])]
          /\ TaskGoes(u, [task[u] EXCEPT !.at = end])
    BY <1>2 DEF CopyChunk
  <2>2. /\ task'[u].pc = "answer" /\ task'[u].at = end /\ call'[u] = call[u]
        /\ temp'[u] = Append(temp[u], [from |-> task[u].at, to |-> end])
        /\ call[u].pc = "copy"
    BY <1>0, <1>2, <2>1 DEF CopyChunk, TaskGoes, TaskAt, TypeOK, TaskStates
  <2>3. [from |-> task[u].at, to |-> end] \in Piece
    BY <1>0, <2>1, LengthNat DEF Piece, TaskStates
  <2>4. Whole(temp[u], task[u].at)
    BY <1>0, <1>2 DEF CopyChunk, TaskAt, PiecesInOrder
  <2>5. Whole(Append(temp[u], [from |-> task[u].at, to |-> end]), end)
    BY <1>0, <2>3, <2>4, WholeAppend
  <2> QED
    BY <2>2, <2>5 DEF PiecesInOrder, Length
<1>3. CASE CopyEnd(u)
  <2>1. /\ task'[u] = task[u] /\ task[u].pc = "answer" /\ temp'[u] = temp[u]
        /\ call'[u].pc = "rename"
    BY <1>0, <1>3 DEF CopyEnd, Answers, TaskAt, TypeOK, CallStates, backend
  <2>2. Whole(temp[u], Length(u))
    BY <1>0, <1>3 DEF CopyEnd, TaskAt, PiecesInOrder
  <2> QED
    BY <1>0, <2>1, <2>2 DEF PiecesInOrder, Length
<1>4. CASE \/ Assemble(u) \/ AssembleRejected(u) \/ RenameFile(u)
           \/ CopyBreaks(u) \/ Persist(u) \/ CleanUpObject(u)
  <2>1. /\ task'[u] = task[u] /\ task[u].pc # "waiting"
        /\ call'[u].pc \in {"persist", "ok", "error"}
    BY <1>0, <1>4 DEF Assemble, AssembleRejected, RenameFile, CopyBreaks, Persist,
       CleanUpObject, Answers, TypeOK, CallStates, PiecesInOrder, NoCall
  <2> QED
    BY <1>0, <2>1 DEF PiecesInOrder, Length
<1> QED
  BY <1>1, <1>2, <1>3, <1>4 DEF ServerStep

\* At a fault.
LEMMA FaultPieces ==
  ASSUME PushInv, NEW u \in Uploads, Fault(u), job' = job
  PROVE  PiecesInOrder(u)'
<1> USE DEF PushInv, Size
<1>0. task[u] \in TaskStates /\ call[u] \in CallStates /\ temp[u] \in Seq(Piece) /\ PiecesInOrder(u)
  BY DEF TypeOK
<1>1. CASE ReadFails(u) \/ PutPartFails(u) \/ AbortFails(u) \/ LoseAnswer(u)
  <2>1. /\ task'[u].pc \in {"abort", "failed"}
        /\ call'[u] = call[u] /\ temp'[u] = temp[u]
    BY <1>0, <1>1 DEF ReadFails, PutPartFails, AbortFails, LoseAnswer, Erred, TaskGoes,
       TypeOK, TaskStates, backend
  <2> QED
    BY <1>0, <2>1 DEF PiecesInOrder, Length
<1>2. CASE AssembleUnknown(u) \/ CopyFails(u) \/ PersistFails(u) \/ DropCall(u)
  <2>1. /\ task'[u] = task[u] /\ task[u].pc # "waiting"
        /\ call'[u].pc \in {"cleanup", "error"}
    BY <1>0, <1>2 DEF AssembleUnknown, CopyFails, PersistFails, DropCall, InProgress,
       Answers, TypeOK, CallStates, PiecesInOrder, NoCall
  <2> QED
    BY <1>0, <2>1 DEF PiecesInOrder, Length
<1> QED
  BY <1>1, <1>2 DEF Fault

\* Every step keeps the pieces of every upload in order.
LEMMA PiecesStep ==
  ASSUME PushInv, [Next]_vars, NEW v \in Uploads
  PROVE  PiecesInOrder(v)'
<1>. job' = job
  BY JobStays
<1> USE DEF PushInv, Size
<1>0. TypeOK /\ PiecesInOrder(v)
  OBVIOUS
<1>1. ASSUME NEW u \in Uploads, TaskStep(u) \/ ServerStep(u) \/ Fault(u)
      PROVE  PiecesInOrder(v)'
  <2>1. CASE v = u
    BY <1>1, <2>1, TaskPieces, ServerPieces, FaultPieces
  <2>2. CASE v # u
    <3>1. task'[v] = task[v] /\ call'[v] = call[v] /\ temp'[v] = temp[v]
      BY <1>0, <1>1, <2>2, OneUpload
    <3> QED
      BY <1>0, <3>1 DEF PiecesInOrder, Length
  <2> QED
    BY <2>1, <2>2
<1>2. CASE NoticeFailure \/ PushFails
  <2>1. /\ (task'[v] = task[v] /\ task[v].pc \in {"ended", "failed"}) \/ task'[v].pc = "dropped"
        /\ call'[v] = call[v] /\ temp'[v] = temp[v]
    BY <1>0, <1>2 DEF NoticeFailure, PushFails, DropTasks, backend, TypeOK, TaskStates
  <2> QED
    BY <1>0, <2>1 DEF PiecesInOrder, Length
<1>3. CASE SpawnUploads \/ JoinUploads \/ Finalize \/ Pin \/ FinalizeFails \/ UNCHANGED vars
  <2>1. task' = task /\ call' = call /\ temp' = temp
    BY <1>3 DEF SpawnUploads, JoinUploads, Finalize, Pin, FinalizeFails, vars, backend
  <2> QED
    BY <1>0, <2>1 DEF PiecesInOrder, Length
<1> QED
  BY <1>1, <1>2, <1>3 DEF Next, PushStep

-----------------------------------------------------------------------------
(* Whole objects *)

LEMMA WholeStep ==
  ASSUME PushInv, [Next]_vars
  PROVE  WholeObjects'
<1>. job' = job
  BY JobStays
<1> USE DEF PushInv, Size
<1>0. TypeOK /\ WholeObjects
  OBVIOUS
<1>1. ASSUME NEW u \in Uploads, NEW pieces, Whole(pieces, Length(u)), StoreObject(ObjectOf[u], pieces)
      PROVE  WholeObjects'
  <2>1. ObjectOf[u] \in Objects
    BY PushConstants
  <2>2. ASSUME NEW o \in stored'
        PROVE  Whole(content'[o], Size[o])
    <3>1. CASE o = ObjectOf[u]
      BY <1>0, <1>1, <2>1, <3>1 DEF StoreObject, Length, TypeOK
    <3>2. CASE o # ObjectOf[u]
      <4>1. o \in stored /\ o \in Objects /\ content'[o] = content[o]
        BY <1>0, <1>1, <2>1, <2>2, <3>2 DEF StoreObject, TypeOK
      <4> QED
        BY <1>0, <4>1 DEF WholeObjects
    <3> QED
      BY <3>1, <3>2
  <2> QED
    BY <2>2 DEF WholeObjects
<1>2. ASSUME stored' \subseteq stored, content' = content
      PROVE  WholeObjects'
  BY <1>0, <1>2 DEF WholeObjects
<1>3. ASSUME NEW u \in Uploads, Assemble(u) \/ AssembleUnknown(u)
      PROVE  WholeObjects'
  <2>1. Whole(call[u].parts, Length(u)) /\ StoreObject(ObjectOf[u], call[u].parts)
    BY <1>3 DEF Assemble, AssembleUnknown, PiecesInOrder
  <2> QED
    BY <1>1, <2>1
<1>4. ASSUME NEW u \in Uploads, RenameFile(u)
      PROVE  WholeObjects'
  <2>1. Whole(temp[u], Length(u)) /\ StoreObject(ObjectOf[u], temp[u])
    BY <1>4 DEF RenameFile, PiecesInOrder
  <2> QED
    BY <1>1, <2>1
<1>5. ASSUME NEW u \in Uploads, TaskStep(u)
      PROVE  WholeObjects'
  BY <1>2, <1>5 DEF TaskStep, backend, Acquire, ReadPart, ReadEnd, TooManyParts, PutPart,
     SendComplete, AbortUpload, ReceiveAnswer
<1>6. ASSUME NEW u \in Uploads, ServerStep(u)
      PROVE  WholeObjects'
  BY <1>2, <1>3, <1>4, <1>6 DEF ServerStep, backend, CreateUpload, AssembleRejected, CopyChunk,
     CopyEnd, CopyBreaks, Persist, CleanUpObject
<1>7. ASSUME NEW u \in Uploads, Fault(u)
      PROVE  WholeObjects'
  BY <1>2, <1>3, <1>7 DEF Fault, backend, ReadFails, PutPartFails, AbortFails, LoseAnswer,
     CopyFails, PersistFails, DropCall
<1>8. CASE PushStep \/ FinalizeFails \/ PushFails \/ UNCHANGED vars
  BY <1>2, <1>8 DEF PushStep, SpawnUploads, NoticeFailure, JoinUploads, Finalize, Pin,
     FinalizeFails, PushFails, backend, vars
<1> QED
  BY <1>5, <1>6, <1>7, <1>8 DEF Next

-----------------------------------------------------------------------------
(* The end of the uploads *)

\* A task that has ended takes no step, and its request on the server neither.
LEMMA EndedStays ==
  ASSUME PushInv, NEW u \in Uploads, task[u].pc = "ended", [Next]_vars
  PROVE  task'[u] = task[u] /\ call'[u] = call[u]
<1> USE DEF PushInv
<1>0. TypeOK /\ call[u].pc = "ok"
  BY DEF Joined
<1>1. ASSUME NEW v \in Uploads, TaskStep(v) \/ ServerStep(v) \/ Fault(v)
      PROVE  task'[u] = task[u] /\ call'[u] = call[u]
  <2>1. CASE v # u
    BY <1>0, <1>1, <2>1, OneUpload
  <2>2. CASE v = u
    <3>1. ~TaskStep(u)
      BY DEF TaskStep, TaskAt, Acquire, ReadPart, ReadEnd, TooManyParts, PutPart, SendComplete,
         AbortUpload, ReceiveAnswer
    <3>2. CASE ServerStep(u)
      BY <1>0, <3>2 DEF ServerStep, CreateUpload, Assemble, AssembleRejected, CopyChunk, CopyEnd,
         RenameFile, CopyBreaks, Persist, CleanUpObject
    <3>3. ~Fault(u)
      BY <1>0 DEF Fault, TaskAt, ReadFails, PutPartFails, AbortFails, LoseAnswer, AssembleUnknown,
         CopyFails, PersistFails, DropCall, InProgress
    <3> QED
      BY <1>1, <2>2, <3>1, <3>2, <3>3
  <2> QED
    BY <2>1, <2>2
<1>2. CASE NoticeFailure \/ PushFails
  BY <1>0, <1>2 DEF NoticeFailure, PushFails, DropTasks, TypeOK
<1>3. CASE SpawnUploads \/ JoinUploads \/ Finalize \/ Pin \/ FinalizeFails \/ UNCHANGED vars
  BY <1>3 DEF SpawnUploads, JoinUploads, Finalize, Pin, FinalizeFails, vars
<1> QED
  BY <1>1, <1>2, <1>3 DEF Next, PushStep

\* Only an answer ends a task.
LEMMA NewlyEnded ==
  ASSUME PushInv, NEW u \in Uploads, task[u].pc # "ended", [Next]_vars
  PROVE  task'[u].pc = "ended" => call'[u].pc = "ok"
<1> USE DEF PushInv
<1>0. TypeOK /\ task[u] \in TaskStates
  BY DEF TypeOK
<1>1. ASSUME NEW v \in Uploads, TaskStep(v) \/ ServerStep(v) \/ Fault(v)
      PROVE  task'[u].pc = "ended" => call'[u].pc = "ok"
  <2>1. CASE v # u
    BY <1>0, <1>1, <2>1, OneUpload
  <2>2. CASE v = u
    <3>1. CASE ReceiveAnswer(u)
      <4>1. CASE call[u].pc = "ok"
        BY <3>1, <4>1 DEF ReceiveAnswer
      <4>2. CASE call[u].pc # "ok"
        <5>1. TaskGoes(u, Erred(u))
          BY <3>1, <4>2 DEF ReceiveAnswer
        <5>2. task'[u] = Erred(u)
          BY <1>0, <5>1 DEF TaskGoes, TypeOK
        <5> QED
          BY <1>0, <5>2, ErredTyped
      <4> QED
        BY <4>1, <4>2
    <3>2. CASE TaskStep(u) /\ ~ReceiveAnswer(u)
      <4>1. CASE Acquire(u) \/ ReadPart(u) \/ PutPart(u) \/ SendComplete(u) \/ AbortUpload(u)
        <5>1. CASE Acquire(u)
          BY <1>0, <5>1 DEF TaskGoes, TypeOK, TaskStates, Acquire
        <5>2. CASE ReadPart(u)
          BY <1>0, <5>2 DEF TaskGoes, TypeOK, TaskStates, ReadPart
        <5>3. CASE PutPart(u)
          BY <1>0, <5>3 DEF TaskGoes, TypeOK, TaskStates, PutPart
        <5>4. CASE SendComplete(u)
          BY <1>0, <5>4 DEF TaskGoes, TypeOK, TaskStates, SendComplete
        <5>5. CASE AbortUpload(u)
          BY <1>0, <5>5 DEF TaskGoes, TypeOK, TaskStates, AbortUpload
        <5> QED
          BY <4>1, <5>1, <5>2, <5>3, <5>4, <5>5
      <4>2. CASE ReadEnd(u)
        <5>1. task'[u] = Erred(u) \/ task'[u] = [task[u] EXCEPT !.pc = "complete"]
          BY <1>0, <4>2 DEF TaskGoes, TypeOK, ReadEnd
        <5> QED
          BY <1>0, <5>1, ErredTyped DEF TaskStates
      <4>3. CASE TooManyParts(u)
        <5>1. task'[u] = Erred(u)
          BY <1>0, <4>3 DEF TaskGoes, TypeOK, TooManyParts
        <5>2. task'[u].pc = Erred(u).pc
          BY <1>0, <5>1, ErredTyped DEF TaskStates
        <5> QED
          BY <1>0, <5>2, ErredTyped
      <4> QED
        BY <3>2, <4>1, <4>2, <4>3 DEF TaskStep
    <3>3. CASE ServerStep(u)
      <4>1. CASE CopyChunk(u)
        <5>1. PICK end : TaskGoes(u, [task[u] EXCEPT !.at = end])
          BY <4>1 DEF CopyChunk
        <5>2. task'[u] = [task[u] EXCEPT !.at = end]
          BY <1>0, <5>1 DEF TaskGoes, TypeOK
        <5>3. task'[u].pc = task[u].pc
          BY <1>0, <5>2 DEF TaskStates
        <5> QED
          BY <5>3
      <4>2. CASE ~CopyChunk(u)
        <5>1. task' = task
          BY <3>3, <4>2 DEF ServerStep, CreateUpload, Assemble, AssembleRejected, CopyEnd,
             RenameFile, CopyBreaks, Persist, CleanUpObject
        <5> QED
          BY <5>1
      <4> QED
        BY <4>1, <4>2
    <3>4. CASE Fault(u)
      <4>1. CASE ReadFails(u) \/ PutPartFails(u) \/ LoseAnswer(u)
        <5>1. TaskGoes(u, Erred(u))
          BY <4>1 DEF ReadFails, PutPartFails, LoseAnswer
        <5>2. task'[u] = Erred(u)
          BY <1>0, <5>1 DEF TaskGoes, TypeOK
        <5> QED
          BY <1>0, <5>2, ErredTyped
      <4>2. CASE AbortFails(u)
        <5>1. TaskGoes(u, [task[u] EXCEPT !.pc = "failed"])
          BY <4>2 DEF AbortFails
        <5>2. task'[u].pc = "failed"
          BY <1>0, <5>1 DEF TaskGoes, TypeOK, TaskStates
        <5> QED
          BY <5>2
      <4>3. CASE AssembleUnknown(u) \/ CopyFails(u) \/ PersistFails(u) \/ DropCall(u)
        <5>1. task' = task
          BY <4>3 DEF AssembleUnknown, CopyFails, PersistFails, DropCall
        <5> QED
          BY <5>1
      <4> QED
        BY <3>4, <4>1, <4>2, <4>3 DEF Fault
    <3> QED
      BY <1>1, <2>2, <3>1, <3>2, <3>3, <3>4
  <2> QED
    BY <2>1, <2>2
<1>2. CASE NoticeFailure \/ PushFails
  <2>1. task'[u] = task[u] \/ task'[u] = [task[u] EXCEPT !.pc = "dropped"]
    BY <1>0, <1>2 DEF NoticeFailure, PushFails, DropTasks
  <2> QED
    BY <1>0, <2>1 DEF TaskStates
<1>3. CASE SpawnUploads \/ JoinUploads \/ Finalize \/ Pin \/ FinalizeFails \/ UNCHANGED vars
  BY <1>3 DEF SpawnUploads, JoinUploads, Finalize, Pin, FinalizeFails, vars
<1> QED
  BY <1>1, <1>2, <1>3 DEF Next, PushStep

\* A step of one upload leaves the phase of the push alone.
LEMMA UploadKeepsPhase ==
  ASSUME NEW u \in Uploads, TaskStep(u) \/ ServerStep(u) \/ Fault(u)
  PROVE  phase' = phase /\ published' = published
BY DEF TaskStep, ServerStep, Fault, Acquire, ReadPart, ReadEnd, TooManyParts, PutPart,
   SendComplete, AbortUpload, ReceiveAnswer, CreateUpload, Assemble, AssembleRejected, CopyChunk,
   CopyEnd, RenameFile, CopyBreaks, Persist, CleanUpObject, ReadFails, PutPartFails, AbortFails,
   LoseAnswer, AssembleUnknown, CopyFails, PersistFails, DropCall

LEMMA JoinedStep ==
  ASSUME PushInv, [Next]_vars
  PROVE  Joined'
<1> USE DEF PushInv
<1>1. \A u \in Uploads : task'[u].pc = "ended" => call'[u].pc = "ok"
  <2> TAKE u \in Uploads
  <2>1. CASE task[u].pc = "ended"
    BY <2>1, EndedStays DEF Joined
  <2>2. CASE task[u].pc # "ended"
    BY <2>2, NewlyEnded
  <2> QED
    BY <2>1, <2>2
<1>2. ASSUME \A u \in Uploads : task[u].pc = "ended"
      PROVE  \A u \in Uploads : task'[u].pc = "ended"
  BY <1>2, EndedStays
<1>3. ASSUME NEW u \in Uploads, TaskStep(u) \/ ServerStep(u) \/ Fault(u)
      PROVE  phase' = phase /\ published' = published
  BY <1>3, UploadKeepsPhase
<1>4. \/ phase' = phase /\ published' = published
      \/ JoinUploads
      \/ phase = "finalize" /\ phase' \in {"pin", "done", "failed"} /\ (published' => phase' # "finalize")
      \/ phase = "pin" /\ phase' = "done" /\ published' = published
      \/ phase' \in {"upload", "failed"} /\ published' = published /\ phase \in {"plan", "upload", "pin"}
            /\ (phase' = "upload" => phase = "plan")
  BY <1>3 DEF Next, PushStep, SpawnUploads, NoticeFailure, Finalize, Pin, FinalizeFails, PushFails, vars
<1>5. phase' \in {"finalize", "pin", "done"} \/ published' => \A u \in Uploads : task'[u].pc = "ended"
  BY <1>2, <1>4 DEF Joined, JoinUploads
<1>6. published' => phase' \in {"pin", "done", "failed"}
  BY <1>4 DEF Joined, JoinUploads
<1> QED
  BY <1>1, <1>5, <1>6 DEF Joined

-----------------------------------------------------------------------------
(* What an upload leaves behind *)

\* A step of one upload leaves the multipart upload of the others alone.
LEMMA OneSession ==
  ASSUME TypeOK, NEW u \in Uploads, NEW v \in Uploads \ {u},
         TaskStep(u) \/ ServerStep(u) \/ Fault(u)
  PROVE  session'[v] = session[v]
BY DEF TypeOK, TaskStep, ServerStep, Fault, backend, Acquire, ReadPart, ReadEnd, TooManyParts,
   PutPart, SendComplete, AbortUpload, ReceiveAnswer, CreateUpload, Assemble, AssembleRejected,
   CopyChunk, CopyEnd, RenameFile, CopyBreaks, Persist, CleanUpObject, ReadFails, PutPartFails,
   AbortFails, LoseAnswer, AssembleUnknown, CopyFails, PersistFails, DropCall

\* No step takes a fault back.
LEMMA FaultsStay == TypeOK /\ [Next]_vars => faults' \in Nat /\ faults' >= faults
<1> SUFFICES ASSUME TypeOK, [Next]_vars
             PROVE  faults' = faults \/ faults' = faults + 1
  BY DEF TypeOK
<1>1. ASSUME NEW u \in Uploads, TaskStep(u) \/ ServerStep(u)
      PROVE  faults' = faults
  BY <1>1 DEF TaskStep, ServerStep, Acquire, ReadPart, ReadEnd, TooManyParts, PutPart, SendComplete,
     AbortUpload, ReceiveAnswer, CreateUpload, Assemble, AssembleRejected, CopyChunk, CopyEnd,
     RenameFile, CopyBreaks, Persist, CleanUpObject
<1>2. ASSUME NEW u \in Uploads, Fault(u)
      PROVE  faults' = faults + 1
  BY <1>2 DEF Fault, Faulty, ReadFails, PutPartFails, AbortFails, LoseAnswer, AssembleUnknown,
     CopyFails, PersistFails, DropCall
<1>3. CASE PushStep \/ UNCHANGED vars
  BY <1>3 DEF PushStep, SpawnUploads, NoticeFailure, JoinUploads, Finalize, Pin, vars
<1>4. CASE FinalizeFails \/ PushFails
  BY <1>4 DEF FinalizeFails, PushFails, Faulty
<1> QED
  BY <1>1, <1>2, <1>3, <1>4 DEF Next

\* A step of the task itself leaves nothing that it may not.
LEMMA TaskLeftovers ==
  ASSUME PushInv, NEW u \in Uploads, TaskStep(u), job' = job
  PROVE  Leftovers(u)'
<1> USE DEF PushInv, Direct
<1>0. /\ TypeOK /\ task[u] \in TaskStates /\ call[u] \in CallStates
      /\ PiecesInOrder(u) /\ Leftovers(u) /\ phase' = phase
  BY UploadKeepsPhase DEF TypeOK
<1>1. CASE Acquire(u)
  <2>1. /\ task'[u].pc = IF Direct THEN "read" ELSE "answer"
        /\ task[u].pc = "waiting" /\ phase = "upload"
    BY <1>0, <1>1 DEF Acquire, TaskGoes, TaskAt, TypeOK, TaskStates
  <2>2. /\ call[u].pc = "none" /\ call'[u].pc = IF Direct THEN "none" ELSE "copy"
        /\ temp'[u] = temp[u] /\ session'[u] = session[u]
    BY <1>0, <1>1, <2>1 DEF Acquire, Answers, TypeOK, backend, PiecesInOrder, NoCall, CallStates
  <2> QED
    BY <1>0, <2>1, <2>2 DEF Leftovers
<1>2. CASE ReadPart(u) \/ PutPart(u)
  <2>1. /\ task[u].pc \in {"read", "part"} /\ task'[u].pc \in {"read", "part"} /\ phase = "upload"
        /\ call'[u] = call[u] /\ temp'[u] = temp[u] /\ session'[u] = session[u]
    <3>1. CASE ReadPart(u)
      BY <1>0, <3>1 DEF ReadPart, TaskGoes, TaskAt, TypeOK, TaskStates, backend
    <3>2. CASE PutPart(u)
      BY <1>0, <3>2 DEF PutPart, TaskGoes, TaskAt, TypeOK, TaskStates
    <3> QED
      BY <1>2, <3>1, <3>2
  <2> QED
    BY <1>0, <2>1 DEF Leftovers
<1>3. CASE ReadEnd(u) \/ TooManyParts(u)
  <2>1. /\ task[u].pc = "read" /\ phase = "upload"
        /\ call'[u] = call[u] /\ temp'[u] = temp[u] /\ session'[u] = session[u]
    BY <1>3 DEF ReadEnd, TooManyParts, TaskAt, backend
  <2>2. task'[u] = Erred(u) \/ task'[u] = [task[u] EXCEPT !.pc = "complete"]
    BY <1>0, <1>3 DEF ReadEnd, TooManyParts, TaskGoes, TypeOK
  <2>3. Direct
    BY <1>0, <2>1 DEF Leftovers
  <2>4. task'[u].pc \in {"abort", "complete"}
    BY <1>0, <2>2, <2>3 DEF Erred, TaskStates
  <2> QED
    BY <1>0, <2>1, <2>3, <2>4 DEF Leftovers
<1>4. CASE SendComplete(u)
  <2>1. /\ task[u].pc = "complete" /\ task'[u].pc = "answer" /\ call'[u].pc = "assemble"
        /\ phase = "upload" /\ temp'[u] = temp[u] /\ session'[u] = session[u]
    BY <1>0, <1>4 DEF SendComplete, TaskGoes, TaskAt, TypeOK, TaskStates, backend
  <2> QED
    BY <1>0, <2>1 DEF Leftovers
<1>5. CASE AbortUpload(u)
  <2>1. /\ task[u].pc = "abort" /\ task'[u].pc = "failed" /\ phase = "upload"
        /\ call'[u] = call[u] /\ temp'[u] = temp[u]
        /\ session'[u] = IF session[u] = "open" THEN "aborted" ELSE session[u]
    BY <1>0, <1>5 DEF AbortUpload, TaskGoes, TaskAt, TypeOK, TaskStates
  <2> QED
    BY <1>0, <2>1 DEF Leftovers
<1>6. CASE ReceiveAnswer(u)
  <2>1. /\ task[u].pc = "answer" /\ phase = "upload"
        /\ call'[u] = call[u] /\ temp'[u] = temp[u] /\ session'[u] = session[u]
    BY <1>6 DEF ReceiveAnswer, TaskAt, backend
  <2>2. task'[u] = Erred(u) \/ task'[u] = [task[u] EXCEPT !.pc = "ended"]
    BY <1>0, <1>6 DEF ReceiveAnswer, TaskGoes, TypeOK
  <2>3. task'[u].pc \in {"ended", IF Direct THEN "abort" ELSE "failed"}
    BY <1>0, <2>2 DEF Erred, TaskStates
  <2> QED
    BY <1>0, <2>1, <2>3 DEF Leftovers
<1> QED
  BY <1>1, <1>2, <1>3, <1>4, <1>5, <1>6 DEF TaskStep

\* Nor does a step of the server for it.
LEMMA ServerLeftovers ==
  ASSUME PushInv, NEW u \in Uploads, ServerStep(u), job' = job
  PROVE  Leftovers(u)'
<1> USE DEF PushInv, Direct
<1>0. /\ TypeOK /\ task[u] \in TaskStates /\ call[u] \in CallStates
      /\ PiecesInOrder(u) /\ Leftovers(u) /\ phase' = phase
  BY UploadKeepsPhase DEF TypeOK
<1>1. CASE CreateUpload(u)
  <2>1. /\ phase = "plan" /\ Direct /\ session[u] = "none"
        /\ task' = task /\ call' = call /\ temp' = temp /\ faults' = faults
    BY <1>1 DEF CreateUpload
  <2>2. call[u].pc \notin {"persist", "cleanup", "ok"} /\ task[u].pc = "waiting"
    BY <1>0, <2>1 DEF Leftovers
  <2> QED
    BY <1>0, <2>1, <2>2 DEF Leftovers
<1>2. CASE Assemble(u)
  <2>1. /\ call[u].pc = "assemble" /\ call'[u].pc = "persist" /\ session'[u] = "completed"
        /\ task' = task /\ temp' = temp /\ faults' = faults
    BY <1>0, <1>2 DEF Assemble, Answers, TypeOK, CallStates
  <2> QED
    BY <1>0, <2>1 DEF Leftovers
<1>3. CASE AssembleRejected(u) \/ CleanUpObject(u)
  <2>1. /\ call'[u].pc = "error" /\ session' = session
        /\ task' = task /\ temp' = temp /\ faults' = faults
    BY <1>0, <1>3 DEF AssembleRejected, CleanUpObject, Answers, TypeOK, CallStates, backend
  <2> QED
    BY <1>0, <2>1 DEF Leftovers
<1>4. CASE CopyChunk(u)
  <2>1. /\ call[u].pc = "copy" /\ call' = call /\ session' = session /\ faults' = faults
    BY <1>4 DEF CopyChunk
  <2>2. task'[u].pc = task[u].pc
    BY <1>0, <1>4 DEF CopyChunk, TaskGoes, TypeOK, TaskStates
  <2> QED
    BY <1>0, <2>1, <2>2 DEF Leftovers
<1>5. CASE CopyEnd(u)
  <2>1. /\ call[u].pc = "copy" /\ call'[u].pc = "rename" /\ session' = session
        /\ task' = task /\ temp' = temp /\ faults' = faults
    BY <1>0, <1>5 DEF CopyEnd, Answers, TypeOK, CallStates, backend
  <2> QED
    BY <1>0, <2>1 DEF Leftovers
<1>6. CASE RenameFile(u) \/ CopyBreaks(u)
  <2>1. /\ call[u].pc \in {"copy", "rename"} /\ call'[u].pc \in {"persist", "error"}
        /\ temp'[u] = <<>> /\ session' = session /\ task' = task /\ faults' = faults
    BY <1>0, <1>6 DEF RenameFile, CopyBreaks, Answers, TypeOK, CallStates
  <2> QED
    BY <1>0, <2>1 DEF Leftovers
<1>7. CASE Persist(u)
  <2>1. /\ call[u].pc = "persist" /\ call'[u].pc = "ok" /\ session' = session
        /\ task' = task /\ temp' = temp /\ faults' = faults
    BY <1>0, <1>7 DEF Persist, Answers, TypeOK, CallStates, backend
  <2> QED
    BY <1>0, <2>1 DEF Leftovers
<1> QED
  BY <1>1, <1>2, <1>3, <1>4, <1>5, <1>6, <1>7 DEF ServerStep

\* A fault may leave an open upload or a temporary file, but only behind a request
\* that ends in an error.
LEMMA FaultLeftovers ==
  ASSUME PushInv, NEW u \in Uploads, Fault(u), job' = job
  PROVE  Leftovers(u)'
<1> USE DEF PushInv, Direct
<1>0. /\ TypeOK /\ task[u] \in TaskStates /\ call[u] \in CallStates
      /\ PiecesInOrder(u) /\ Leftovers(u) /\ phase' = phase
  BY UploadKeepsPhase DEF TypeOK
<1>1. faults' # 0
  BY <1>0 DEF Fault, Faulty, TypeOK, ReadFails, PutPartFails, AbortFails, LoseAnswer,
     AssembleUnknown, CopyFails, PersistFails, DropCall
<1>2. CASE ReadFails(u) \/ PutPartFails(u) \/ LoseAnswer(u)
  <2>1. /\ phase = "upload" /\ call' = call /\ temp' = temp /\ session' = session
    BY <1>2 DEF ReadFails, PutPartFails, LoseAnswer, TaskAt, backend
  <2>2. task'[u] = Erred(u)
    BY <1>0, <1>2 DEF ReadFails, PutPartFails, LoseAnswer, TaskGoes, TypeOK
  <2>3. task'[u].pc = IF Direct THEN "abort" ELSE "failed"
    BY <1>0, <2>2 DEF Erred, TaskStates
  <2> QED
    BY <1>0, <1>1, <2>1, <2>3 DEF Leftovers
<1>3. CASE AbortFails(u)
  <2>1. /\ phase = "upload" /\ call' = call /\ temp' = temp /\ session' = session
        /\ task'[u].pc = "failed"
    BY <1>0, <1>3 DEF AbortFails, TaskAt, TaskGoes, TypeOK, TaskStates, backend
  <2> QED
    BY <1>0, <1>1, <2>1 DEF Leftovers
<1>4. CASE AssembleUnknown(u)
  <2>1. /\ call[u].pc = "assemble" /\ call'[u].pc = "error" /\ task' = task /\ temp' = temp
        /\ session'[u] = "completed"
    BY <1>0, <1>4 DEF AssembleUnknown, Answers, TypeOK, CallStates
  <2> QED
    BY <1>0, <1>1, <2>1 DEF Leftovers
<1>5. CASE CopyFails(u)
  <2>1. /\ call'[u].pc = "error" /\ task' = task /\ temp'[u] = <<>> /\ session' = session
    BY <1>0, <1>5 DEF CopyFails, Answers, TypeOK, CallStates
  <2> QED
    BY <1>0, <1>1, <2>1 DEF Leftovers
<1>6. CASE PersistFails(u) \/ DropCall(u)
  <2>1. /\ call'[u].pc = "error" \/ (call[u].pc = "persist" /\ call'[u].pc = "cleanup")
        /\ task' = task /\ temp' = temp /\ session' = session
    BY <1>0, <1>6 DEF PersistFails, DropCall, Answers, TypeOK, CallStates, backend
  <2> QED
    BY <1>0, <1>1, <2>1 DEF Leftovers
<1> QED
  BY <1>2, <1>3, <1>4, <1>5, <1>6 DEF Fault

LEMMA LeftoversStep ==
  ASSUME PushInv, [Next]_vars, NEW u \in Uploads
  PROVE  Leftovers(u)'
<1> USE DEF PushInv
<1>0. /\ TypeOK /\ task[u] \in TaskStates /\ Leftovers(u) /\ job' = job
      /\ faults' \in Nat /\ faults' >= faults /\ faults \in Nat
  BY JobStays, FaultsStay DEF TypeOK
<1>1. ASSUME NEW v \in Uploads, TaskStep(v) \/ ServerStep(v) \/ Fault(v)
      PROVE  Leftovers(u)'
  <2>1. CASE v = u
    BY <1>0, <1>1, <2>1, TaskLeftovers, ServerLeftovers, FaultLeftovers
  <2>2. CASE v # u
    <3>1. /\ task'[u] = task[u] /\ call'[u] = call[u] /\ temp'[u] = temp[u]
          /\ session'[u] = session[u] /\ phase' = phase
      BY <1>0, <1>1, <2>2, OneUpload, OneSession, UploadKeepsPhase
    <3> QED
      BY <1>0, <3>1 DEF Leftovers, Direct
  <2> QED
    BY <2>1, <2>2
<1>2. CASE NoticeFailure \/ PushFails
  <2>1. /\ phase' = "failed" /\ call' = call /\ temp' = temp /\ session' = session
        /\ task'[u] = task[u] \/ task'[u] = [task[u] EXCEPT !.pc = "dropped"]
    BY <1>2 DEF NoticeFailure, PushFails, DropTasks, backend
  <2>2. task'[u] = task[u] \/ task'[u].pc = "dropped"
    BY <1>0, <2>1 DEF TaskStates
  <2> QED
    BY <1>0, <2>1, <2>2 DEF Leftovers, Direct
<1>3. CASE SpawnUploads \/ JoinUploads \/ Finalize \/ Pin \/ FinalizeFails \/ UNCHANGED vars
  <2>1. /\ task' = task /\ call' = call /\ temp' = temp /\ session' = session
        /\ phase' = "plan" => phase = "plan"
    BY <1>3 DEF SpawnUploads, JoinUploads, Finalize, Pin, FinalizeFails, backend, vars
  <2> QED
    BY <1>0, <2>1 DEF Leftovers, Direct
<1> QED
  BY <1>1, <1>2, <1>3 DEF Next, PushStep

-----------------------------------------------------------------------------

LEMMA PushInit == Init => PushInv
<1> SUFFICES ASSUME Init
             PROVE  PushInv
  OBVIOUS
<1>1. TypeOK
  <2>1. <<>> \in Seq(Piece)
    OBVIOUS
  <2>2. NoCall \in CallStates
    BY <2>1 DEF NoCall, CallStates
  <2>3. [pc |-> "waiting", at |-> 0, piece |-> [from |-> 0, to |-> 0],
         parts |-> <<>>] \in TaskStates
    BY <2>1 DEF TaskStates, Piece
  <2> QED
    BY <2>1, <2>2, <2>3 DEF Init, TypeOK, Phases
<1>2. \A u \in Uploads : PiecesInOrder(u) /\ Leftovers(u)
  BY DEF Init, PiecesInOrder, Leftovers, NoCall
<1>3. WholeObjects /\ Joined
  BY DEF Init, WholeObjects, Joined
<1> QED
  BY <1>1, <1>2, <1>3 DEF PushInv

\* The inductive invariant of a push.
THEOREM PushInductive == Spec => []PushInv
<1>1. PushInv /\ [Next]_vars => PushInv'
  <2> SUFFICES ASSUME PushInv, [Next]_vars
               PROVE  PushInv'
    OBVIOUS
  <2>1. TypeOK'
    BY TypeStep DEF PushInv
  <2>2. \A v \in Uploads : PiecesInOrder(v)' /\ Leftovers(v)'
    BY PiecesStep, LeftoversStep
  <2> QED
    BY <2>1, <2>2, WholeStep, JoinedStep DEF PushInv
<1> QED
  BY <1>1, PushInit, PTL DEF Spec

\* What put_stream and the multipart upload leave under the name of an object is
\* always its whole stream.
THEOREM WholeObjectsSafe == Spec => []WholeObjects
<1>1. PushInv => WholeObjects
  BY DEF PushInv
<1> QED
  BY <1>1, PushInductive, PTL

\* A push that succeeds has left neither an open multipart upload nor a temporary
\* file: each of its uploads has its answer, and the server gives it only when
\* both are gone.
THEOREM DoneLeavesNothingSafe == Spec => []DoneLeavesNothing
<1>1. PushInv => DoneLeavesNothing
  <2> SUFFICES ASSUME PushInv, phase = "done", NEW u \in Uploads
               PROVE  session[u] # "open" /\ temp[u] = <<>>
    BY DEF DoneLeavesNothing
  <2>1. call[u].pc = "ok"
    BY DEF PushInv, Joined
  <2> QED
    BY <2>1 DEF PushInv, Leftovers
<1> QED
  BY <1>1, PushInductive, PTL

\* An upload that fails though nothing went wrong around it is aborted first.
THEOREM FailedLeavesNothingSafe == Spec => []FailedLeavesNothing
<1>1. PushInv => FailedLeavesNothing
  BY DEF PushInv, Leftovers, FailedLeavesNothing
<1> QED
  BY <1>1, PushInductive, PTL

-----------------------------------------------------------------------------
(* The promise *)

\* What a step of one upload does to the objects: it stores the one it uploads,
\* or takes it away while the build is not published.
LEMMA UploadEffect ==
  ASSUME PushInv, NEW u \in Uploads, TaskStep(u) \/ ServerStep(u) \/ Fault(u)
  PROVE  \/ stored' = stored
         \/ stored' = stored \cup {ObjectOf[u]}
         \/ ~published /\ stored' = stored \ {ObjectOf[u]}
<1>1. CASE TaskStep(u)
  BY <1>1 DEF TaskStep, backend, Acquire, ReadPart, ReadEnd, TooManyParts, PutPart,
     SendComplete, AbortUpload, ReceiveAnswer
<1>2. CASE CleanUpObject(u)
  BY <1>2 DEF PushInv, Joined, CleanUpObject
<1>3. CASE ServerStep(u) /\ ~CleanUpObject(u)
  BY <1>3 DEF ServerStep, backend, StoreObject, CreateUpload, Assemble, AssembleRejected,
     CopyChunk, CopyEnd, RenameFile, CopyBreaks, Persist
<1>4. CASE Fault(u)
  BY <1>4 DEF Fault, backend, StoreObject, ReadFails, PutPartFails, AbortFails, LoseAnswer,
     AssembleUnknown, CopyFails, PersistFails, DropCall
<1> QED
  BY <1>1, <1>2, <1>3, <1>4

LEMMA PromiseStep ==
  ASSUME PushInv, PushInv', [Next]_vars
  PROVE  [Promise!Next]_<<{o \in stored : Whole(content[o], Size[o])},
            IF published THEN "published" ELSE IF phase = "failed" THEN "failed" ELSE "open">>
<1> DEFINE held == {o \in stored : Whole(content[o], Size[o])}
           outcome == IF published THEN "published"
                      ELSE IF phase = "failed" THEN "failed" ELSE "open"
<1>0. held = stored /\ held' = stored'
  BY DEF PushInv, WholeObjects
<1>1. published => phase \in {"pin", "done", "failed"}
  BY DEF PushInv, Joined
<1>2. ASSUME NEW u \in Uploads, TaskStep(u) \/ ServerStep(u) \/ Fault(u)
      PROVE  Promise!Next \/ (held' = held /\ outcome' = outcome)
  <2>1. outcome' = outcome /\ (outcome = "published" => published)
    BY <1>2, UploadKeepsPhase
  <2>2. ObjectOf[u] \in Objects
    BY PushConstants
  <2>3. CASE held' = held \cup {ObjectOf[u]}
    BY <2>1, <2>2, <2>3 DEF Promise!Next, Promise!Store
  <2>4. CASE ~published /\ held' = held \ {ObjectOf[u]}
    BY <2>1, <2>2, <2>4 DEF Promise!Next, Promise!Discard
  <2> QED
    BY <1>0, <1>2, <2>1, <2>3, <2>4, UploadEffect
<1>3. CASE Finalize \/ FinalizeFails
  <2>1. phase = "finalize" /\ ~published /\ stored' = stored
    BY <1>1, <1>3 DEF Finalize, FinalizeFails, backend
  <2>2. CASE published'
    <3>1. stored = Objects
      BY <1>3, <2>2 DEF Finalize, FinalizeFails
    <3>2. outcome = "open" /\ outcome' = "published" /\ held' = held
      BY <1>0, <2>1, <2>2
    <3> QED
      BY <1>0, <3>1, <3>2 DEF Promise!Next, Promise!Publish
  <2>3. CASE ~published'
    <3>1. phase' = "failed"
      BY <1>3, <2>3 DEF Finalize, FinalizeFails
    <3>2. outcome = "open" /\ outcome' = "failed" /\ held' = held
      BY <1>0, <2>1, <2>3, <3>1
    <3> QED
      BY <3>2 DEF Promise!Next, Promise!Fail
  <2> QED
    BY <2>2, <2>3
<1>4. CASE NoticeFailure \/ PushFails
  <2>1. /\ phase # "failed" /\ phase' = "failed"
        /\ published' = published /\ stored' = stored
    BY <1>4 DEF NoticeFailure, PushFails, backend
  <2>2. CASE published
    BY <1>0, <2>1, <2>2
  <2>3. CASE ~published
    <3>1. outcome = "open" /\ outcome' = "failed" /\ held' = held
      BY <1>0, <2>1, <2>3
    <3> QED
      BY <3>1 DEF Promise!Next, Promise!Fail
  <2> QED
    BY <2>2, <2>3
<1>5. CASE SpawnUploads \/ JoinUploads \/ Pin \/ UNCHANGED vars
  <2>1. /\ stored' = stored /\ published' = published
        /\ (phase' = "failed") = (phase = "failed")
    BY <1>5 DEF SpawnUploads, JoinUploads, Pin, backend, vars
  <2> QED
    BY <1>0, <2>1
<1> QED
  BY <1>2, <1>3, <1>4, <1>5 DEF Next, PushStep

\* A push implements AtomicPush: the build is published only with all its objects
\* there and whole, and no cleanup of its uploads takes one away afterwards.
THEOREM PushKeepsPromise == Spec => KeepsPromise
<1>1. Init => Promise!Init
  BY DEF Init, Promise!Init
<1>2. Spec => []PushInv
  BY PushInductive
<1>3. PushInv /\ PushInv' /\ [Next]_vars =>
        [Promise!Next]_<<{o \in stored : Whole(content[o], Size[o])},
          IF published THEN "published" ELSE IF phase = "failed" THEN "failed" ELSE "open">>
  BY PromiseStep
<1> QED
  BY <1>1, <1>2, <1>3, PTL DEF Spec, KeepsPromise, Promise!Spec
=============================================================================
