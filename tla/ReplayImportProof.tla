-------------------------- MODULE ReplayImportProof --------------------------
EXTENDS ReplayImport, TLAPS

(* Ending a request keeps the types, whatever the answer.                  *)
LEMMA RespondTypes ==
  ASSUME IInv, NEW r \in Request, NEW o \in Op, NEW i \in Import \cup {None},
         NEW code \in {200, 409, 500}, NEW st \in Status,
         Respond(r, o, i, code, st), UNCHANGED <<tables, archive>>
  PROVE  TypeOK' /\ LocalsOK' /\ RecordsOK'
<1> DEFINE answer == [op |-> o, of |-> i, code |-> code, status |-> st]
<1>1. answer \in Reply
  BY DEF Reply
<1>2. reply' = [reply EXCEPT ![r] = answer]
  BY DEF Respond
<1> HIDE DEF answer
<1>3. TypeOK'
  BY <1>1, <1>2 DEF IInv, TypeOK, Respond, tables, Step
<1>4. LocalsOK' /\ RecordsOK'
  BY DEF IInv, TypeOK, LocalsOK, RecordsOK, Respond, tables
<1>5. QED
  BY <1>3, <1>4

(* The steps that end a request, those that begin one, and the others.     *)
End(r) ==
  \/ Answer(r) \/ Refuse(r) \/ Abort(r)
  \/ \E i \in Import :
       \/ Confirm(r, i) /\ status[i] # "awaiting_confirmation"
       \/ Cancel(r, i) /\ status[i] \notin Cancellable

Start(r) ==
  \/ \E c \in Content : Create(r, c)
  \/ \E i \in Import :
       \/ Confirm(r, i) /\ status[i] = "awaiting_confirmation"
       \/ Cancel(r, i) /\ status[i] \in Cancellable

Middle(r) ==
  \/ InsertImport(r) \/ MarkValidating(r) \/ ArchiveFiles(r) \/ ReadFiles(r)
  \/ SaveSummary(r) \/ MarkAwaiting(r)
  \/ RecheckDuplicate(r) \/ MarkPublishing(r) \/ MarkCompleted(r)
  \/ ResaveSummary(r) \/ Publish(r) \/ PublishRefused(r)
  \/ MarkCancelled(r) \/ SaveErrors(r) \/ MarkFailed(r)
  \/ ArchiveError(r) \/ PublishError(r)

(* Every step of the service is one of these.                              *)
LEMMA StepCases ==
  ASSUME [Next]_vars
  PROVE  \/ UNCHANGED vars
         \/ \E i \in Import : LoseArchive(i)
         \/ \E r \in Request : Start(r) \/ Middle(r) \/ End(r)
BY DEF Next, CalmNext, Fault, Arrive, Work, Start, Middle, End

(* Ending a request keeps the types: an endpoint's answer is a Reply.      *)
LEMMA EndTypes ==
  ASSUME IInv, NEW r \in Request, End(r)
  PROVE  TypeOK' /\ LocalsOK' /\ RecordsOK'
<1>1. CASE \/ \E i \in Import :
                \/ Confirm(r, i) /\ status[i] # "awaiting_confirmation"
                \/ Cancel(r, i) /\ status[i] \notin Cancellable
  <2>1. PICK i \in Import :
               \/ Confirm(r, i) /\ status[i] # "awaiting_confirmation"
               \/ Cancel(r, i) /\ status[i] \notin Cancellable
    BY <1>1
  <2>2. status[i] \in Status
    BY DEF IInv, TypeOK
  <2>3. \E o \in Op, code \in {200, 409, 500} :
          Respond(r, o, i, code, status[i])
    BY <2>1 DEF Confirm, Cancel, Op
  <2>4. UNCHANGED <<tables, archive>>
    BY <2>1 DEF Confirm, Cancel
  <2>5. QED
    BY <2>2, <2>3, <2>4, RespondTypes
<1>2. CASE Answer(r) \/ Refuse(r) \/ Abort(r)
  <2>1. pc[r] # "idle"
    BY <1>2 DEF Answer, Refuse, Abort, Accepts
  <2>2. op[r] \in Op /\ target[r] \in Import \cup {None}
    BY <2>1 DEF IInv, TypeOK, LocalsOK
  <2>3. pc[r] \in {"answer", "answerDone"} => status[target[r]] \in Status
    BY DEF IInv, TypeOK, LocalsOK
  <2>4. \E code \in {200, 409, 500}, st \in Status :
          Respond(r, op[r], target[r], code, st)
    BY <1>2, <2>3 DEF Answer, Refuse, Abort, Raise, Status
  <2>5. UNCHANGED <<tables, archive>>
    BY <1>2 DEF Answer, Refuse, Abort
  <2>6. QED
    BY <2>2, <2>4, <2>5, RespondTypes
<1>3. QED
  BY <1>1, <1>2 DEF End

(* Accepting a request keeps the types, and gives it the locals it needs.  *)
LEMMA StartTypes ==
  ASSUME IInv, NEW r \in Request, Start(r)
  PROVE  TypeOK' /\ LocalsOK' /\ RecordsOK'
<1> USE NoneType
<1> USE DEF IInv, TypeOK, LocalsOK, RecordsOK, StepStatus, tables, locals,
            Step, Status, Op, Cancellable, Reply
<1>1. ASSUME NEW c \in Content, Create(r, c)
      PROVE  TypeOK' /\ LocalsOK' /\ RecordsOK'
  BY <1>1 DEF Create, Begin, DuplicateSessions, Completed
<1>2. ASSUME NEW i \in Import, Confirm(r, i), status[i] = "awaiting_confirmation"
      PROVE  TypeOK' /\ LocalsOK' /\ RecordsOK'
  <2>1. PICK step \in Step :
          Begin(r, "confirm", i, checksum[i], sessionId[i], duplicateOf[i], step)
    BY <1>2 DEF Confirm
  <2>2. TypeOK'
    BY <1>2, <2>1 DEF Begin, Confirm
  <2>3. LocalsOK'
    BY <1>2 DEF Confirm, Begin
  <2>4. RecordsOK'
    BY <1>2 DEF Confirm
  <2>5. QED
    BY <2>2, <2>3, <2>4
<1>3. ASSUME NEW i \in Import, Cancel(r, i), status[i] \in Cancellable
      PROVE  TypeOK' /\ LocalsOK' /\ RecordsOK'
  BY <1>3 DEF Cancel, Begin
<1>4. QED
  BY <1>1, <1>2, <1>3 DEF Start

(* A transaction of a request keeps the types and the columns filled.      *)
LEMMA MiddleTypes ==
  ASSUME IInv, NEW r \in Request, Middle(r)
  PROVE  TypeOK' /\ LocalsOK' /\ RecordsOK'
<1> USE SessionOfType, NoneType
<1> USE DEF IInv, TypeOK, LocalsOK, RecordsOK, StepStatus, tables, locals,
            Step, Status, Op, Cancellable, Reply
<1>1. CASE InsertImport(r)
  BY <1>1 DEF InsertImport
<1>2. CASE MarkValidating(r)
  BY <1>2 DEF MarkValidating, Transition, Continue
<1>3. CASE ArchiveFiles(r)
  BY <1>3 DEF ArchiveFiles, Continue
<1>4. CASE ReadFiles(r)
  BY <1>4 DEF ReadFiles, Continue
<1>5. CASE SaveSummary(r)
  BY <1>5 DEF SaveSummary, SaveValidation, Continue
<1>6. CASE MarkAwaiting(r)
  BY <1>6 DEF MarkAwaiting, Transition, Continue
<1>7. CASE RecheckDuplicate(r)
  BY <1>7 DEF RecheckDuplicate, DuplicateSessions, Completed
<1>8. CASE MarkPublishing(r)
  BY <1>8 DEF MarkPublishing, Transition, Continue
<1>9. CASE MarkCompleted(r)
  BY <1>9 DEF MarkCompleted, Transition, Continue
<1>10. CASE ResaveSummary(r)
  BY <1>10 DEF ResaveSummary, SaveValidation, Continue
<1>11. CASE Publish(r)
  BY <1>11, SMTT(30) DEF Publish, PublishRows, CanPublish, Continue
<1>12. CASE PublishRefused(r)
  BY <1>12 DEF PublishRefused, Continue
<1>13. CASE MarkCancelled(r)
  BY <1>13 DEF MarkCancelled, Continue
<1>14. CASE SaveErrors(r)
  BY <1>14 DEF SaveErrors, SaveValidation, Continue
<1>15. CASE MarkFailed(r)
  BY <1>15 DEF MarkFailed, Continue, Accepts
<1>16. CASE ArchiveError(r)
  BY <1>16 DEF ArchiveError, Continue
<1>17. CASE PublishError(r)
  <2>1. CASE PublishRows(r)
    BY <1>17, <2>1, SMTT(30) DEF PublishError, PublishRows, CanPublish, Continue
  <2>2. CASE UNCHANGED <<tables, archive>>
    BY <1>17, <2>2 DEF PublishError, Continue
  <2>3. QED
    BY <1>17, <2>1, <2>2 DEF PublishError
<1>18. QED
  BY <1>1, <1>2, <1>3, <1>4, <1>5, <1>6, <1>7, <1>8, <1>9, <1>10, <1>11,
     <1>12, <1>13, <1>14, <1>15, <1>16, <1>17 DEF Middle

(* Every step keeps the types.                                             *)
LEMMA TypeStep ==
  ASSUME IInv, [Next]_vars
  PROVE  TypeOK' /\ LocalsOK' /\ RecordsOK'
<1>1. CASE UNCHANGED vars
  BY <1>1 DEF IInv, TypeOK, LocalsOK, RecordsOK, vars, tables, locals
<1>2. CASE \E i \in Import : LoseArchive(i)
  BY <1>2 DEF IInv, TypeOK, LocalsOK, RecordsOK, LoseArchive, tables, locals
<1>3. CASE \E r \in Request : Start(r) \/ Middle(r) \/ End(r)
  BY <1>3, StartTypes, MiddleTypes, EndTypes
<1>4. QED
  BY <1>1, <1>2, <1>3, StepCases

(* No step gives an import a second holder: a create takes an import       *)
(* nobody knows yet, a confirm one that is awaiting, and an import         *)
(* is awaiting only when its create has let go of it.                      *)
LEMMA StartHolder ==
  ASSUME IInv, NEW r \in Request, Start(r), TypeOK'
  PROVE  OneHolder' /\ StepStatus' /\ PublisherKeepsImport'
<1> USE NoneType
<1> USE DEF IInv, TypeOK, LocalsOK, RecordsOK, OneHolder, StepStatus,
            PublisherKeepsImport, Held, Publishers, tables, locals, Cancellable,
            Status
<1>1. ASSUME NEW c \in Content, Create(r, c)
      PROVE  OneHolder' /\ StepStatus' /\ PublisherKeepsImport'
  BY <1>1, SMTT(30) DEF Create, Begin, DuplicateSessions, Completed
<1>2. ASSUME NEW i \in Import, Confirm(r, i), status[i] = "awaiting_confirmation"
      PROVE  OneHolder' /\ StepStatus' /\ PublisherKeepsImport'
  BY <1>2, SMTT(30) DEF Confirm, Begin
<1>3. ASSUME NEW i \in Import, Cancel(r, i), status[i] \in Cancellable
      PROVE  OneHolder' /\ StepStatus' /\ PublisherKeepsImport'
  BY <1>3, SMTT(30) DEF Cancel, Begin
<1>4. QED
  BY <1>1, <1>2, <1>3 DEF Start

(* Only the guarded updates hand an import from one holder to the next.    *)
LEMMA MiddleHolder ==
  ASSUME IInv, NEW r \in Request, Middle(r), TypeOK'
  PROVE  OneHolder' /\ StepStatus' /\ PublisherKeepsImport'
<1> USE NoneType
<1> USE DEF IInv, TypeOK, LocalsOK, RecordsOK, OneHolder, StepStatus,
            PublisherKeepsImport, Held, Publishers, tables, locals, Cancellable,
            Status
<1>1. CASE InsertImport(r)
  BY <1>1 DEF InsertImport
<1>2. CASE MarkValidating(r)
  BY <1>2 DEF MarkValidating, Transition, Continue
<1>3. CASE ArchiveFiles(r)
  BY <1>3 DEF ArchiveFiles, Continue
<1>4. CASE ReadFiles(r)
  BY <1>4 DEF ReadFiles, Continue
<1>5. CASE SaveSummary(r)
  BY <1>5 DEF SaveSummary, SaveValidation, Continue
<1>6. CASE MarkAwaiting(r)
  BY <1>6 DEF MarkAwaiting, Transition, Continue
<1>7. CASE RecheckDuplicate(r)
  BY <1>7 DEF RecheckDuplicate, DuplicateSessions, Completed
<1>8. CASE MarkPublishing(r)
  BY <1>8 DEF MarkPublishing, Transition, Continue
<1>9. CASE MarkCompleted(r)
  BY <1>9 DEF MarkCompleted, Transition, Continue
<1>10. CASE ResaveSummary(r)
  BY <1>10 DEF ResaveSummary, SaveValidation, Continue
<1>11. CASE Publish(r)
  BY <1>11 DEF Publish, PublishRows, CanPublish, Continue
<1>12. CASE PublishRefused(r)
  BY <1>12 DEF PublishRefused, Continue
<1>13. CASE MarkCancelled(r)
  BY <1>13 DEF MarkCancelled, Continue
<1>14. CASE SaveErrors(r)
  BY <1>14 DEF SaveErrors, SaveValidation, Continue
<1>15. CASE MarkFailed(r)
  BY <1>15 DEF MarkFailed, Continue, Accepts
<1>16. CASE ArchiveError(r)
  BY <1>16 DEF ArchiveError, Continue
<1>17. CASE PublishError(r)
  BY <1>17 DEF PublishError, PublishRows, CanPublish, Continue
<1>18. QED
  BY <1>1, <1>2, <1>3, <1>4, <1>5, <1>6, <1>7, <1>8, <1>9, <1>10, <1>11,
     <1>12, <1>13, <1>14, <1>15, <1>16, <1>17 DEF Middle

(* A request that ends gives up its import.                                *)
LEMMA EndHolder ==
  ASSUME IInv, NEW r \in Request, End(r), TypeOK'
  PROVE  OneHolder' /\ StepStatus' /\ PublisherKeepsImport'
<1> USE NoneType
<1> USE DEF IInv, TypeOK, LocalsOK, RecordsOK, OneHolder, StepStatus,
            PublisherKeepsImport, Held, Publishers, tables, locals, Cancellable,
            Status
<1>1. /\ pc' = [pc EXCEPT ![r] = "idle"]
      /\ target' = [target EXCEPT ![r] = None]
      /\ file' = [file EXCEPT ![r] = None]
      /\ dup' = [dup EXCEPT ![r] = None]
      /\ UNCHANGED <<tables, archive>>
  BY DEF End, Answer, Refuse, Abort, Confirm, Cancel, Raise, Respond
<1>2. QED
  BY <1>1

(* Every step keeps the holders of an import apart.                        *)
LEMMA HolderStep ==
  ASSUME IInv, [Next]_vars, TypeOK'
  PROVE  OneHolder' /\ StepStatus' /\ PublisherKeepsImport'
<1>1. CASE UNCHANGED vars
  BY <1>1 DEF vars, IInv, TypeOK, LocalsOK, RecordsOK, OneHolder, StepStatus,
            PublisherKeepsImport, Held, Publishers, tables, locals, Cancellable,
            Status
<1>2. CASE \E i \in Import : LoseArchive(i)
  BY <1>2 DEF LoseArchive, IInv, TypeOK, LocalsOK, RecordsOK, OneHolder, StepStatus,
            PublisherKeepsImport, Held, Publishers, tables, locals, Cancellable,
            Status
<1>3. CASE \E r \in Request : Start(r) \/ Middle(r) \/ End(r)
  BY <1>3, StartHolder, MiddleHolder, EndHolder
<1>4. QED
  BY <1>1, <1>2, <1>3, StepCases

(* Sessions appear with their rows and their completed import, and what    *)
(* points to a session keeps pointing to the same files.                    *)
LEMMA StartData ==
  ASSUME IInv, NEW r \in Request, Start(r), TypeOK'
  PROVE  /\ DuplicatesMatch' /\ RowsOwned'
         /\ PublicIsComplete' /\ CompletedResolves'
<1> USE NoneType
<1> USE DEF IInv, TypeOK, LocalsOK, RecordsOK, StepStatus,
            PublisherKeepsImport, Publishers, DuplicatesMatch, RowsOwned,
            PublicIsComplete, CompletedResolves, tables, locals, Cancellable
<1>1. ASSUME NEW c \in Content, Create(r, c)
      PROVE  /\ DuplicatesMatch' /\ RowsOwned'
         /\ PublicIsComplete' /\ CompletedResolves'
  BY <1>1 DEF Create, Begin, DuplicateSessions, Completed
<1>2. ASSUME NEW i \in Import, Confirm(r, i), status[i] = "awaiting_confirmation"
      PROVE  /\ DuplicatesMatch' /\ RowsOwned'
         /\ PublicIsComplete' /\ CompletedResolves'
  BY <1>2 DEF Confirm, Begin
<1>3. ASSUME NEW i \in Import, Cancel(r, i), status[i] \in Cancellable
      PROVE  /\ DuplicatesMatch' /\ RowsOwned'
         /\ PublicIsComplete' /\ CompletedResolves'
  BY <1>3 DEF Cancel, Begin
<1>4. QED
  BY <1>1, <1>2, <1>3 DEF Start

(* No transaction links an import to a session that shows other files.     *)
LEMMA MiddleData ==
  ASSUME IInv, NEW r \in Request, Middle(r), TypeOK'
  PROVE  /\ DuplicatesMatch' /\ RowsOwned'
         /\ PublicIsComplete' /\ CompletedResolves'
<1> USE NoneType
<1> USE DEF IInv, TypeOK, LocalsOK, RecordsOK, StepStatus,
            PublisherKeepsImport, Publishers, DuplicatesMatch, RowsOwned,
            PublicIsComplete, CompletedResolves, tables, locals, Cancellable
<1>1. CASE InsertImport(r)
  BY <1>1 DEF InsertImport
<1>2. CASE MarkValidating(r)
  BY <1>2 DEF MarkValidating, Transition, Continue
<1>3. CASE ArchiveFiles(r)
  BY <1>3 DEF ArchiveFiles, Continue
<1>4. CASE ReadFiles(r)
  BY <1>4 DEF ReadFiles, Continue
<1>5. CASE SaveSummary(r)
  BY <1>5 DEF SaveSummary, SaveValidation, Continue
<1>6. CASE MarkAwaiting(r)
  BY <1>6 DEF MarkAwaiting, Transition, Continue
<1>7. CASE RecheckDuplicate(r)
  BY <1>7 DEF RecheckDuplicate, DuplicateSessions, Completed
<1>8. CASE MarkPublishing(r)
  BY <1>8 DEF MarkPublishing, Transition, Continue
<1>9. CASE MarkCompleted(r)
  BY <1>9 DEF MarkCompleted, Transition, Continue
<1>10. CASE ResaveSummary(r)
  BY <1>10 DEF ResaveSummary, SaveValidation, Continue
<1>11. CASE Publish(r)
  BY <1>11 DEF Publish, PublishRows, CanPublish, Continue
<1>12. CASE PublishRefused(r)
  BY <1>12 DEF PublishRefused, Continue
<1>13. CASE MarkCancelled(r)
  BY <1>13 DEF MarkCancelled, Continue
<1>14. CASE SaveErrors(r)
  BY <1>14 DEF SaveErrors, SaveValidation, Continue
<1>15. CASE MarkFailed(r)
  BY <1>15 DEF MarkFailed, Continue, Accepts
<1>16. CASE ArchiveError(r)
  BY <1>16 DEF ArchiveError, Continue
<1>17. CASE PublishError(r)
  BY <1>17 DEF PublishError, PublishRows, CanPublish, Continue
<1>18. QED
  BY <1>1, <1>2, <1>3, <1>4, <1>5, <1>6, <1>7, <1>8, <1>9, <1>10, <1>11,
     <1>12, <1>13, <1>14, <1>15, <1>16, <1>17 DEF Middle

(* Ending a request leaves every table as it is.                           *)
LEMMA EndData ==
  ASSUME IInv, NEW r \in Request, End(r), TypeOK'
  PROVE  /\ DuplicatesMatch' /\ RowsOwned'
         /\ PublicIsComplete' /\ CompletedResolves'
<1> USE NoneType
<1> USE DEF IInv, TypeOK, LocalsOK, RecordsOK, StepStatus,
            PublisherKeepsImport, Publishers, DuplicatesMatch, RowsOwned,
            PublicIsComplete, CompletedResolves, tables, locals, Cancellable
<1>1. /\ pc' = [pc EXCEPT ![r] = "idle"]
      /\ target' = [target EXCEPT ![r] = None]
      /\ file' = [file EXCEPT ![r] = None]
      /\ dup' = [dup EXCEPT ![r] = None]
      /\ UNCHANGED <<tables, archive>>
  BY DEF End, Answer, Refuse, Abort, Confirm, Cancel, Raise, Respond
<1>2. QED
  BY <1>1

(* Every step keeps sessions whole and completed imports resolved.         *)
LEMMA DataStep ==
  ASSUME IInv, [Next]_vars, TypeOK'
  PROVE  /\ DuplicatesMatch' /\ RowsOwned'
         /\ PublicIsComplete' /\ CompletedResolves'
<1>1. CASE UNCHANGED vars
  BY <1>1 DEF vars, IInv, TypeOK, LocalsOK, RecordsOK, StepStatus,
            PublisherKeepsImport, Publishers, DuplicatesMatch, RowsOwned,
            PublicIsComplete, CompletedResolves, tables, locals, Cancellable
<1>2. CASE \E i \in Import : LoseArchive(i)
  BY <1>2 DEF LoseArchive, IInv, TypeOK, LocalsOK, RecordsOK, StepStatus,
            PublisherKeepsImport, Publishers, DuplicatesMatch, RowsOwned,
            PublicIsComplete, CompletedResolves, tables, locals, Cancellable
<1>3. CASE \E r \in Request : Start(r) \/ Middle(r) \/ End(r)
  BY <1>3, StartData, MiddleData, EndData
<1>4. QED
  BY <1>1, <1>2, <1>3, StepCases

(* A 200 names an import and its status; final statuses do not change.     *)
LEMMA StartReply ==
  ASSUME IInv, NEW r \in Request, Start(r), TypeOK'
  PROVE  RepliesNamed' /\ RepliesHonest'
<1> USE NoneType
<1> USE DEF IInv, TypeOK, LocalsOK, StepStatus, PublisherKeepsImport,
            Publishers, RepliesNamed, RepliesHonest, tables, locals, Cancellable
<1>1. ASSUME NEW c \in Content, Create(r, c)
      PROVE  RepliesNamed' /\ RepliesHonest'
  BY <1>1 DEF Create, Begin, DuplicateSessions, Completed
<1>2. ASSUME NEW i \in Import, Confirm(r, i), status[i] = "awaiting_confirmation"
      PROVE  RepliesNamed' /\ RepliesHonest'
  BY <1>2 DEF Confirm, Begin
<1>3. ASSUME NEW i \in Import, Cancel(r, i), status[i] \in Cancellable
      PROVE  RepliesNamed' /\ RepliesHonest'
  BY <1>3 DEF Cancel, Begin
<1>4. QED
  BY <1>1, <1>2, <1>3 DEF Start

(* No transaction undoes a final status that was answered.                 *)
LEMMA MiddleReply ==
  ASSUME IInv, NEW r \in Request, Middle(r), TypeOK'
  PROVE  RepliesNamed' /\ RepliesHonest'
<1> USE NoneType
<1> USE DEF IInv, TypeOK, LocalsOK, StepStatus, PublisherKeepsImport,
            Publishers, RepliesNamed, RepliesHonest, tables, locals, Cancellable
<1>1. CASE InsertImport(r)
  BY <1>1 DEF InsertImport
<1>2. CASE MarkValidating(r)
  BY <1>2 DEF MarkValidating, Transition, Continue
<1>3. CASE ArchiveFiles(r)
  BY <1>3 DEF ArchiveFiles, Continue
<1>4. CASE ReadFiles(r)
  BY <1>4 DEF ReadFiles, Continue
<1>5. CASE SaveSummary(r)
  BY <1>5 DEF SaveSummary, SaveValidation, Continue
<1>6. CASE MarkAwaiting(r)
  BY <1>6 DEF MarkAwaiting, Transition, Continue
<1>7. CASE RecheckDuplicate(r)
  BY <1>7 DEF RecheckDuplicate, DuplicateSessions, Completed
<1>8. CASE MarkPublishing(r)
  BY <1>8 DEF MarkPublishing, Transition, Continue
<1>9. CASE MarkCompleted(r)
  BY <1>9 DEF MarkCompleted, Transition, Continue
<1>10. CASE ResaveSummary(r)
  BY <1>10 DEF ResaveSummary, SaveValidation, Continue
<1>11. CASE Publish(r)
  BY <1>11 DEF Publish, PublishRows, CanPublish, Continue
<1>12. CASE PublishRefused(r)
  BY <1>12 DEF PublishRefused, Continue
<1>13. CASE MarkCancelled(r)
  BY <1>13 DEF MarkCancelled, Continue
<1>14. CASE SaveErrors(r)
  BY <1>14 DEF SaveErrors, SaveValidation, Continue
<1>15. CASE MarkFailed(r)
  BY <1>15 DEF MarkFailed, Continue, Accepts
<1>16. CASE ArchiveError(r)
  BY <1>16 DEF ArchiveError, Continue
<1>17. CASE PublishError(r)
  BY <1>17 DEF PublishError, PublishRows, CanPublish, Continue
<1>18. QED
  BY <1>1, <1>2, <1>3, <1>4, <1>5, <1>6, <1>7, <1>8, <1>9, <1>10, <1>11,
     <1>12, <1>13, <1>14, <1>15, <1>16, <1>17 DEF Middle

(* What a request answers is what the row says, completed included.        *)
LEMMA EndReply ==
  ASSUME IInv, NEW r \in Request, End(r), TypeOK'
  PROVE  RepliesNamed' /\ RepliesHonest'
<1> USE NoneType
<1> USE DEF IInv, TypeOK, LocalsOK, StepStatus, PublisherKeepsImport,
            Publishers, RepliesNamed, RepliesHonest, tables, locals, Cancellable
<1>1. UNCHANGED tables
  BY DEF End, Answer, Refuse, Abort, Confirm, Cancel
<1>2. \E o \in Op, i \in Import \cup {None}, code \in {200, 409, 500}, st \in Status :
        /\ reply' = [reply EXCEPT ![r] =
                       [op |-> o, of |-> i, code |-> code, status |-> st]]
        /\ code = 200 => i \in Import /\ status[i] = st
  <2>1. CASE Answer(r)
    BY <2>1 DEF Answer, Respond
  <2>2. CASE Refuse(r) \/ Abort(r)
    BY <2>2 DEF Refuse, Abort, Accepts, Raise, Respond, Status
  <2>3. CASE \E i \in Import : Confirm(r, i) /\ status[i] # "awaiting_confirmation"
    BY <2>3 DEF Confirm, Respond, Op
  <2>4. CASE \E i \in Import : Cancel(r, i) /\ status[i] \notin Cancellable
    BY <2>4 DEF Cancel, Respond, Op
  <2>5. QED
    BY <2>1, <2>2, <2>3, <2>4 DEF End
<1>3. QED
  BY <1>1, <1>2

(* Every step keeps the answers true.                                      *)
LEMMA ReplyStep ==
  ASSUME IInv, [Next]_vars, TypeOK'
  PROVE  RepliesNamed' /\ RepliesHonest'
<1>1. CASE UNCHANGED vars
  BY <1>1 DEF vars, IInv, TypeOK, LocalsOK, StepStatus, PublisherKeepsImport,
            Publishers, RepliesNamed, RepliesHonest, tables, locals, Cancellable
<1>2. CASE \E i \in Import : LoseArchive(i)
  BY <1>2 DEF LoseArchive, IInv, TypeOK, LocalsOK, StepStatus, PublisherKeepsImport,
            Publishers, RepliesNamed, RepliesHonest, tables, locals, Cancellable
<1>3. CASE \E r \in Request : Start(r) \/ Middle(r) \/ End(r)
  BY <1>3, StartReply, MiddleReply, EndReply
<1>4. QED
  BY <1>1, <1>2, <1>3, StepCases

(* The inductive invariant of the import service, every fault included.    *)
THEOREM InductiveInvariant == Spec => []IInv
<1>1. Init => IInv
  BY NoneType DEF Init, IInv, TypeOK, LocalsOK, RecordsOK, OneHolder, Held,
     StepStatus, PublisherKeepsImport, Publishers, DuplicatesMatch, RowsOwned,
     PublicIsComplete, CompletedResolves, RepliesNamed, RepliesHonest,
     Step, Status
<1>2. IInv /\ [Next]_vars => IInv'
  BY TypeStep, HolderStep, DataStep, ReplyStep DEF IInv
<1>3. QED
  BY <1>1, <1>2, PTL DEF Spec

(* Every variable keeps its type, and the four safety properties hold, for *)
(* any number of imports, requests, contents and sessions.                 *)
THEOREM TypeCorrect == Spec => []TypeOK
BY InductiveInvariant, PTL DEF IInv

(* No two requests ever hold the same import.                              *)
THEOREM HoldersExclude == Spec => []OneHolder
BY InductiveInvariant, PTL DEF IInv

(* The confirm that claimed an import finds it publishing until it commits. *)
THEOREM PublisherUndisturbed == Spec => []PublisherKeepsImport
BY InductiveInvariant, PTL DEF IInv

(* No session of an import that is not completed is ever in the tables.    *)
THEOREM PublicSessionsComplete == Spec => []PublicIsComplete
BY InductiveInvariant, PTL DEF IInv

(* A completed import always resolves to rows of its own files.            *)
THEOREM CompletedImportsResolve == Spec => []CompletedResolves
BY InductiveInvariant, PTL DEF IInv

(* An answer of completed, failed or cancelled stays true.                 *)
THEOREM AnswersHold == Spec => []RepliesHonest
BY InductiveInvariant, PTL DEF IInv

-----------------------------------------------------------------------------
(* Refinement of ImportLifecycle.                                          *)

(* Steps that leave the tables alone, or only touch what the abstraction   *)
(* does not see, are stuttering.                                           *)
LEMMA Stutter ==
  ASSUME UNCHANGED <<status, checksum, sessionId, rows>>
  PROVE  UNCHANGED Lifecycle!vars
BY DEF Lifecycle!vars, PhaseOf, LinkOf

(* One import's row changes: what the abstraction sees of it.              *)
LEMMA RowChange ==
  ASSUME IInv, NEW i \in Import, NEW st \in Status,
         status' = [status EXCEPT ![i] = st],
         sessionId' \in [Import -> Session \cup {None}],
         \A j \in Import : j # i => sessionId'[j] = sessionId[j]
  PROVE  /\ PhaseOf[i] = Phase(status[i])
         /\ PhaseOf' = [PhaseOf EXCEPT ![i] = Phase(st)]
         /\ LinkOf' = [LinkOf EXCEPT ![i] =
                         IF st = "completed" THEN sessionId'[i] ELSE None]
         /\ status[i] # "completed" /\ st # "completed" => LinkOf' = LinkOf
<1> USE DEF IInv, TypeOK
<1>1. PhaseOf[i] = Phase(status[i])
  BY DEF PhaseOf
<1>2. PhaseOf' = [PhaseOf EXCEPT ![i] = Phase(st)]
  <2>1. \A j \in Import : status'[j] = IF j = i THEN st ELSE status[j]
    OBVIOUS
  <2>2. PhaseOf' = [j \in Import |-> Phase(status'[j])]
    BY DEF PhaseOf, Phase
  <2>3. PhaseOf = [j \in Import |-> Phase(status[j])]
    BY DEF PhaseOf
  <2>4. QED
    BY <2>1, <2>2, <2>3, Zenon
<1>3. LinkOf' = [LinkOf EXCEPT ![i] =
                   IF st = "completed" THEN sessionId'[i] ELSE None]
  BY DEF LinkOf
<1>4. status[i] # "completed" /\ st # "completed" => LinkOf' = LinkOf
  BY DEF LinkOf
<1>5. QED
  BY <1>1, <1>2, <1>3, <1>4

(* Each transaction is one abstract step, or none.                         *)
LEMMA MiddleRefines ==
  ASSUME IInv, NEW r \in Request, Middle(r)
  PROVE  Lifecycle!Next \/ UNCHANGED Lifecycle!vars
<1> DEFINE i == target[r]
<1> USE DEF IInv, TypeOK, LocalsOK, RecordsOK, StepStatus, PublisherKeepsImport,
            Publishers, DuplicatesMatch, RowsOwned, Status
<1>1. CASE InsertImport(r)
  <2>1. PICK j \in Import : /\ status[j] = "none"
                            /\ status' = [status EXCEPT ![j] = "uploaded"]
                            /\ checksum' = [checksum EXCEPT ![j] = file[r]]
    BY <1>1 DEF InsertImport
  <2>2. file[r] \in Content /\ sessionId' = sessionId /\ rows' = rows
    BY <1>1 DEF InsertImport
  <2>3. /\ PhaseOf[j] = Phase(status[j]) /\ LinkOf' = LinkOf
        /\ PhaseOf' = [PhaseOf EXCEPT ![j] = Phase("uploaded")]
    <3>1. "uploaded" \in Status /\ sessionId \in [Import -> Session \cup {None}]
      OBVIOUS
    <3>2. QED
      BY ONLY IInv, <2>1, <2>2, <3>1, RowChange
  <2>4. Lifecycle!Submit(j, file[r])
    <3>1. Phase("none") = "absent" /\ Phase("uploaded") = "pending"
      BY DEF Phase, Cancellable
    <3>2. QED
      BY <2>1, <2>2, <2>3, <3>1 DEF Lifecycle!Submit
  <2>5. QED
    BY ONLY <2>1, <2>2, <2>4 DEF Lifecycle!Next
<1>2. CASE MarkValidating(r) \/ MarkAwaiting(r)
  <2>1. PICK st \in Cancellable :
          status[i] \in Cancellable /\ status' = [status EXCEPT ![i] = st]
    BY <1>2 DEF MarkValidating, MarkAwaiting, Transition, Cancellable
  <2>2. /\ sessionId' \in [Import -> Session \cup {None}]
        /\ \A j \in Import : j # i => sessionId'[j] = sessionId[j]
        /\ checksum' = checksum /\ rows' = rows
    BY <1>2, SessionOfType DEF MarkValidating, MarkAwaiting, Transition
  <2>3. /\ st \in Status /\ i \in Import
        /\ status[i] # "completed" /\ st # "completed"
    BY <1>2, <2>1 DEF MarkValidating, MarkAwaiting, Cancellable
  <2>4. /\ PhaseOf[i] = Phase(status[i]) /\ LinkOf' = LinkOf
        /\ PhaseOf' = [PhaseOf EXCEPT ![i] = Phase(st)]
    BY ONLY IInv, <2>1, <2>2, <2>3, RowChange
  <2>5. Phase(status[i]) = Phase(st)
    BY <2>1 DEF Phase, Cancellable
  <2>6. PhaseOf' = PhaseOf
    BY <2>4, <2>5 DEF PhaseOf
  <2>7. QED
    BY <2>2, <2>4, <2>6 DEF Lifecycle!vars
<1>3. CASE MarkPublishing(r)
  <2>1. /\ i \in Import /\ status[i] = "awaiting_confirmation"
        /\ status' = [status EXCEPT ![i] = "publishing"]
        /\ checksum' = checksum /\ rows' = rows /\ sessionId' = sessionId
    BY <1>3 DEF MarkPublishing, Transition
  <2>2. /\ PhaseOf[i] = Phase(status[i]) /\ LinkOf' = LinkOf
        /\ PhaseOf' = [PhaseOf EXCEPT ![i] = Phase("publishing")]
    <3>1. "publishing" \in Status /\ sessionId \in [Import -> Session \cup {None}]
      OBVIOUS
    <3>2. QED
      BY ONLY IInv, <2>1, <3>1, RowChange
  <2>3. Lifecycle!Accept(i)
    BY <2>1, <2>2 DEF Lifecycle!Accept, Phase, Cancellable
  <2>4. QED
    BY <2>1, <2>3 DEF Lifecycle!Next
<1>4. ASSUME NEW s \in Session, i \in Import, status[i] = "publishing",
             status' = [status EXCEPT ![i] = "completed"],
             sessionId' = [sessionId EXCEPT ![i] = s],
             rows[s] \in {None, checksum[i]},
             rows' = [rows EXCEPT ![s] = checksum[i]], checksum' = checksum
      PROVE  Lifecycle!Next
  <2>1. /\ sessionId' \in [Import -> Session \cup {None}] /\ sessionId'[i] = s
        /\ \A j \in Import : j # i => sessionId'[j] = sessionId[j]
        /\ "completed" \in Status
    BY <1>4
  <2>2. /\ PhaseOf[i] = Phase(status[i])
        /\ PhaseOf' = [PhaseOf EXCEPT ![i] = Phase("completed")]
        /\ LinkOf' = [LinkOf EXCEPT ![i] = s]
    <3>1. status' = [status EXCEPT ![i] = "completed"] /\ i \in Import
      BY <1>4
    <3>2. /\ PhaseOf[i] = Phase(status[i])
          /\ PhaseOf' = [PhaseOf EXCEPT ![i] = Phase("completed")]
          /\ LinkOf' = [LinkOf EXCEPT ![i] =
                           IF "completed" = "completed" THEN sessionId'[i] ELSE None]
      BY ONLY IInv, <2>1, <3>1, RowChange
    <3>3. QED
      BY ONLY <2>1, <3>2
  <2>3. Lifecycle!Complete(i, s)
    BY <1>4, <2>2 DEF Lifecycle!Complete, Phase, Cancellable
  <2>4. QED
    BY <1>4, <2>3 DEF Lifecycle!Next
<1>5. CASE MarkCompleted(r)
  <2>1. /\ i \in Import /\ status[i] = "publishing" /\ dup[r] \in Session
        /\ file[r] = checksum[i] /\ rows[dup[r]] = checksum[i]
    BY <1>5, NoneType DEF MarkCompleted, Transition
  <2>2. rows' = [rows EXCEPT ![dup[r]] = checksum[i]]
    BY <1>5, <2>1 DEF MarkCompleted, Transition
  <2>3. QED
    BY <1>4, <1>5, <2>1, <2>2, NoneType DEF MarkCompleted, Transition
<1>6. CASE (Publish(r) \/ PublishError(r)) /\ PublishRows(r)
  <2>1. i \in Import /\ sess[r] \in Session /\ rows[sess[r]] = None
    BY <1>6 DEF Publish, PublishError, PublishRows, CanPublish
  <2>2. QED
    BY <1>4, <1>6, <2>1 DEF PublishRows, CanPublish
<1>7. CASE MarkCancelled(r)
  <2>1. /\ i \in Import /\ status[i] \in Cancellable
        /\ status' = [status EXCEPT ![i] = "cancelled"]
        /\ checksum' = checksum /\ rows' = rows /\ sessionId' = sessionId
    BY <1>7 DEF MarkCancelled
  <2>2. /\ PhaseOf[i] = Phase(status[i]) /\ LinkOf' = LinkOf
        /\ PhaseOf' = [PhaseOf EXCEPT ![i] = Phase("cancelled")]
    BY <2>1, RowChange DEF Cancellable
  <2>3. Lifecycle!Withdraw(i)
    BY <2>1, <2>2 DEF Lifecycle!Withdraw, Phase, Cancellable
  <2>4. QED
    BY <2>1, <2>3 DEF Lifecycle!Next
<1>8. CASE MarkFailed(r)
  <2>1. /\ i \in Import /\ status[i] \in {"validating", "publishing"}
        /\ status' = [status EXCEPT ![i] = "failed"]
        /\ checksum' = checksum /\ rows' = rows /\ sessionId' = sessionId
    BY <1>8 DEF MarkFailed, Accepts
  <2>2. /\ PhaseOf[i] = Phase(status[i]) /\ LinkOf' = LinkOf
        /\ PhaseOf' = [PhaseOf EXCEPT ![i] = Phase("failed")]
    BY <2>1, RowChange
  <2>3. Lifecycle!Reject(i)
    BY <2>1, <2>2 DEF Lifecycle!Reject, Phase, Cancellable
  <2>4. QED
    BY <2>1, <2>3 DEF Lifecycle!Next
<1>9. CASE \/ ArchiveFiles(r) \/ ReadFiles(r) \/ SaveSummary(r)
           \/ RecheckDuplicate(r) \/ ResaveSummary(r) \/ PublishRefused(r)
           \/ SaveErrors(r) \/ ArchiveError(r)
           \/ PublishError(r) /\ ~PublishRows(r)
  <2>1. UNCHANGED <<status, checksum, sessionId, rows>>
    BY <1>9 DEF ArchiveFiles, ReadFiles, SaveSummary, RecheckDuplicate,
       ResaveSummary, PublishRefused, SaveErrors, ArchiveError, PublishError,
       SaveValidation, tables
  <2>2. QED
    BY <2>1, Stutter
<1>10. QED
  BY <1>1, <1>2, <1>3, <1>5, <1>6, <1>7, <1>8, <1>9 DEF Middle, Publish

(* The service implements the life of imports and sessions it promises.    *)
THEOREM LifecycleImplemented == Spec => ImplementsLifecycle
<1>1. Init => Lifecycle!Init
  <2>1. Phase("none") = "absent"
    BY DEF Phase, Cancellable
  <2>2. QED
    BY <2>1 DEF Init, Lifecycle!Init, PhaseOf, LinkOf
<1>2. IInv /\ [Next]_vars => [Lifecycle!Next]_(Lifecycle!vars)
  <2> SUFFICES ASSUME IInv, [Next]_vars
               PROVE  Lifecycle!Next \/ UNCHANGED Lifecycle!vars
    OBVIOUS
  <2>1. CASE UNCHANGED vars
    BY <2>1, Stutter DEF vars, tables
  <2>2. CASE \E i \in Import : LoseArchive(i)
    BY <2>2, Stutter DEF LoseArchive, tables
  <2>3. ASSUME NEW r \in Request, Start(r) \/ End(r)
        PROVE  UNCHANGED Lifecycle!vars
    <3>1. UNCHANGED tables
      BY <2>3 DEF Start, End, Create, Confirm, Cancel, Answer, Refuse, Abort
    <3>2. QED
      BY <3>1, Stutter DEF tables
  <2>4. QED
    BY <2>1, <2>2, <2>3, MiddleRefines, StepCases
<1>3. QED
  BY <1>1, <1>2, InductiveInvariant, PTL
     DEF Spec, Lifecycle!Spec, ImplementsLifecycle
=============================================================================
