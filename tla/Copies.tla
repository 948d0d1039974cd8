------------------------------- MODULE Copies -------------------------------
(* Copies of a workspace and workspaces made from a template, under one idempotency key.  The
   reservation of the key names the project to be created; then the project, the worker, its
   files and its report are made in transactions of their own, so that a failure or a crash
   leaves any prefix of them behind.  A failed copy removes what it can and frees the key only
   when nothing is left; a copy whose reservation grew old is completed or failed by the next
   caller.  A template has no such recovery, and its rollback frees the key last.

   One service process serves all callers; a crash ends all calls.  A worker is named by its
   project, which never has two.                                                             *)
EXTENDS Naturals, FiniteSets

CONSTANTS Copiers,   \* requests with the key
          Files,     \* number of files to copy
          MaxSlips   \* bound on failures and crashes

ASSUME CopiersAssumption == IsFiniteSet(Copiers) /\ Files \in Nat

VARIABLES kind,      \* "duplicate" or "template"
          res,       \* the reservation: status, project and worker, and whether it is stale
          ids,       \* project ids drawn so far
          projects,  \* project rows
          copy,      \* each project's worker: none, created, prepared, failed
          files,     \* files in its workspace
          whole,     \* workers whose report says that they are complete, with the event
          used,      \* workers that accepted a run
          copier,    \* each caller: its place and its project
          prompt,    \* calls end before their reservation is stale, and recoveries do not overlap
          slips      \* failures and crashes so far

copyVars == <<kind, res, ids, projects, copy, files, whole, used, copier, prompt, slips>>

MaxProjects == Cardinality(Copiers)
ProjectIds == 1 .. MaxProjects
NoProject == 0
Duplicating == kind = "duplicate"

CopyInit ==
    /\ kind \in {"duplicate", "template"}
    /\ res = [status |-> "none", prj |-> NoProject, wrk |-> NoProject, stale |-> FALSE]
    /\ ids = 0 /\ projects = {} /\ copy = [p \in ProjectIds |-> "none"]
    /\ files = [p \in ProjectIds |-> 0] /\ whole = {} /\ used = {}
    /\ copier = [c \in Copiers |-> [pc |-> "idle", prj |-> NoProject, wrk |-> NoProject]]
    /\ prompt \in BOOLEAN /\ slips = 0

CopyAt(c, pc) == copier[c].pc = pc
CopyGoes(c, pc) == copier' = [copier EXCEPT ![c].pc = pc]
Slip == slips < MaxSlips /\ slips' = slips + 1

-----------------------------------------------------------------------------
\* Reserving the key

\* A failed attempt that left nothing behind may be repeated under the same key.
FreedKey == res.status = "failed" /\ res.prj = NoProject /\ res.wrk = NoProject

\* Mutant of Repeatable: a failed attempt may be repeated whatever it left behind.
RepeatableFailure == res.status \in {"none", "failed"}

Repeatable == res.status = "none" \/ FreedKey

ReserveKey(c) ==
    /\ CopyAt(c, "idle") /\ Repeatable /\ ids < MaxProjects
    /\ ids' = ids + 1
    /\ res' = [status |-> "pending", prj |-> ids + 1, wrk |-> NoProject, stale |-> FALSE]
    /\ copier' = [copier EXCEPT ![c] = [pc |-> "reserved", prj |-> ids + 1, wrk |-> NoProject]]
    /\ UNCHANGED <<kind, prompt, projects, copy, files, whole, used, slips>>

\* The completed copy is answered again; a failed one and one in progress are refused.
Answered(c) ==
    /\ CopyAt(c, "idle") /\ ~Repeatable
    /\ ~(Duplicating /\ res.status = "pending" /\ res.stale)
    /\ CopyGoes(c, "done")
    /\ UNCHANGED <<kind, prompt, res, ids, projects, copy, files, whole, used, slips>>

\* No call is under way.
Calm == \A c \in Copiers : copier[c].pc \in {"idle", "done"}

\* A copy in progress whose reservation is stale is recovered by the next caller.
FindsStale(c) ==
    /\ CopyAt(c, "idle") /\ Duplicating /\ res.status = "pending" /\ res.stale
    /\ prompt => Calm
    /\ copier' = [copier EXCEPT ![c] = [pc |-> "recovering", prj |-> res.prj, wrk |-> NoProject]]
    /\ UNCHANGED <<kind, prompt, res, ids, projects, copy, files, whole, used, slips>>

ReservationAges ==
    /\ Duplicating /\ res.status = "pending" /\ ~res.stale
    /\ prompt => Calm
    /\ res' = [res EXCEPT !.stale = TRUE]
    /\ UNCHANGED <<kind, prompt, ids, projects, copy, files, whole, used, copier, slips>>

-----------------------------------------------------------------------------
\* Making the workspace

CreateProject(c) ==
    /\ CopyAt(c, "reserved")
    /\ projects' = projects \cup {copier[c].prj}
    /\ CopyGoes(c, IF Duplicating THEN "project" ELSE "recorded")
    /\ UNCHANGED <<kind, prompt, res, ids, copy, files, whole, used, slips>>

\* record_workspace_duplication_project: any pending reservation of the key will do.
RecordProject(c) ==
    /\ CopyAt(c, "project")
    /\ IF res.status = "pending"
       THEN /\ res' = [res EXCEPT !.prj = copier[c].prj, !.stale = FALSE]
            /\ CopyGoes(c, "recorded")
       ELSE CopyGoes(c, "failing") /\ UNCHANGED res
    /\ UNCHANGED <<kind, prompt, ids, projects, copy, files, whole, used, slips>>

\* The row refers to the project's row.  A template's worker is complete from the start.
CreateWorker(c) ==
    /\ CopyAt(c, "recorded")
    /\ LET p == copier[c].prj
       IN  IF p \in projects
           THEN /\ copy' = [copy EXCEPT ![p] = "created"]
                /\ whole' = IF Duplicating THEN whole ELSE whole \cup {p}
                /\ CopyGoes(c, "created")
           ELSE CopyGoes(c, "failing") /\ UNCHANGED <<copy, whole>>
    /\ UNCHANGED <<kind, prompt, res, ids, projects, files, used, slips>>

PrepareWorkspace(c) ==
    /\ CopyAt(c, "created")
    /\ copy' = [copy EXCEPT ![copier[c].prj] = "prepared"]
    /\ CopyGoes(c, IF Duplicating THEN "copying" ELSE "made")
    /\ UNCHANGED <<kind, prompt, res, ids, projects, files, whole, used, slips>>

\* One file of the plan after the other
CopyFile(c) ==
    /\ CopyAt(c, "copying") /\ files[copier[c].prj] < Files
    /\ files' = [files EXCEPT ![copier[c].prj] = @ + 1]
    /\ UNCHANGED <<kind, prompt, res, ids, projects, copy, whole, used, copier, slips>>

\* Mutant of Copied: the report does not wait for the last file.
CopiedSome(p) == files[p] > 0

Copied(p) == files[p] = Files

Report(c) ==
    /\ CopyAt(c, "copying") /\ Copied(copier[c].prj)
    /\ whole' = whole \cup {copier[c].prj}
    /\ CopyGoes(c, "made")
    /\ UNCHANGED <<kind, prompt, res, ids, projects, copy, files, used, slips>>

\* Of a copy or of a template: any pending reservation of the key will do.
Completed(c) == [res EXCEPT !.status = "completed", !.prj = copier[c].prj, !.wrk = copier[c].prj]

Complete(c) ==
    /\ CopyAt(c, "made")
    /\ IF res.status = "pending" THEN res' = Completed(c) /\ CopyGoes(c, "done")
       ELSE CopyGoes(c, "failing") /\ UNCHANGED res
    /\ UNCHANGED <<kind, prompt, ids, projects, copy, files, whole, used, slips>>

-----------------------------------------------------------------------------
\* Failing

\* An exception.  A failed copy loop takes the files back that it copied.
Trip(c) ==
    /\ copier[c].pc \in {"reserved", "project", "recorded", "created", "copying", "made"} /\ Slip
    /\ files' = IF CopyAt(c, "copying") THEN [files EXCEPT ![copier[c].prj] = 0] ELSE files
    /\ CopyGoes(c, IF CopyAt(c, "copying") THEN "cleaning" ELSE "failing")
    /\ UNCHANGED <<kind, prompt, res, ids, projects, copy, whole, used>>

\* delete_unstarted_worker: it never accepted work
Unstarted(p) == copy[p] # "none" => p \notin used /\ p \notin whole

\* terminate_worker of the half-made copy, which may fail too; then its row is deleted.
CleanWorker(c) ==
    /\ CopyAt(c, "cleaning")
    /\ LET p == copier[c].prj
       IN  copy' \in {[copy EXCEPT ![p] = IF Unstarted(p) THEN "none" ELSE "failed"],
                        [copy EXCEPT ![p] = "failed"]}
    /\ CopyGoes(c, "failing")
    /\ UNCHANGED <<kind, prompt, res, ids, projects, files, whole, used, slips>>

\* What is left of the project p, once it is deleted if it is empty: its id and its worker's
LeftOver(p) ==
    IF p \notin projects THEN [prj |-> NoProject, wrk |-> NoProject]
    ELSE IF copy[p] # "none" THEN [prj |-> p, wrk |-> p]
    ELSE [prj |-> NoProject, wrk |-> NoProject]

DeleteEmpty(p) == projects' = IF copy[p] = "none" THEN projects \ {p} ELSE projects

FailingLooks(c) ==
    /\ CopyAt(c, "failing") /\ Duplicating
    /\ copier' = [copier EXCEPT ![c] = [pc |-> "fails", prj |-> LeftOver(copier[c].prj).prj,
                                    wrk |-> LeftOver(copier[c].prj).wrk]]
    /\ DeleteEmpty(copier[c].prj)
    /\ UNCHANGED <<kind, prompt, res, ids, copy, files, whole, used, slips>>

\* fail_workspace_duplication, again of any pending reservation of the key
Fail(c) ==
    /\ CopyAt(c, "fails")
    /\ res' = IF res.status = "pending"
              THEN [res EXCEPT !.status = "failed", !.prj = copier[c].prj, !.wrk = copier[c].wrk]
              ELSE res
    /\ CopyGoes(c, "done")
    /\ UNCHANGED <<kind, prompt, ids, projects, copy, files, whole, used, slips>>

-----------------------------------------------------------------------------
\* Recovering a stale copy

\* The reserved project has its worker, and the worker its report and event.
Proven(p) == p \in projects /\ copy[p] # "none" /\ p \in whole

RecoveryCompletes(c) ==
    /\ CopyAt(c, "recovering") /\ Proven(copier[c].prj)
    /\ CopyGoes(c, "recovered")
    /\ UNCHANGED <<kind, prompt, res, ids, projects, copy, files, whole, used, slips>>

RecoveryFails(c) ==
    /\ CopyAt(c, "recovering") /\ ~Proven(copier[c].prj)
    /\ copier' = [copier EXCEPT ![c] = [pc |-> "fails", prj |-> LeftOver(copier[c].prj).prj,
                                    wrk |-> LeftOver(copier[c].prj).wrk]]
    /\ DeleteEmpty(copier[c].prj)
    /\ UNCHANGED <<kind, prompt, res, ids, copy, files, whole, used, slips>>

RecoveryAnswers(c) ==
    /\ CopyAt(c, "recovered")
    /\ res' = IF res.status = "pending" THEN Completed(c) ELSE res
    /\ CopyGoes(c, "done")
    /\ UNCHANGED <<kind, prompt, ids, projects, copy, files, whole, used, slips>>

-----------------------------------------------------------------------------
\* Rolling a template back

RollbackFails(c) ==
    /\ CopyAt(c, "failing") /\ ~Duplicating
    /\ LET w == IF copy[copier[c].prj] # "none" THEN copier[c].prj ELSE NoProject
       IN  IF res.status = "pending"
           THEN /\ res' = [res EXCEPT !.status = "failed", !.prj = copier[c].prj, !.wrk = w]
                /\ copier' = [copier EXCEPT ![c].pc = "stopping", ![c].wrk = w]
           ELSE CopyGoes(c, "done") /\ UNCHANGED res
    /\ UNCHANGED <<kind, prompt, ids, projects, copy, files, whole, used, slips>>

\* A template's worker that accepted a run in between stays, and so does the project.
RollbackDeletes(c) ==
    /\ CopyAt(c, "stopping")
    /\ LET p == copier[c].prj IN
       \/ /\ copier[c].wrk = NoProject \/ p \notin used
          /\ copy' = [copy EXCEPT ![p] = "none"] /\ projects' = projects \ {p}
          /\ whole' = whole \ {p} /\ CopyGoes(c, "deleted")
       \/ /\ copier[c].wrk # NoProject
          /\ copy' \in {copy, [copy EXCEPT ![p] = "failed"]}
          /\ CopyGoes(c, "done") /\ UNCHANGED <<projects, whole>>
    /\ UNCHANGED <<kind, prompt, res, ids, files, used, slips>>

RollbackFrees(c) ==
    /\ CopyAt(c, "deleted")
    /\ res' = IF res.status = "failed" /\ res.prj = copier[c].prj /\ res.wrk = copier[c].wrk
              THEN [res EXCEPT !.prj = NoProject, !.wrk = NoProject] ELSE res
    /\ CopyGoes(c, "done")
    /\ UNCHANGED <<kind, prompt, ids, projects, copy, files, whole, used, slips>>

-----------------------------------------------------------------------------

\* _unresolved_duplication_reapprovals: a copy whose report is still pending accepts no run.
Runnable(p) == copy[p] = "prepared" /\ p \in whole

Use(p) ==
    /\ Runnable(p) /\ p \notin used
    /\ used' = used \cup {p}
    /\ UNCHANGED <<kind, prompt, res, ids, projects, copy, files, whole, copier, slips>>

CopyCrash ==
    /\ Slip /\ \E c \in Copiers : copier[c].pc \notin {"idle", "done"}
    /\ copier' = [c \in Copiers |-> IF CopyAt(c, "idle") THEN copier[c]
                                  ELSE [copier[c] EXCEPT !.pc = "done"]]
    /\ UNCHANGED <<kind, prompt, res, ids, projects, copy, files, whole, used>>

CopyNext ==
    \/ \E c \in Copiers :
         \/ ReserveKey(c) \/ Answered(c) \/ FindsStale(c) \/ CreateProject(c) \/ RecordProject(c)
         \/ CreateWorker(c) \/ PrepareWorkspace(c) \/ CopyFile(c) \/ Report(c) \/ Complete(c)
         \/ Trip(c) \/ CleanWorker(c) \/ FailingLooks(c) \/ Fail(c)
         \/ RecoveryCompletes(c) \/ RecoveryFails(c) \/ RecoveryAnswers(c)
         \/ RollbackFails(c) \/ RollbackDeletes(c) \/ RollbackFrees(c)
    \/ \E p \in ProjectIds : Use(p)
    \/ ReservationAges \/ CopyCrash

CopySpec == CopyInit /\ [][CopyNext]_copyVars

-----------------------------------------------------------------------------
\* Properties

(* One key makes one workspace: whatever fails, dies, is retried or is recovered by a later
   caller, the requests of a key never leave two workers behind, as long as no call outlives
   the age of its reservation. *)
OneCopy == prompt => Cardinality({p \in ProjectIds : copy[p] # "none"}) <= 1

(* What is answered as completed, or accepts work, is a whole copy: the worker exists and every
   file arrived, although the files are copied, reported and recorded in separate steps and a
   recovery may complete a reservation for a call that died. *)
CopyIsWhole ==
    /\ res.status = "completed" => copy[res.wrk] # "none" /\ res.wrk \in whole
    /\ Duplicating => \A p \in used \cup {q \in ProjectIds : res.status = "completed" /\ q = res.wrk} :
                        files[p] = Files

\* One idempotency key makes one copy of a workspace, whole, whatever fails or dies in between
\* (duplicate_workspace, instantiate_template and their recovery).
CopiedOnceAndWhole == OneCopy /\ CopyIsWhole
=============================================================================
