---------------------------- MODULE Publication ----------------------------
(***************************************************************************)
(* The versioned organization of a repository: the tree `.fleet`, its      *)
(* journal in the SQLite store and its publication by an exchange of two   *)
(* directories (application/evolution.py, adapters/persistence/            *)
(* evolution.py, adapters/config/publication.py), with the runs that are   *)
(* admitted to a version and the candidates applied under it.              *)
(*                                                                         *)
(* A directory is named by the operation that staged it, the first one by  *)
(* Origin: that is its inode.  A tree is the set of its files; the bytes,  *)
(* modes and attributes of an entry are part of its name.  Any number of   *)
(* processes have commands, and an advisory lock on the repository lets    *)
(* one of them into a session at a time; the user, who edits files, and    *)
(* the engine, which moves runs, do not take it.                           *)
(***************************************************************************)
EXTENDS Naturals, Sequences

CONSTANTS
  Proposals,      \* identities of FleetPatch proposals
  Ops,            \* identities of publication operations
  Runs,
  Files,          \* entries a proposal may hold
  Note,           \* an entry that only the user adds or takes away
  Declared,       \* the entries a configuration snapshot reads
  Base,           \* the tree that initialisation published
  Trees,          \* the trees proposals lead to
  Sources,        \* states of the repository outside `.fleet`
  Clean,          \* those without uncommitted changes
  Origin, None, Empty

Dirs == Ops \cup {Origin}
Entries == Files \cup {Note}

ASSUME PublicationAssumption ==
  /\ Origin \notin Ops /\ None \notin Dirs \cup Proposals \cup Runs
  /\ Base \subseteq Files /\ Trees \subseteq SUBSET Files
  /\ Empty \notin Dirs \cup {None}
  /\ Note \notin Files
  /\ Clean \subseteq Sources /\ Clean # {} /\ Sources \ Clean # {}

VARIABLES
  fleet,          \* the directory at `.fleet`
  scratch,        \* each operation's scratch: None, Empty, or the directory in it
  content,        \* what is in each directory
  touched,        \* directories the user has changed since they became a generation
  source,         \* the repository outside `.fleet`
  versions,       \* the organization versions, with the operation of each
  pending,        \* the fence of the head: pending_operation_id
  proposal,       \* the stored proposals
  operation,      \* the publication journal
  run,            \* the runs: status, admission, and where their patch was applied
  session         \* the command that holds the repository lock
files == <<fleet, scratch, content, touched, source>>
journal == <<versions, pending, proposal, operation>>
vars == <<files, journal, run, session>>

\* `ready` is READY_FOR_REVIEW; `applying` lasts until the run is saved as completed.
RunStates == {"none", "active", "ready", "applying", "unsettled", "ended"}
\* Mutant: a candidate that is being applied does not hold a publication back.
Blocking_withoutApplying == {"active", "unsettled"}

\* What holds a publication back: a run that may still use the organization,
\* or that ended with leases or claims nobody has settled.
Blocking == {"active", "applying", "unsettled"}
Open == {"prepared", "recovery_required"}
OpStates == Open \cup {"none", "committed", "aborted"}

Headed == versions # <<>>
Revision == Len(versions)
\* The project row changes with every committed version and not with the first
\* registration of the tree.
ProjectRow == IF Headed THEN Revision ELSE 1
HeadTree == versions[Revision].tree
Current == IF Headed THEN versions[Revision].op ELSE Origin

Config(tree) == tree \cap Declared
ProjectConfig == Config(IF Headed THEN HeadTree ELSE Base)

\* The generation a directory was staged as.
TreeOf(d) ==
  IF d # Origin THEN proposal[operation[d].prop].after
  ELSE IF Headed THEN versions[1].tree ELSE Base

Blockers == \E r \in Runs : run[r].status \in Blocking

\* The patch of a proposal leaves alone what it does not name.
Evolve(before, tree) == tree \cup (before \ Files)

Idle == [pc |-> "idle", cmd |-> "none", prop |-> None, op |-> None, run |-> None,
         seen |-> 0, before |-> {}, target |-> None, source |-> None]

Goto(label) == session' = [session EXCEPT !.pc = label]
Leave == session' = Idle
-----------------------------------------------------------------------------
(* Commands, and the session on the repository.                            *)

Commands ==
  [cmd : {"start", "propose", "patch"}, prop : {None}, op : {None}, run : Runs]
  \cup [cmd : {"apply", "rollback"}, prop : Proposals, op : {None}, run : {None}]
  \cup [cmd : {"recover"}, prop : {None}, op : Ops, run : {None}]

\* What a command looks at before it takes the lock.
Accepts(k) ==
  CASE k.cmd = "start" -> run[k.run].status = "none"
    [] k.cmd = "propose" -> run[k.run].status # "none"
    [] k.cmd = "patch" -> run[k.run].status \notin {"none", "active"}
    [] k.cmd = "apply" -> proposal[k.prop].base # 0 /\ proposal[k.prop].rollback_of = None
    [] k.cmd = "rollback" -> proposal[k.prop].base # 0
    [] k.cmd = "recover" -> operation[k.op].status # "none"

\* flock with LOCK_NB: while another command has the session, one that asks for
\* it ends.  `seen` is the copy of the project that the command read before, when
\* an earlier version may still have been the current one.
Enter ==
  /\ session.pc = "idle"
  /\ \E k \in Commands, seen \in 1..ProjectRow :
       /\ Accepts(k) /\ (k.cmd = "recover" => seen = ProjectRow)
       /\ session' = [Idle EXCEPT !.cmd = k.cmd, !.prop = k.prop, !.op = k.op, !.run = k.run,
            !.seen = seen,
            !.pc = CASE k.cmd = "recover" -> "inspect"
                     [] k.cmd = "apply" -> "check"
                     [] OTHER -> "capture"]
  /\ UNCHANGED <<files, journal, run>>

\* The process may die anywhere; the operating system drops its lock.
Crash ==
  /\ session.pc # "idle"
  /\ Leave
  /\ UNCHANGED <<files, journal, run>>

\* _capture_head: the project is the one read before, its configuration is what
\* the directory holds, nothing is pending, and the tree is the head's, byte for
\* byte.  The first capture registers what is there as version 0.
Unchanged ==
  /\ session.seen = ProjectRow
  /\ Config(content[fleet]) = ProjectConfig
  /\ pending = None
  /\ Headed => HeadTree = content[fleet]

RegisterBaseline ==
  IF Headed THEN UNCHANGED <<versions, touched>>
  ELSE /\ versions' = <<[tree |-> content[fleet], op |-> Origin]>>
       /\ touched' = {}

\* Mutant: an admission is compared by its tree, whatever revision had it.
Admitted_byTree(r) == versions[run[r].admitted].tree = HeadTree

\* OrganizationAdmission: the revision and the hashes of one version.
Admitted(r) == run[r].admitted = Revision

Capture ==
  LET k == session IN
  /\ k.pc = "capture"
  /\ IF Unchanged /\ (k.cmd \in {"propose", "patch"} => Admitted(k.run))
     THEN /\ RegisterBaseline
          /\ session' = [session EXCEPT !.pc = CASE k.cmd = "start" -> "insert"
                                             [] k.cmd = "propose" -> "save"
                                             [] k.cmd = "patch" -> "applying"
                                             [] k.cmd = "rollback" -> "invert"]
     ELSE Leave /\ UNCHANGED <<versions, touched>>
  /\ UNCHANGED <<fleet, scratch, content, source, pending, proposal, operation, run>>
-----------------------------------------------------------------------------
(* Runs and proposals.                                                     *)

\* create_run: the admission is checked in the transaction that inserts the run,
\* which starts from the source that was there when the command began.
InsertRun ==
  LET r == session.run IN
  /\ session.pc = "insert"
  /\ pending = None /\ run[r].status = "none"
  /\ \E s \in Sources :
       run' = [run EXCEPT ![r] = [status |-> "active", admitted |-> Revision,
                                  source |-> s, applied |-> 0]]
  /\ Leave
  /\ UNCHANGED <<files, journal>>

NewProposal(q) == proposal[q].base = 0

SaveProposal ==
  /\ session.pc = "save"
  /\ pending = None
  /\ \E q \in Proposals, t \in Trees :
       /\ NewProposal(q) /\ Evolve(HeadTree, t) # HeadTree
       /\ proposal' = [proposal EXCEPT ![q] =
            [base |-> Revision, before |-> HeadTree, after |-> Evolve(HeadTree, t),
             rollback_of |-> None]]
  /\ Leave
  /\ UNCHANGED <<files, versions, pending, operation, run>>

\* rollback: only what is applied now can be taken back, by a proposal that
\* restores the tree before it.
AppliedNow(p) ==
  \E o \in Ops : /\ operation[o].prop = p /\ operation[o].status = "committed"
                 /\ operation[o].version = Revision /\ Current = o

Invert ==
  LET p == session.prop IN
  /\ session.pc = "invert"
  /\ IF AppliedNow(p)
     THEN \E q \in Proposals :
            /\ NewProposal(q)
            /\ proposal' = [proposal EXCEPT ![q] =
                 [base |-> Revision, before |-> HeadTree, after |-> proposal[p].before,
                  rollback_of |-> p]]
            /\ session' = [session EXCEPT !.prop = q, !.pc = "check"]
     ELSE Leave /\ UNCHANGED proposal
  /\ UNCHANGED <<files, versions, pending, operation, run>>

\* PatchService.apply holds the session from the check of the run to its last
\* save.  The candidate was made for the source the run started from.
StartApplying ==
  LET r == session.run IN
  /\ session.pc = "applying"
  /\ IF /\ run[r].status = "ready"
        /\ Config(content[fleet]) = Config(versions[run[r].admitted].tree)
        /\ source = run[r].source
     THEN /\ run' = [run EXCEPT ![r].status = "applying"]
          /\ Goto("target")
     ELSE Leave /\ UNCHANGED run
  /\ UNCHANGED <<files, journal>>

\* A save of a run that has ended is refused.
Finish(r) == IF run[r].status = "applying" THEN "ended" ELSE run[r].status

ApplyToTarget ==
  LET r == session.run IN
  /\ session.pc = "target"
  /\ \/ /\ source = run[r].source
        /\ source' \in Sources \ Clean
        /\ run' = [run EXCEPT ![r].applied = Revision]
        /\ Goto("finish")
     \/ /\ run' = [run EXCEPT ![r].status = Finish(r)]
        /\ Leave
        /\ UNCHANGED source
  /\ UNCHANGED <<fleet, scratch, content, touched, journal>>

FinishApplying ==
  LET r == session.run IN
  /\ session.pc = "finish"
  /\ run' = [run EXCEPT ![r].status = Finish(r)]
  /\ Leave
  /\ UNCHANGED <<files, journal>>
-----------------------------------------------------------------------------
(* Publication.                                                            *)

\* Mutant: what is in the two directories is compared, and not where they are.
Observation_contents(o) ==
  LET p == proposal[operation[o].prop]
      before == operation[o].target
  IN IF content[before] = p.before /\ content[o] = p.after THEN "prepared" ELSE "unsafe"

\* What the two directories of an operation look like from outside.
Observation(o) ==
  LET p == proposal[operation[o].prop]
      before == operation[o].target
  IN CASE /\ fleet = before /\ content[before] = p.before
          /\ scratch[o] = o /\ content[o] = p.after -> "prepared"
       [] /\ fleet = o /\ content[o] = p.after
          /\ scratch[o] = before /\ content[before] = p.before -> "exchanged"
       [] OTHER -> "unsafe"

\* Mutant: an operation whose outcome is open is recorded as failed.
Retain_failed(o) ==
  operation' = IF operation[o].status = "prepared"
               THEN [operation EXCEPT ![o].status = "failed"] ELSE operation

\* _retain_recovery: the fence stays, the journal says that the outcome is open.
Retain(o) ==
  operation' = IF operation[o].status = "prepared"
               THEN [operation EXCEPT ![o].status = "recovery_required"] ELSE operation
GiveUp ==
  /\ Retain(session.op) /\ Leave
  /\ UNCHANGED <<files, versions, pending, proposal, run>>

Published(p) == \E o \in Ops : operation[o].prop = p

Check ==
  LET k == session
      p == proposal[k.prop]
  IN
  /\ k.pc = "check"
  /\ IF /\ ~Published(k.prop) /\ Unchanged
        /\ p.base = Revision /\ p.before = content[fleet]
        /\ source \in Clean
     THEN /\ session' = [session EXCEPT !.pc = "stage", !.source = source]
     ELSE Leave
  /\ UNCHANGED <<files, journal, run>>

\* A new directory beside the repository, written, flushed and compared.  What a
\* failed staging wrote stays under a name that nothing else has.
Stage ==
  LET after == proposal[session.prop].after IN
  /\ session.pc = "stage"
  /\ \/ \E o \in Ops :
          /\ scratch[o] = None /\ operation[o].status = "none"
          /\ scratch' = [scratch EXCEPT ![o] = o]
          /\ content' = [content EXCEPT ![o] = after]
          /\ session' = [session EXCEPT !.pc = "prepare", !.op = o,
                        !.target = fleet, !.before = content[fleet]]
     \/ Leave /\ UNCHANGED <<scratch, content>>
  /\ UNCHANGED <<fleet, touched, source, journal, run>>

\* prepare_operation: the journal and the fence, in one transaction.  Its answer
\* may be lost after it committed.
CanPrepare ==
  LET k == session
      p == proposal[k.prop]
  IN /\ source = k.source
     /\ ~Published(k.prop)
     /\ pending = None /\ p.base = Revision /\ k.seen = ProjectRow
     /\ k.before = p.before
     /\ ~Blockers

\* Mutant: the journal is written and the head is not fenced.
Prepare_unfenced ==
  LET k == session IN
  /\ k.pc = "prepare"
  /\ IF CanPrepare
     THEN /\ operation' = [operation EXCEPT ![k.op] =
               [status |-> "prepared", prop |-> k.prop, target |-> k.target,
                source |-> k.source, version |-> 0]]
          /\ Goto("exchange") \/ Goto("discard")
     ELSE Goto("discard") /\ UNCHANGED operation
  /\ UNCHANGED <<files, versions, pending, proposal, run>>

Prepare ==
  LET k == session IN
  /\ k.pc = "prepare"
  /\ IF CanPrepare
     THEN /\ operation' = [operation EXCEPT ![k.op] =
               [status |-> "prepared", prop |-> k.prop, target |-> k.target,
                source |-> k.source, version |-> 0]]
          /\ pending' = k.op
          /\ Goto("exchange") \/ Goto("discard")
     ELSE Goto("discard") /\ UNCHANGED <<operation, pending>>
  /\ UNCHANGED <<files, versions, proposal, run>>

\* The removal of a directory from its scratch may stop anywhere.
RemoveBackup(o) ==
  LET d == scratch[o] IN
  \/ \E rest \in SUBSET content[d] : content' = [content EXCEPT ![d] = rest] /\ UNCHANGED scratch
  \/ /\ content' = [content EXCEPT ![d] = {}]
     /\ \E left \in {Empty, None} : scratch' = [scratch EXCEPT ![o] = left]

\* Mutant: the scratch goes whenever nothing has moved, whatever the journal says.
Discard_unread ==
  LET k == session IN
  /\ k.pc = "discard"
  /\ Leave
  /\ IF /\ fleet = k.target /\ content[fleet] = k.before
        /\ scratch[k.op] = k.op /\ content[k.op] = proposal[k.prop].after
     THEN RemoveBackup(k.op)
     ELSE UNCHANGED <<scratch, content>>
  /\ UNCHANGED <<fleet, touched, source, journal, run>>

\* _discard_unprepared: the scratch goes only when no journal can know it and
\* nothing has moved.
Discard ==
  LET k == session
      p == proposal[k.prop]
  IN
  /\ k.pc = "discard"
  /\ Leave
  /\ IF Published(k.prop)
     THEN Retain(k.op) /\ UNCHANGED <<scratch, content>>
     ELSE /\ UNCHANGED operation
          /\ IF /\ pending = None /\ p.base = Revision
                /\ fleet = k.target /\ content[fleet] = k.before /\ k.before = p.before
                /\ scratch[k.op] = k.op /\ content[k.op] = p.after
             THEN RemoveBackup(k.op)
             ELSE UNCHANGED <<scratch, content>>
  /\ UNCHANGED <<fleet, touched, source, versions, pending, proposal, run>>

Exchange ==
  /\ session.pc = "exchange"
  /\ IF Observation(session.op) = "prepared"
     THEN Goto("swap") /\ UNCHANGED <<files, journal, run>>
     ELSE GiveUp

\* renameat2(RENAME_EXCHANGE): one step of the file system, or an error.
Swap ==
  LET o == session.op IN
  /\ session.pc = "swap"
  /\ \/ /\ fleet' = scratch[o]
        /\ scratch' = [scratch EXCEPT ![o] = fleet]
        /\ Goto("sync")
        /\ UNCHANGED <<content, touched, source, journal, run>>
     \/ GiveUp

SyncExchanged ==
  /\ session.pc = "sync"
  /\ IF Observation(session.op) = "exchanged"
     THEN Goto("verify") /\ UNCHANGED <<files, journal, run>>
     ELSE GiveUp

\* _commit up to its transaction: the tree is the proposal's, nothing outside moved.
Verify ==
  LET o == session.op IN
  /\ session.pc = "verify"
  /\ IF content[fleet] = proposal[operation[o].prop].after /\ source = operation[o].source
     THEN Goto("commit") /\ UNCHANGED <<files, journal, run>>
     ELSE GiveUp

\* commit_operation: version, journal, project and head in one transaction.
CommitOperation ==
  LET o == session.op IN
  /\ session.pc = "commit"
  /\ IF operation[o].status \in Open /\ ~Blockers
     THEN /\ versions' = Append(versions, [tree |-> proposal[operation[o].prop].after, op |-> o])
          /\ operation' = [operation EXCEPT ![o].status = "committed", ![o].version = Revision + 1]
          /\ pending' = None
          /\ \/ Goto("clean")
             \/ Leave
          /\ UNCHANGED <<files, proposal, run>>
     ELSE GiveUp

\* cleanup_owned: the target is checked against the outcome; the directory in
\* the scratch must be the other one, with nothing in it that its tree lacks.
Backup(o) == IF operation[o].status = "committed" THEN operation[o].target ELSE o
Kept(o) == IF operation[o].status = "committed" THEN o ELSE operation[o].target
KeptTree(o) == LET p == proposal[operation[o].prop] IN
               IF operation[o].status = "committed" THEN p.after ELSE p.before
BackupTree(o) == LET p == proposal[operation[o].prop] IN
                 IF operation[o].status = "committed" THEN p.before ELSE p.after
\* Mutant: what is in the backup is not compared with its tree.
MayRemove_anyContents(o) ==
  fleet = Kept(o) /\ content[fleet] = KeptTree(o) /\ scratch[o] = Backup(o)

MayRemove(o) ==
  /\ fleet = Kept(o) /\ content[fleet] = KeptTree(o)
  /\ scratch[o] = Backup(o)
  /\ content[Backup(o)] \subseteq BackupTree(o)

CleanupOwned ==
  LET o == session.op IN
  /\ session.pc = "clean"
  /\ Leave
  /\ \/ MayRemove(o) /\ RemoveBackup(o)
     \/ /\ fleet = Kept(o) /\ content[fleet] = KeptTree(o) /\ scratch[o] = Empty
        /\ scratch' = [scratch EXCEPT ![o] = None]
        /\ UNCHANGED content
     \/ UNCHANGED <<scratch, content>>
  /\ UNCHANGED <<fleet, touched, source, journal, run>>
-----------------------------------------------------------------------------
(* Recovery of an operation whose publisher has stopped.                   *)

\* A settled operation is only cleaned up, and only while its outcome is the head.
SettledIsHead(o) ==
  /\ pending = None
  /\ Revision = IF operation[o].status = "committed"
                THEN operation[o].version ELSE proposal[operation[o].prop].base

Inspect ==
  LET o == session.op
      seen == Observation(o)
  IN
  /\ session.pc = "inspect"
  /\ IF operation[o].status \notin Open
     THEN /\ IF SettledIsHead(o) THEN Goto("clean") ELSE Leave
          /\ UNCHANGED <<files, journal, run>>
     ELSE IF pending # o \/ proposal[operation[o].prop].base # ProjectRow
     THEN Leave /\ UNCHANGED <<files, journal, run>>
     ELSE IF source = operation[o].source /\ seen # "unsafe"
     THEN /\ Goto(IF seen = "prepared" THEN "abort" ELSE "sync")
          /\ UNCHANGED <<files, journal, run>>
     ELSE GiveUp

\* Mutant: the journal is aborted and the head stays fenced.
AbortOperation_keepsFence ==
  LET o == session.op IN
  /\ session.pc = "abort"
  /\ operation' = [operation EXCEPT ![o].status = "aborted"]
  /\ Goto("clean") \/ Leave
  /\ UNCHANGED <<files, versions, pending, proposal, run>>

\* abort_operation, for the orientation that was observed.
AbortOperation ==
  LET o == session.op IN
  /\ session.pc = "abort"
  /\ IF operation[o].status \in Open /\ pending = o
     THEN /\ operation' = [operation EXCEPT ![o].status = "aborted"]
          /\ pending' = None
          /\ \/ Goto("clean")
             \/ Leave
          /\ UNCHANGED <<files, versions, proposal, run>>
     ELSE GiveUp

Command ==
  \/ Enter \/ Crash \/ Capture
  \/ InsertRun \/ SaveProposal \/ Invert
  \/ StartApplying \/ ApplyToTarget \/ FinishApplying
  \/ Check \/ Stage \/ Prepare \/ Discard
  \/ Exchange \/ Swap \/ SyncExchanged \/ Verify
  \/ CommitOperation \/ CleanupOwned
  \/ Inspect \/ AbortOperation
-----------------------------------------------------------------------------
(* The engine, `cancel` and `recover` move runs, the user edits files; none *)
(* of them takes the lock.                                                 *)

MoveRun(r) ==
  /\ \/ /\ run[r].status = "active"
        /\ \E s \in {"ready", "unsettled", "ended"} : run' = [run EXCEPT ![r].status = s]
     \/ /\ run[r].status = "applying"
        /\ \E s \in {"unsettled", "ended"} : run' = [run EXCEPT ![r].status = s]
     \/ /\ run[r].status \in {"ready", "unsettled"}
        /\ run' = [run EXCEPT ![r].status = "ended"]
  /\ UNCHANGED <<files, journal, session>>

Linked(d) == fleet = d \/ \E o \in Ops : scratch[o] = d
Toggle(tree) == IF Note \in tree THEN tree \ {Note} ELSE tree \cup {Note}

\* The user adds the note to `.fleet` or takes it away; an editor that has the
\* directory open still does so after the directory went to the scratch.
EditOrganization(d) ==
  /\ fleet = d \/ (Linked(d) /\ \E o \in Ops : operation[o].target = d)
  /\ content' = [content EXCEPT ![d] = Toggle(@)]
  /\ touched' = IF (Note \in content'[d]) = (Note \in TreeOf(d))
                THEN touched \ {d} ELSE touched \cup {d}
  /\ UNCHANGED <<fleet, scratch, source, journal, run, session>>

EditSource ==
  /\ source' \in Sources
  /\ UNCHANGED <<fleet, scratch, content, touched, journal, run, session>>

NoProposal == [base |-> 0, before |-> {}, after |-> {}, rollback_of |-> None]
NoOperation == [status |-> "none", prop |-> None, target |-> None, source |-> None, version |-> 0]

Init ==
  /\ fleet = Origin
  /\ scratch = [o \in Ops |-> None]
  /\ content = [d \in Dirs |-> IF d = Origin THEN Base ELSE {}]
  /\ touched = {}
  /\ source \in Clean
  /\ versions = <<>> /\ pending = None
  /\ proposal = [q \in Proposals |-> NoProposal]
  /\ operation = [o \in Ops |-> NoOperation]
  /\ run = [r \in Runs |-> [status |-> "none", admitted |-> 0, source |-> None, applied |-> 0]]
  /\ session = Idle

Next ==
  \/ Command
  \/ \E r \in Runs : MoveRun(r)
  \/ \E d \in Dirs : EditOrganization(d)
  \/ EditSource

Spec == Init /\ [][Next]_vars

(* Properties.                                                             *)

Labels == {"idle", "capture", "insert", "save", "invert", "applying", "target",
  "finish", "check", "stage", "prepare", "discard", "exchange", "swap", "sync", "verify",
  "commit", "clean", "inspect", "abort"}
Contents == SUBSET Entries
SessionRecord == [pc : Labels,
  cmd : {"none", "start", "propose", "patch", "apply", "rollback", "recover"},
  prop : Proposals \cup {None}, op : Ops \cup {None}, run : Runs \cup {None},
  seen : Nat, before : Contents, target : Dirs \cup {None}, source : Sources \cup {None}]

\* The tables, the directories and the commands keep their shape.
TypeOK ==
  /\ fleet \in Dirs
  /\ scratch \in [Ops -> Dirs \cup {None, Empty}]
  /\ content \in [Dirs -> Contents]
  /\ touched \subseteq Dirs
  /\ source \in Sources
  /\ versions \in Seq([tree : Contents, op : Dirs])
  /\ pending \in Ops \cup {None}
  /\ proposal \in [Proposals -> [base : Nat, before : Contents, after : Contents,
                                 rollback_of : Proposals \cup {None}]]
  /\ operation \in [Ops -> [status : OpStates,
       prop : Proposals \cup {None}, target : Dirs \cup {None},
       source : Sources \cup {None}, version : Nat]]
  /\ run \in [Runs -> [status : RunStates, admitted : Nat,
                       source : Sources \cup {None}, applied : Nat]]
  /\ session \in SessionRecord

\* What a directory holds: its generation, as the user may have changed it.
Expected(d) == IF d \in touched THEN Toggle(TreeOf(d)) ELSE TreeOf(d)

\* At every instant, between any two steps of a publication and after any death
\* of it, `.fleet` is one whole generation: the current version, or the one under
\* the fence, and nothing but the user has changed it since it was staged
\* (stage, exchange, cleanup_owned).
FleetIsOneGeneration ==
  /\ fleet = Current \/ (pending # None /\ fleet = pending)
  /\ content[fleet] = Expected(fleet)

\* What the user added to a directory is kept, in `.fleet` or in the scratch an
\* exchange put it into, until the user takes it away again (observe,
\* _known_remainder, _remove_contents).
UserEditsStay ==
  \A d \in touched : Note \notin TreeOf(d) => Linked(d) /\ Note \in content[d]

\* A run that works, or whose candidate is being applied, does so under the
\* organization version it was admitted to (create_run, run_guard, _blockers).
ActiveRunsAreCurrent ==
  \A r \in Runs : run[r].status \in {"active", "applying"} => run[r].admitted = Revision

\* A candidate reaches the user's files only while the organization is still at
\* the revision its run was admitted to, even if a later version has the same
\* bytes (PatchService.apply, run_guard).
AppliedUnderOwnGeneration ==
  \A r \in Runs : run[r].applied # 0 => run[r].applied = run[r].admitted

\* Wherever a publisher dies, the two directories of the operation under the
\* fence are in one of the two orientations that recovery can finish, unless the
\* user changed one of them (prepare_operation before exchange, _discard_unprepared).
AlwaysRecoverable ==
  (pending # None /\ touched \cap {pending, operation[pending].target} = {})
    => Observation(pending) \in {"prepared", "exchanged"}

\* The head's fence, the journal and the versions tell one story: an operation is
\* open exactly while it is the fence, committed exactly when it made its version,
\* and no proposal is published twice (prepare, commit and abort_operation).
JournalAndVersionsAgree ==
  /\ \A o \in Ops :
       /\ operation[o].status \in Open <=> pending = o
       /\ operation[o].status = "committed"
            <=> \E v \in 2..Revision : versions[v].op = o
  /\ \A o1, o2 \in Ops : operation[o1].prop = operation[o2].prop
                           => o1 = o2 \/ operation[o1].prop = None

\* Publication implements the log of generations: what is shown changes only to
\* the fenced generation and is never taken back.
History == IF Headed THEN [i \in 1..Revision |-> versions[i].op] ELSE <<Origin>>
Log == INSTANCE GenerationLog WITH
  Generations <- Dirs, First <- Origin, NoGeneration <- None,
  history <- History, fence <- pending, shown <- fleet
GenerationsSpec == Log!LogSpec
=============================================================================
