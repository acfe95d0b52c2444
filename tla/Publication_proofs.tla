------------------------- MODULE Publication_proofs -------------------------
(***************************************************************************)
(* Proofs about Publication, for any proposals, operations, runs and       *)
(* trees: types, the journal and the versions, runs and candidates under   *)
(* their own version, the refinement of GenerationLog, and what the        *)
(* directories hold whatever the user edits.                               *)
(***************************************************************************)
EXTENDS Publication, SequenceTheorems, TLAPS

\* The labels between the fence and its end.
Working == {"exchange", "swap", "sync", "verify", "commit", "abort"}
\* The labels that _capture_head lets a session reach.
Captured == {"insert", "save", "invert", "applying", "target", "finish"}

\* What the session works on, by its label.
Kinds ==
  /\ session.pc \in {"prepare", "discard", "clean", "inspect"} \cup Working => session.op \in Ops
  /\ session.pc \in {"invert", "check", "stage", "prepare", "discard"} => session.prop \in Proposals
  /\ session.pc \in {"insert", "applying", "target", "finish"} => session.run \in Runs
  /\ session.pc = "capture" =>
       \/ session.cmd \in {"start", "propose", "patch"} /\ session.run \in Runs
       \/ session.cmd = "rollback" /\ session.prop \in Proposals
  /\ session.pc = "prepare" => session.target \in Dirs \ {session.op}

\* What the session knows of the journal and of the directories.
Knows ==
  /\ session.pc \in {"check", "stage", "prepare"} => proposal[session.prop].base # 0
  /\ session.pc = "capture" /\ session.cmd \in {"propose", "patch"} =>
       run[session.run].status # "none"
  /\ session.pc \in Captured => pending = None /\ Headed
  /\ session.pc \in {"applying", "target"} => run[session.run].admitted = Revision
  /\ session.pc = "prepare" => operation[session.op].status = "none"
  /\ session.pc = "inspect" => operation[session.op].status # "none"
  /\ session.pc \in Working => pending = session.op
  /\ session.pc = "swap" => scratch[session.op] = session.op
  /\ session.pc \in {"swap", "abort"} => fleet # session.op
  /\ session.pc \in {"sync", "verify", "commit"} => fleet = session.op
  /\ session.pc = "clean" => operation[session.op].status \in {"committed", "aborted"}

\* The journal: what an operation names, and where the versions come from.
Journal ==
  /\ JournalAndVersionsAgree
  /\ \A o \in Ops : operation[o].status # "none" =>
       operation[o].prop \in Proposals /\ operation[o].target \in Dirs \ {o}
  /\ pending # None => Headed
  /\ Headed => versions[1].op = Origin
  /\ \A v \in 2..Revision : versions[v].op \in Ops

\* What is shown is the current version or the one under the fence.
Shown == fleet = Current \/ (pending # None /\ fleet = pending)

\* Runs and publications keep out of each other's way.
Apart ==
  /\ pending # None => ~Blockers
  /\ ~Headed => \A r \in Runs : run[r].status = "none"
  /\ ActiveRunsAreCurrent
  /\ AppliedUnderOwnGeneration

\* The inductive invariant.
Inv == TypeOK /\ Kinds /\ Knows /\ Journal /\ Shown /\ Apart
-----------------------------------------------------------------------------
\* Every way a command changes its session leaves a session.
LEMMA SessionFields ==
  ASSUME TypeOK
  PROVE  /\ session \in SessionRecord /\ session.pc \in Labels
         /\ Leave => session' \in SessionRecord /\ session'.pc = "idle"
         /\ \A l \in Labels : Goto(l) =>
              /\ session' \in SessionRecord /\ session'.pc = l
              /\ session'.op = session.op /\ session'.prop = session.prop
              /\ session'.run = session.run /\ session'.target = session.target
<1>1. session \in SessionRecord
  BY DEF TypeOK
<1>2. session.pc \in Labels
  BY <1>1 DEF SessionRecord
<1>3. Idle \in SessionRecord /\ Idle.pc = "idle"
  BY DEF Idle, SessionRecord, Labels, Contents
<1>4. ASSUME NEW l \in Labels, Goto(l)
      PROVE  /\ session' \in SessionRecord /\ session'.pc = l
             /\ session'.op = session.op /\ session'.prop = session.prop
             /\ session'.run = session.run /\ session'.target = session.target
  BY <1>1, <1>4 DEF Goto, SessionRecord
<1> QED
  BY <1>1, <1>2, <1>3, <1>4 DEF Leave

\* The project begins with types in order.
LEMMA InitHolds == Init => Inv
<1> SUFFICES ASSUME Init PROVE Inv
  OBVIOUS
<1>1. Idle \in SessionRecord
  BY DEF Idle, SessionRecord, Labels, Contents
<1>2. TypeOK
  <2>1. scratch \in [Ops -> Dirs \cup {None, Empty}] /\ content \in [Dirs -> Contents]
    BY PublicationAssumption DEF Init, Contents, Entries, Dirs
  <2>2. versions \in Seq([tree : Contents, op : Dirs])
    BY DEF Init
  <2>3. proposal \in [Proposals -> [base : Nat, before : Contents, after : Contents,
                                    rollback_of : Proposals \cup {None}]]
    BY DEF Init, NoProposal, Contents
  <2>4. operation \in [Ops -> [status : OpStates,
          prop : Proposals \cup {None}, target : Dirs \cup {None},
          source : Sources \cup {None}, version : Nat]]
    BY DEF Init, NoOperation, OpStates
  <2>5. run \in [Runs -> [status : RunStates, admitted : Nat,
                          source : Sources \cup {None}, applied : Nat]]
    BY DEF Init, RunStates
  <2> QED
    BY <1>1, <2>1, <2>2, <2>3, <2>4, <2>5, PublicationAssumption DEF Init, TypeOK, Dirs
<1>3. Kinds /\ Knows
  BY DEF Init, Kinds, Knows, Idle, Working, Captured
<1>4. Journal
  <2>1. versions = <<>> /\ Revision = 0 /\ ~Headed /\ pending = None
    BY DEF Init, Revision, Headed
  <2>2. \A o \in Ops : operation[o].status = "none" /\ operation[o].prop = None /\ pending # o
    BY PublicationAssumption DEF Init, NoOperation, Dirs
  <2> QED
    BY <2>1, <2>2 DEF Journal, JournalAndVersionsAgree, Open
<1>5. Shown /\ Apart
  BY DEF Init, Shown, Current, Headed, Apart, ActiveRunsAreCurrent, AppliedUnderOwnGeneration
<1> QED
  BY <1>2, <1>3, <1>4, <1>5 DEF Inv

\* Sequences hold what their type says, and so do longer and shorter ones.
LEMMA Sequences ==
  ASSUME NEW S, NEW s \in Seq(S)
  PROVE  /\ Len(s) \in Nat /\ (s # <<>> <=> Len(s) \in 1..Len(s))
         /\ \A i \in 1..Len(s) : s[i] \in S
         /\ \A e \in S : /\ <<e>> \in Seq(S) /\ Append(s, e) \in Seq(S)
                         /\ Len(Append(s, e)) = Len(s) + 1
                         /\ Append(s, e)[Len(s) + 1] = e
                         /\ \A i \in 1..Len(s) : Append(s, e)[i] = s[i]
  OBVIOUS

\* What the tables hold has its type.
LEMMA Rows ==
  ASSUME TypeOK
  PROVE  /\ Revision \in Nat /\ (Headed => HeadTree \in Contents /\ Revision \in 1..Revision)
         /\ \A q \in Proposals : /\ proposal[q].base \in Nat /\ proposal[q].before \in Contents
                                 /\ proposal[q].after \in Contents
         /\ \A d \in Dirs : content[d] \in Contents
         /\ Current \in Dirs
<1>1. versions \in Seq([tree : Contents, op : Dirs])
  BY DEF TypeOK
<1>2. Revision \in Nat /\ (Headed => Revision \in 1..Revision)
  BY <1>1, Sequences DEF Revision, Headed
<1>3. Headed => versions[Revision] \in [tree : Contents, op : Dirs]
  BY <1>1, <1>2, Sequences DEF Revision
<1> QED
  BY <1>2, <1>3 DEF TypeOK, HeadTree, Current, Dirs

\* The status of a run changes, or where it was applied, and nothing else.
LEMMA RunTypes ==
  ASSUME TypeOK, NEW r \in Runs
  PROVE  /\ \A s \in RunStates : [run EXCEPT ![r].status = s] \in [Runs -> [status : RunStates, admitted : Nat,
                           source : Sources \cup {None}, applied : Nat]]
         /\ \A n \in Nat : [run EXCEPT ![r].applied = n] \in [Runs -> [status : RunStates, admitted : Nat,
                           source : Sources \cup {None}, applied : Nat]]
  BY DEF TypeOK

\* The status of an operation changes and nothing else.
LEMMA StatusTypes ==
  ASSUME TypeOK, NEW o \in Ops, NEW s \in OpStates
  PROVE  [operation EXCEPT ![o].status = s] \in [Ops -> [status : OpStates,
           prop : Proposals \cup {None}, target : Dirs \cup {None},
           source : Sources \cup {None}, version : Nat]]
  BY DEF TypeOK

\* Giving up leaves an idle session and the outcome open.
LEMMA GivenUp ==
  ASSUME TypeOK, session.op \in Ops, GiveUp
  PROVE  TypeOK' /\ Kinds'
<1>1. operation' \in [Ops -> [status : OpStates,
           prop : Proposals \cup {None}, target : Dirs \cup {None},
           source : Sources \cup {None}, version : Nat]]
  BY StatusTypes DEF GiveUp, Retain, OpStates, Open, TypeOK
<1>2. session' \in SessionRecord /\ session'.pc = "idle"
  BY SessionFields DEF GiveUp
<1>3. TypeOK'
  BY <1>1, <1>2 DEF GiveUp, TypeOK, files
<1> QED
  BY <1>2, <1>3 DEF Kinds, Working

\* What a removal leaves of a directory is a tree.
LEMMA RemovalTypes ==
  ASSUME TypeOK, NEW o \in Ops, scratch[o] \in Dirs, RemoveBackup(o)
  PROVE  scratch' \in [Ops -> Dirs \cup {None, Empty}] /\ content' \in [Dirs -> Contents]
<1>1. content[scratch[o]] \subseteq Entries
  BY DEF TypeOK, Contents
<1> QED
  BY <1>1 DEF RemoveBackup, TypeOK, Contents

\* An operation that is in no journal is not what the repository shows.
LEMMA NotShown ==
  ASSUME Inv, NEW o \in Ops, operation[o].status = "none"
  PROVE  fleet # o
<1>1. pending # o
  BY DEF Inv, Journal, JournalAndVersionsAgree, Open
<1>2. Current # o
  <2>1. CASE ~Headed
    BY <2>1, PublicationAssumption DEF Current
  <2>2. CASE Headed
    <3>1. Revision \in 1..Revision /\ Revision \in Nat
      BY <2>2, Rows DEF Inv
    <3>2. CASE Revision = 1
      BY <2>2, <3>2, PublicationAssumption DEF Inv, Journal, Current
    <3>3. CASE Revision # 1
      <4>1. Revision \in 2..Revision
        BY <3>1, <3>3
      <4> QED
        BY <4>1, <2>2 DEF Inv, Journal, JournalAndVersionsAgree, Current
    <3> QED
      BY <3>2, <3>3
  <2> QED
    BY <2>1, <2>2
<1> QED
  BY <1>1, <1>2 DEF Inv, Shown

\* Every step of a command keeps the types, and goes on with something its label can use.
LEMMA TypesOfCommands ==
  ASSUME Inv, Command
  PROVE  TypeOK' /\ Kinds'
<1> USE DEF Inv, files, journal
<1>0. TypeOK /\ Kinds
  OBVIOUS
<1>1. CASE Enter
  <2>1. PICK k \in Commands, seen \in 1..ProjectRow :
          /\ Accepts(k)
          /\ session' = [Idle EXCEPT !.cmd = k.cmd, !.prop = k.prop, !.op = k.op, !.run = k.run,
               !.seen = seen,
               !.pc = CASE k.cmd = "recover" -> "inspect"
                        [] k.cmd = "apply" -> "check"
                        [] OTHER -> "capture"]
    BY <1>1 DEF Enter
  <2>2. seen \in Nat
    OBVIOUS
  <2>3. session' \in SessionRecord
    BY <2>1, <2>2 DEF Commands, Idle, SessionRecord, Labels, Contents
  <2>4. Kinds'
    BY <2>1 DEF Commands, Idle, Kinds, Working
  <2> QED
    BY <1>0, <1>1, <2>3, <2>4 DEF Enter, TypeOK
<1>2. CASE Crash
  BY <1>0, <1>2, SessionFields DEF Crash, TypeOK, Kinds, Working
<1>3. CASE Capture
  <2>1. content[fleet] \in Contents /\ versions \in Seq([tree : Contents, op : Dirs])
    BY <1>0, Rows DEF TypeOK
  <2>2. session' \in SessionRecord /\ Kinds'
    <3>1. CASE Leave
      BY <3>1, <1>0, SessionFields DEF Kinds, Working
    <3>2. CASE session' = [session EXCEPT !.pc = CASE session.cmd = "start" -> "insert"
                                             [] session.cmd = "propose" -> "save"
                                             [] session.cmd = "patch" -> "applying"
                                             [] session.cmd = "rollback" -> "invert"]
      <4>1. session \in SessionRecord /\ session.cmd \in {"start", "propose", "patch", "rollback"}
        BY <1>0, <1>3 DEF TypeOK, Kinds, Capture
      <4>2. PICK l \in {"insert", "save", "applying", "invert"} :
              session' = [session EXCEPT !.pc = l] /\ (l = "invert" <=> session.cmd = "rollback")
                /\ (l \in {"insert", "applying"} => session.cmd \in {"start", "patch"})
        BY <3>2, <4>1
      <4>3. /\ session' \in SessionRecord /\ session'.pc = l
            /\ session'.run = session.run /\ session'.prop = session.prop
        BY <4>1, <4>2 DEF SessionRecord, Labels
      <4>4. Kinds'
        BY <4>2, <4>3, <1>0, <1>3 DEF Capture, Kinds, Working
      <4> QED
        BY <4>3, <4>4
    <3> QED
      BY <3>1, <3>2, <1>3 DEF Capture
  <2>3. versions' \in Seq([tree : Contents, op : Dirs]) /\ touched' \subseteq Dirs
    <3>1. [tree |-> content[fleet], op |-> Origin] \in [tree : Contents, op : Dirs]
      BY <2>1 DEF Dirs
    <3>2. <<[tree |-> content[fleet], op |-> Origin]>> \in Seq([tree : Contents, op : Dirs])
      BY <3>1
    <3> QED
      BY <2>1, <3>2, <1>0, <1>3 DEF Capture, RegisterBaseline, TypeOK
  <2> QED
    BY <2>2, <2>3, <1>0, <1>3 DEF Capture, TypeOK
<1>4. CASE InsertRun
  <2>1. session.run \in Runs /\ Revision \in Nat
    BY <1>0, <1>4, Rows DEF InsertRun, Kinds
  <2>2. run' \in [Runs -> [status : RunStates, admitted : Nat,
                           source : Sources \cup {None}, applied : Nat]]
    BY <2>1, <1>0, <1>4 DEF InsertRun, TypeOK, RunStates
  <2> QED
    BY <2>2, <1>0, <1>4, SessionFields DEF InsertRun, TypeOK, Kinds, Working
<1>5. CASE SaveProposal
  <2>1. Headed /\ HeadTree \in Contents /\ Revision \in Nat
    BY <1>0, <1>5, Rows DEF SaveProposal, Knows, Captured
  <2>2. \A t \in Trees : Evolve(HeadTree, t) \in Contents
    BY <2>1, PublicationAssumption DEF Evolve, Contents, Entries
  <2>3. proposal' \in [Proposals -> [base : Nat, before : Contents, after : Contents,
                                        rollback_of : Proposals \cup {None}]]
    BY <2>1, <2>2, <1>0, <1>5 DEF SaveProposal, TypeOK
  <2> QED
    BY <2>3, <1>0, <1>5, SessionFields DEF SaveProposal, TypeOK, Kinds, Working
<1>6. CASE Invert
  <2>1. /\ Headed /\ HeadTree \in Contents /\ Revision \in Nat /\ session.prop \in Proposals
        /\ proposal[session.prop].before \in Contents
    BY <1>0, <1>6, Rows DEF Invert, Knows, Kinds, Captured
  <2>2. CASE Leave /\ UNCHANGED proposal
    BY <2>2, <1>0, <1>6, SessionFields DEF Invert, TypeOK, Kinds, Working
  <2>3. ASSUME NEW q \in Proposals,
               proposal' = [proposal EXCEPT ![q] =
                 [base |-> Revision, before |-> HeadTree,
                  after |-> proposal[session.prop].before, rollback_of |-> session.prop]],
               session' = [session EXCEPT !.prop = q, !.pc = "check"]
        PROVE  TypeOK' /\ Kinds'
    <3>1. proposal' \in [Proposals -> [base : Nat, before : Contents, after : Contents,
                                        rollback_of : Proposals \cup {None}]]
      BY <2>1, <2>3, <1>0 DEF TypeOK
    <3>2. session' \in SessionRecord
      BY <2>3, <1>0, SessionFields DEF SessionRecord, Labels
    <3>3. Kinds'
      BY <2>3, <1>0, SessionFields DEF Kinds, Working, SessionRecord
    <3> QED
      BY <3>1, <3>2, <3>3, <1>0, <1>6 DEF Invert, TypeOK
  <2> QED
    BY <2>2, <2>3, <1>6 DEF Invert
<1>7. CASE StartApplying
  <2>1. run' \in [Runs -> [status : RunStates, admitted : Nat,
                           source : Sources \cup {None}, applied : Nat]]
    <3>1. session.run \in Runs /\ run \in [Runs -> [status : RunStates, admitted : Nat,
                           source : Sources \cup {None}, applied : Nat]] /\ "applying" \in RunStates
      BY <1>0, <1>7 DEF StartApplying, Kinds, TypeOK, RunStates
    <3> QED
      BY <3>1, <1>0, <1>7, RunTypes DEF StartApplying
  <2>2. session' \in SessionRecord /\ Kinds'
    BY <1>0, <1>7, SessionFields DEF StartApplying, Kinds, Working, Labels
  <2> QED
    BY <2>1, <2>2, <1>0, <1>7 DEF StartApplying, TypeOK
<1>8. CASE ApplyToTarget
  <2>1. run' \in [Runs -> [status : RunStates, admitted : Nat,
                           source : Sources \cup {None}, applied : Nat]]
    <3>1. Revision \in Nat /\ session.run \in Runs /\ Finish(session.run) \in RunStates
      BY <1>0, <1>8, Rows DEF ApplyToTarget, Kinds, Finish, RunStates, TypeOK
    <3> QED
      BY <3>1, <1>0, <1>8, RunTypes DEF ApplyToTarget
  <2>2. session' \in SessionRecord /\ Kinds'
    BY <1>0, <1>8, SessionFields DEF ApplyToTarget, Kinds, Working, Labels
  <2>3. source' \in Sources
    BY <1>0, <1>8 DEF ApplyToTarget, TypeOK
  <2> QED
    BY <2>1, <2>2, <2>3, <1>0, <1>8 DEF ApplyToTarget, TypeOK
<1>9. CASE FinishApplying
  <2>1. session.run \in Runs /\ Finish(session.run) \in RunStates
    BY <1>0, <1>9 DEF FinishApplying, Kinds, Finish, RunStates, TypeOK
  <2>2. run' \in [Runs -> [status : RunStates, admitted : Nat,
                           source : Sources \cup {None}, applied : Nat]]
    BY <2>1, <1>0, <1>9 DEF FinishApplying, TypeOK
  <2> QED
    BY <2>2, <1>0, <1>9, SessionFields DEF FinishApplying, TypeOK, Kinds, Working
<1>10. CASE Check
  <2>1. CASE Leave
    BY <2>1, <1>0, <1>10, SessionFields DEF Check, TypeOK, Kinds, Working
  <2>2. CASE session' = [session EXCEPT !.pc = "stage", !.source = source]
    <3>1. session' \in SessionRecord
      BY <2>2, <1>0, SessionFields DEF SessionRecord, Labels, TypeOK
    <3>2. Kinds'
      BY <2>2, <1>0, <1>10, SessionFields DEF Check, Kinds, Working, SessionRecord
    <3> QED
      BY <3>1, <3>2, <1>0, <1>10 DEF Check, TypeOK
  <2> QED
    BY <2>1, <2>2, <1>10 DEF Check
<1>11. CASE Stage
  <2>1. session.prop \in Proposals /\ proposal[session.prop].after \in Contents
    BY <1>0, <1>11, Rows DEF Stage, Kinds
  <2>2. CASE Leave /\ UNCHANGED <<scratch, content>>
    BY <2>2, <1>0, <1>11, SessionFields DEF Stage, TypeOK, Kinds, Working
  <2>3. ASSUME NEW o \in Ops, operation[o].status = "none",
               scratch' = [scratch EXCEPT ![o] = o],
               content' = [content EXCEPT ![o] = proposal[session.prop].after],
               session' = [session EXCEPT !.pc = "prepare", !.op = o,
                             !.target = fleet, !.before = content[fleet]]
        PROVE  TypeOK' /\ Kinds'
    <3>1. o \in Dirs /\ fleet \in Dirs /\ content[fleet] \in Contents
      BY <1>0, Rows DEF TypeOK, Dirs
    <3>2. scratch' \in [Ops -> Dirs \cup {None, Empty}] /\ content' \in [Dirs -> Contents]
      BY <2>1, <2>3, <3>1, <1>0 DEF TypeOK
    <3>3. session' \in SessionRecord
      BY <2>3, <3>1, <1>0, SessionFields DEF SessionRecord, Labels
    <3>4. fleet # o
      BY <2>3, NotShown
    <3>5. Kinds'
      BY <2>1, <2>3, <3>1, <3>4, <1>0, SessionFields DEF Kinds, Working, SessionRecord
    <3> QED
      BY <3>2, <3>3, <3>5, <1>0, <1>11 DEF Stage, TypeOK
  <2> QED
    BY <2>2, <2>3, <1>11 DEF Stage
<1>12. CASE Prepare
  <2>1. session.op \in Ops /\ session.prop \in Proposals /\ session.target \in Dirs \ {session.op}
    BY <1>0, <1>12 DEF Prepare, Kinds
  <2>2. session.source \in Sources \cup {None}
    BY <1>0 DEF TypeOK, SessionRecord
  <2>3. /\ operation' \in [Ops -> [status : OpStates,
           prop : Proposals \cup {None}, target : Dirs \cup {None},
           source : Sources \cup {None}, version : Nat]]
        /\ pending' \in Ops \cup {None}
    <3>1. CASE UNCHANGED <<operation, pending>>
      BY <3>1, <1>0 DEF TypeOK
    <3>2. CASE /\ operation' = [operation EXCEPT ![session.op] =
                    [status |-> "prepared", prop |-> session.prop, target |-> session.target,
                     source |-> session.source, version |-> 0]]
               /\ pending' = session.op
      BY <3>2, <2>1, <2>2, <1>0 DEF TypeOK, OpStates, Open
    <3> QED
      BY <3>1, <3>2, <1>12 DEF Prepare
  <2>4. session' \in SessionRecord /\ Kinds'
    BY <2>1, <1>0, <1>12, SessionFields DEF Prepare, Kinds, Working, Labels
  <2> QED
    BY <2>3, <2>4, <1>0, <1>12 DEF Prepare, TypeOK
<1>13. CASE Discard
  <2>1. session.op \in Ops /\ session.op \in Dirs
    BY <1>0, <1>13 DEF Discard, Kinds, Dirs
  <2>2. session' \in SessionRecord /\ Kinds'
    BY <1>0, <1>13, SessionFields DEF Discard, Kinds, Working
  <2>3. operation' \in [Ops -> [status : OpStates,
           prop : Proposals \cup {None}, target : Dirs \cup {None},
           source : Sources \cup {None}, version : Nat]]
    <3>1. operation \in [Ops -> [status : OpStates,
           prop : Proposals \cup {None}, target : Dirs \cup {None},
           source : Sources \cup {None}, version : Nat]] /\ "recovery_required" \in OpStates
      BY <1>0 DEF TypeOK, OpStates, Open
    <3> QED
      BY <2>1, <3>1, <1>0, <1>13, StatusTypes DEF Discard, Retain
  <2>4. scratch' \in [Ops -> Dirs \cup {None, Empty}] /\ content' \in [Dirs -> Contents]
    <3>1. CASE UNCHANGED <<scratch, content>>
      BY <3>1, <1>0 DEF TypeOK
    <3>2. CASE scratch[session.op] = session.op /\ RemoveBackup(session.op)
      BY <3>2, <2>1, <1>0, RemovalTypes
    <3> QED
      BY <3>1, <3>2, <1>13 DEF Discard
  <2> QED
    BY <2>2, <2>3, <2>4, <1>0, <1>13 DEF Discard, TypeOK
<1>14. CASE Exchange
  <2>1. CASE GiveUp
    BY <2>1, <1>0, <1>14, GivenUp DEF Exchange, Kinds, Working
  <2>2. CASE Goto("swap") /\ UNCHANGED <<files, journal, run>>
    BY <2>2, <1>0, <1>14, SessionFields DEF Exchange, TypeOK, Kinds, Working, Labels
  <2> QED
    BY <2>1, <2>2, <1>14 DEF Exchange
<1>15. CASE Swap
  <2>1. session.op \in Ops /\ scratch[session.op] = session.op
    BY <1>0, <1>15 DEF Swap, Kinds, Knows, Working
  <2>2. CASE GiveUp
    BY <2>1, <2>2, <1>0, GivenUp
  <2>3. CASE /\ fleet' = scratch[session.op]
             /\ scratch' = [scratch EXCEPT ![session.op] = fleet]
             /\ Goto("sync")
             /\ UNCHANGED <<content, touched, source, journal, run>>
    <3>1. fleet' \in Dirs /\ scratch' \in [Ops -> Dirs \cup {None, Empty}]
      BY <2>1, <2>3, <1>0 DEF TypeOK, Dirs
    <3>2. session' \in SessionRecord /\ Kinds'
      BY <2>1, <2>3, <1>0, SessionFields DEF Kinds, Working, Labels
    <3> QED
      BY <3>1, <3>2, <2>3, <1>0 DEF TypeOK
  <2> QED
    BY <2>2, <2>3, <1>15 DEF Swap
<1>16. CASE SyncExchanged
  <2>1. CASE GiveUp
    BY <2>1, <1>0, <1>16, GivenUp DEF SyncExchanged, Kinds, Working
  <2>2. CASE Goto("verify") /\ UNCHANGED <<files, journal, run>>
    BY <2>2, <1>0, <1>16, SessionFields DEF SyncExchanged, TypeOK, Kinds, Working, Labels
  <2> QED
    BY <2>1, <2>2, <1>16 DEF SyncExchanged
<1>17. CASE Verify
  <2>1. CASE GiveUp
    BY <2>1, <1>0, <1>17, GivenUp DEF Verify, Kinds, Working
  <2>2. CASE Goto("commit") /\ UNCHANGED <<files, journal, run>>
    BY <2>2, <1>0, <1>17, SessionFields DEF Verify, TypeOK, Kinds, Working, Labels
  <2> QED
    BY <2>1, <2>2, <1>17 DEF Verify
<1>18. CASE CommitOperation
  <2>1. session.op \in Ops /\ session.op \in Dirs
    BY <1>0, <1>18 DEF CommitOperation, Kinds, Working, Dirs
  <2>2. CASE GiveUp
    BY <2>1, <2>2, <1>0, GivenUp
  <2>3. CASE ~GiveUp
    <3>1. /\ operation[session.op].status \in Open
          /\ versions' = Append(versions,
               [tree |-> proposal[operation[session.op].prop].after, op |-> session.op])
          /\ operation' = [operation EXCEPT ![session.op].status = "committed",
                                            ![session.op].version = Revision + 1]
          /\ pending' = None /\ (Goto("clean") \/ Leave) /\ UNCHANGED <<files, proposal, run>>
      BY <2>3, <1>18 DEF CommitOperation
    <3>2. operation[session.op].prop \in Proposals
      BY <2>1, <3>1 DEF Journal, Open
    <3>3. versions' \in Seq([tree : Contents, op : Dirs])
      BY <2>1, <3>1, <3>2, <1>0, Rows DEF TypeOK
    <3>4. operation' \in [Ops -> [status : OpStates,
             prop : Proposals \cup {None}, target : Dirs \cup {None},
             source : Sources \cup {None}, version : Nat]]
      <4>1. Revision + 1 \in Nat /\ "committed" \in OpStates
        BY <1>0, Rows DEF OpStates
      <4> DEFINE Row == [status : OpStates,
             prop : Proposals \cup {None}, target : Dirs \cup {None},
             source : Sources \cup {None}, version : Nat]
      <4>2. operation \in [Ops -> Row]
        BY <1>0 DEF TypeOK
      <4>3. [operation[session.op] EXCEPT !.status = "committed", !.version = Revision + 1] \in Row
        BY <4>1, <4>2, <2>1
      <4>4. operation' = [operation EXCEPT ![session.op] =
              [operation[session.op] EXCEPT !.status = "committed", !.version = Revision + 1]]
        BY <3>1, <4>2, <2>1
      <4> HIDE DEF Row
      <4>5. operation' \in [Ops -> Row]
        BY <4>2, <4>3, <4>4, <2>1
      <4> QED
        BY <4>5 DEF Row
    <3>5. session' \in SessionRecord /\ Kinds'
      BY <2>1, <3>1, <1>0, SessionFields DEF Kinds, Working, Labels
    <3> QED
      BY <3>1, <3>3, <3>4, <3>5, <1>0 DEF TypeOK
  <2> QED
    BY <2>2, <2>3
<1>19. CASE CleanupOwned
  <2>1. session.op \in Ops /\ operation[session.op].status \in {"committed", "aborted"}
    BY <1>0, <1>19 DEF CleanupOwned, Kinds, Knows
  <2>2. Backup(session.op) \in Dirs
    BY <2>1 DEF Journal, Backup, Dirs
  <2>3. scratch' \in [Ops -> Dirs \cup {None, Empty}] /\ content' \in [Dirs -> Contents]
    <3>1. CASE MayRemove(session.op) /\ RemoveBackup(session.op)
      BY <3>1, <2>1, <2>2, <1>0, RemovalTypes DEF MayRemove
    <3>2. CASE scratch' = [scratch EXCEPT ![session.op] = None] /\ UNCHANGED content
      BY <3>2, <1>0 DEF TypeOK
    <3>3. CASE UNCHANGED <<scratch, content>>
      BY <3>3, <1>0 DEF TypeOK
    <3> QED
      BY <3>1, <3>2, <3>3, <1>19 DEF CleanupOwned
  <2> QED
    BY <2>3, <1>0, <1>19, SessionFields DEF CleanupOwned, TypeOK, Kinds, Working
<1>20. CASE Inspect
  <2>1. session.op \in Ops
    BY <1>0, <1>20 DEF Inspect, Kinds
  <2>2. CASE GiveUp
    BY <2>1, <2>2, <1>0, GivenUp
  <2>3. CASE Leave /\ UNCHANGED <<files, journal, run>>
    BY <2>3, <1>0, SessionFields DEF TypeOK, Kinds, Working
  <2>4. ASSUME NEW l \in {"clean", "abort", "sync"}, Goto(l), UNCHANGED <<files, journal, run>>
        PROVE  TypeOK' /\ Kinds'
    BY <2>1, <2>4, <1>0, SessionFields DEF TypeOK, Kinds, Working, Labels
  <2> QED
    BY <2>2, <2>3, <2>4, <1>20 DEF Inspect
<1>21. CASE AbortOperation
  <2>1. session.op \in Ops
    BY <1>0, <1>21 DEF AbortOperation, Kinds, Working
  <2>2. CASE GiveUp
    BY <2>1, <2>2, <1>0, GivenUp
  <2>3. CASE ~GiveUp
    <3>1. operation' \in [Ops -> [status : OpStates,
             prop : Proposals \cup {None}, target : Dirs \cup {None},
             source : Sources \cup {None}, version : Nat]]
      BY <2>1, <2>3, <1>0, <1>21, StatusTypes DEF AbortOperation, OpStates
    <3>2. session' \in SessionRecord /\ Kinds'
      BY <2>1, <2>3, <1>0, <1>21, SessionFields DEF AbortOperation, Kinds, Working, Labels
    <3> QED
      BY <3>1, <3>2, <2>3, <1>0, <1>21 DEF AbortOperation, TypeOK
  <2> QED
    BY <2>2, <2>3
<1> QED
  BY <1>1, <1>2, <1>3, <1>4, <1>5, <1>6, <1>7, <1>8, <1>9, <1>10, <1>11, <1>12, <1>13,
     <1>14, <1>15, <1>16, <1>17, <1>18, <1>19, <1>20, <1>21 DEF Command

\* The engine and the user keep the types and leave the session alone.
LEMMA TypesOfOthers ==
  ASSUME Inv, \/ \E r \in Runs : MoveRun(r)
              \/ \E d \in Dirs : EditOrganization(d)
              \/ EditSource
  PROVE  TypeOK' /\ Kinds' /\ session' = session
<1> USE DEF Inv, files, journal
<1>1. ASSUME NEW r \in Runs, MoveRun(r)
      PROVE  TypeOK' /\ Kinds' /\ session' = session
  <2>1. run' \in [Runs -> [status : RunStates, admitted : Nat,
                           source : Sources \cup {None}, applied : Nat]]
    <3>1. PICK s \in {"ready", "unsettled", "ended"} : run' = [run EXCEPT ![r].status = s]
      BY <1>1 DEF MoveRun
    <3>2. s \in RunStates
      BY DEF RunStates
    <3> QED
      BY <3>1, <3>2, RunTypes
  <2> QED
    BY <2>1, <1>1 DEF MoveRun, TypeOK, Kinds
<1>2. ASSUME NEW d \in Dirs, EditOrganization(d)
      PROVE  TypeOK' /\ Kinds' /\ session' = session
  <2>1. content[d] \in Contents
    BY Rows
  <2>2. Toggle(content[d]) \in Contents
    BY <2>1 DEF Toggle, Contents, Entries
  <2>3. content' \in [Dirs -> Contents] /\ touched' \subseteq Dirs
    BY <2>2, <1>2 DEF EditOrganization, TypeOK
  <2> QED
    BY <2>3, <1>2 DEF EditOrganization, TypeOK, Kinds
<1>3. CASE EditSource
  BY <1>3 DEF EditSource, TypeOK, Kinds
<1> QED
  BY <1>1, <1>2, <1>3

-----------------------------------------------------------------------------
\* The journal and the runs.  What a step leaves alone keeps its invariant.
LEMMA Frames ==
  ASSUME Inv
  PROVE  /\ UNCHANGED <<versions, pending, operation>> => Journal'
         /\ UNCHANGED <<fleet, versions, pending>> => Shown'
         /\ UNCHANGED <<versions, pending, run>> => Apart'
         /\ session'.pc = "idle" => Knows'
<1>1. UNCHANGED <<versions, pending, operation>> => Journal'
  BY DEF Inv, Journal, JournalAndVersionsAgree, Headed, Revision
<1>2. UNCHANGED <<fleet, versions, pending>> => Shown'
  BY DEF Inv, Shown, Current, Headed, Revision
<1>3. UNCHANGED <<versions, pending, run>> => Apart'
  BY DEF Inv, Apart, ActiveRunsAreCurrent, AppliedUnderOwnGeneration, Headed, Revision, Blockers
<1>4. session'.pc = "idle" => Knows'
  BY DEF Knows, Captured, Working
<1> QED
  BY <1>1, <1>2, <1>3, <1>4

\* What the status of an operation becomes is all that changes.
LEMMA StatusWritten ==
  ASSUME TypeOK, NEW o \in Ops, NEW s, operation' = [operation EXCEPT ![o].status = s]
  PROVE  \A q \in Ops : /\ operation'[q].status = IF q = o THEN s ELSE operation[q].status
                        /\ operation'[q].prop = operation[q].prop
                        /\ operation'[q].target = operation[q].target
<1>1. operation \in [Ops -> [status : OpStates,
        prop : Proposals \cup {None}, target : Dirs \cup {None},
        source : Sources \cup {None}, version : Nat]]
  BY DEF TypeOK
<1> QED
  BY <1>1

\* The same for a run, and for where it was applied.
LEMMA RunWritten ==
  ASSUME TypeOK, NEW r \in Runs, NEW s
  PROVE  /\ run' = [run EXCEPT ![r].status = s] =>
              \A q \in Runs : /\ run'[q].status = IF q = r THEN s ELSE run[q].status
                              /\ run'[q].admitted = run[q].admitted
                              /\ run'[q].applied = run[q].applied
         /\ run' = [run EXCEPT ![r].applied = s] =>
              \A q \in Runs : /\ run'[q].status = run[q].status
                              /\ run'[q].admitted = run[q].admitted
                              /\ run'[q].applied = IF q = r THEN s ELSE run[q].applied
<1>1. run \in [Runs -> [status : RunStates, admitted : Nat,
                        source : Sources \cup {None}, applied : Nat]]
  BY DEF TypeOK
<1> QED
  BY <1>1

\* A journal whose outcome is left open is still the journal of its versions.
LEMMA Retained ==
  ASSUME Inv, NEW o \in Ops, Retain(o), UNCHANGED <<versions, pending>>
  PROVE  Journal'
<1>1. CASE operation[o].status # "prepared"
  <2>1. operation' = operation
    BY <1>1 DEF Retain
  <2> QED
    BY <2>1, Frames
<1>2. CASE operation[o].status = "prepared"
  <2>1. operation' = [operation EXCEPT ![o].status = "recovery_required"]
    BY <1>2 DEF Retain
  <2>2. \A q \in Ops :
          /\ operation'[q].status = IF q = o THEN "recovery_required" ELSE operation[q].status
          /\ operation'[q].prop = operation[q].prop
          /\ operation'[q].target = operation[q].target
    BY <2>1, StatusWritten DEF Inv
  <2> QED
    BY <2>2, <1>2 DEF Inv, Journal, JournalAndVersionsAgree, Headed, Revision, Open
<1> QED
  BY <1>1, <1>2

\* A publisher that gives up leaves the fence and an open outcome.
LEMMA GivingUp ==
  ASSUME Inv, session.op \in Ops, GiveUp
  PROVE  Knows' /\ Journal' /\ Shown' /\ Apart'
<1>1. Journal'
  BY Retained DEF GiveUp
<1>2. session'.pc = "idle"
  BY SessionFields DEF GiveUp, Inv
<1> QED
  BY <1>1, <1>2, Frames DEF GiveUp, files

\* What an observation says of the directories.
LEMMA Observed ==
  ASSUME NEW o \in Ops
  PROVE  /\ Observation(o) = "prepared" => fleet = operation[o].target /\ scratch[o] = o
         /\ Observation(o) = "exchanged" => fleet = o
  BY DEF Observation

\* The operation under the fence is open and its target is another directory.
LEMMA Fenced ==
  ASSUME Inv, NEW o \in Ops, pending = o
  PROVE  /\ operation[o].status \in Open /\ operation[o].status # "committed"
         /\ operation[o].target # o /\ operation[o].prop \in Proposals
         /\ pending # None /\ Headed
<1>1. operation[o].status \in Open
  BY DEF Inv, Journal, JournalAndVersionsAgree
<1>2. pending # None
  BY PublicationAssumption DEF Dirs
<1> QED
  BY <1>1, <1>2 DEF Inv, Journal, Open

\* A run that ends, or stays as it was, does not come between.
LEMMA Finished ==
  ASSUME Inv, NEW r \in Runs, pending = None, Headed, UNCHANGED <<versions, pending>>,
         run' = [run EXCEPT ![r].status = Finish(r)]
  PROVE  Apart'
<1>1. \A q \in Runs :
        /\ run'[q].status = IF q = r THEN Finish(r) ELSE run[q].status
        /\ run'[q].admitted = run[q].admitted /\ run'[q].applied = run[q].applied
  <2>1. run \in [Runs -> [status : RunStates, admitted : Nat,
                          source : Sources \cup {None}, applied : Nat]]
    BY DEF Inv, TypeOK
  <2> QED
    BY <2>1
<1>2. Finish(r) \in {"ended", run[r].status}
  BY DEF Finish
<1> QED
  BY <1>1, <1>2 DEF Inv, Apart, ActiveRunsAreCurrent, AppliedUnderOwnGeneration, Headed, Revision

\* A commit makes what is shown the current version.
LEMMA Committed ==
  ASSUME Inv, CommitOperation, ~GiveUp,
         session.op \in Ops, pending = session.op, fleet = session.op
  PROVE  Knows' /\ Journal' /\ Shown' /\ Apart'
<1> DEFINE o == session.op
<1> DEFINE v == [tree |-> proposal[operation[o].prop].after, op |-> o]
<1>1. /\ ~Blockers /\ versions' = Append(versions, v)
      /\ operation' = [operation EXCEPT ![o].status = "committed", ![o].version = Revision + 1]
      /\ pending' = None /\ UNCHANGED <<fleet, run>>
      /\ Goto("clean") \/ Leave
  BY DEF CommitOperation, files
<1>2. Headed /\ operation[o].status \in Open /\ operation[o].prop \in Proposals
  BY Fenced
<1>3. v \in [tree : Contents, op : Dirs]
  BY <1>2, Rows DEF Inv, Dirs
<1>4. versions \in Seq([tree : Contents, op : Dirs])
  BY DEF Inv, TypeOK
<1> HIDE DEF v
<1>5. /\ Revision \in Nat \ {0} /\ Revision' = Revision + 1
      /\ versions'[Revision + 1] = v /\ \A i \in 1..Revision : versions'[i] = versions[i]
  <2>1. Revision \in Nat \ {0}
    BY <1>2, Rows DEF Inv
  <2> QED
    BY <1>1, <1>3, <1>4, <2>1, Sequences DEF Revision
<1>6. Headed'
  BY <1>1, <1>3, <1>4, <1>5, Sequences DEF Headed, Revision
<1>7. v.op = o
  BY DEF v
<1>8. \A q \in Ops : /\ operation'[q].status = IF q = o THEN "committed" ELSE operation[q].status
                     /\ operation'[q].prop = operation[q].prop
                     /\ operation'[q].target = operation[q].target
  <2>1. operation \in [Ops -> [status : OpStates,
          prop : Proposals \cup {None}, target : Dirs \cup {None},
          source : Sources \cup {None}, version : Nat]]
    BY DEF Inv, TypeOK
  <2> QED
    BY <1>1, <2>1
<1>9. Journal'
  <2>1. ASSUME NEW q \in Ops
        PROVE  operation'[q].status \in Open <=> pending' = q
    <3>1. pending' # q
      BY <1>1, PublicationAssumption DEF Dirs
    <3>2. q # o => operation[q].status \notin Open
      BY DEF Inv, Journal, JournalAndVersionsAgree
    <3>3. operation'[q].status = IF q = o THEN "committed" ELSE operation[q].status
      BY <1>8
    <3> QED
      BY <3>1, <3>2, <3>3 DEF Open
  <2>2. ASSUME NEW q \in Ops
        PROVE  operation'[q].status = "committed" <=> \E i \in 2..Revision' : versions'[i].op = q
    <3>1. CASE q = o
      BY <1>5, <1>7, <1>8, <3>1
    <3>2. CASE q # o
      <4>1. (\E i \in 2..Revision' : versions'[i].op = q)
              <=> \E i \in 2..Revision : versions[i].op = q
        BY <1>5, <1>7, <3>2
      <4> QED
        BY <4>1, <3>2, <1>8 DEF Inv, Journal, JournalAndVersionsAgree
    <3> QED
      BY <3>1, <3>2
  <2>3. \A q1, q2 \in Ops : operation'[q1].prop = operation'[q2].prop
                              => q1 = q2 \/ operation'[q1].prop = None
    BY <1>8 DEF Inv, Journal, JournalAndVersionsAgree
  <2>4. \A q \in Ops : operation'[q].status # "none" =>
          operation'[q].prop \in Proposals /\ operation'[q].target \in Dirs \ {q}
    BY <1>2, <1>8 DEF Inv, Journal, Open
  <2>5. versions'[1].op = Origin
    BY <1>2, <1>5 DEF Inv, Journal
  <2>6. \A i \in 2..Revision' : versions'[i].op \in Ops
    BY <1>5, <1>7 DEF Inv, Journal
  <2>7. JournalAndVersionsAgree'
    BY <2>1, <2>2, <2>3 DEF JournalAndVersionsAgree
  <2> QED
    BY <1>1, <1>6, <2>4, <2>5, <2>6, <2>7 DEF Journal
<1>10. Shown'
  BY <1>1, <1>5, <1>6, <1>7 DEF Shown, Current
<1>11. Apart'
  BY <1>1, <1>6 DEF Inv, Apart, ActiveRunsAreCurrent, AppliedUnderOwnGeneration, Blockers, Blocking
<1>12. Knows'
  <2>1. session'.pc = "idle" \/ (session'.pc = "clean" /\ session'.op = o)
    <3>1. TypeOK /\ "clean" \in Labels
      BY DEF Inv, Labels
    <3>2. Goto("clean") => session'.pc = "clean" /\ session'.op = o
      BY <3>1, SessionFields
    <3>3. Leave => session'.pc = "idle"
      BY <3>1, SessionFields
    <3>4. Goto("clean") \/ Leave
      BY <1>1
    <3> QED
      BY <3>2, <3>3, <3>4
  <2> QED
    BY <2>1, <1>8 DEF Knows, Captured, Working
<1> QED
  BY <1>9, <1>10, <1>11, <1>12

\* Every step of a command keeps the rest.
LEMMA StepsOfCommands ==
  ASSUME Inv, Command
  PROVE  Knows' /\ Journal' /\ Shown' /\ Apart'
<1> USE DEF files, journal
<1>0. TypeOK /\ Kinds /\ Knows /\ Journal /\ Shown /\ Apart
  BY DEF Inv
<1>1. CASE Enter
  <2>1. PICK k \in Commands, seen \in 1..ProjectRow :
          /\ Accepts(k)
          /\ session' = [Idle EXCEPT !.cmd = k.cmd, !.prop = k.prop, !.op = k.op, !.run = k.run,
               !.seen = seen,
               !.pc = CASE k.cmd = "recover" -> "inspect"
                        [] k.cmd = "apply" -> "check"
                        [] OTHER -> "capture"]
    BY <1>1 DEF Enter
  <2>2. /\ session'.pc \in {"inspect", "check", "capture"}
        /\ session'.cmd = k.cmd /\ session'.prop = k.prop
        /\ session'.op = k.op /\ session'.run = k.run
        /\ session'.pc = "inspect" <=> k.cmd = "recover"
        /\ session'.pc = "check" <=> k.cmd = "apply"
    BY <2>1 DEF Idle
  <2>3. /\ k.cmd \in {"propose", "patch"} => run[k.run].status # "none"
        /\ k.cmd = "apply" => proposal[k.prop].base # 0
        /\ k.cmd = "recover" => operation[k.op].status # "none"
    BY <2>1 DEF Accepts
  <2>4. Knows'
    BY <2>2, <2>3, <1>1 DEF Enter, Knows, Captured, Working
  <2> QED
    BY <2>4, <1>1, Frames DEF Enter
<1>2. CASE Crash
  BY <1>0, <1>2, SessionFields, Frames DEF Crash
<1>3. CASE Capture
  <2>1. CASE Leave /\ UNCHANGED versions
    BY <2>1, <1>0, <1>3, SessionFields, Frames DEF Capture
  <2>2. CASE /\ Unchanged /\ (session.cmd \in {"propose", "patch"} => Admitted(session.run))
             /\ RegisterBaseline
             /\ session' = [session EXCEPT !.pc = CASE session.cmd = "start" -> "insert"
                                             [] session.cmd = "propose" -> "save"
                                             [] session.cmd = "patch" -> "applying"
                                             [] session.cmd = "rollback" -> "invert"]
    <3>1. session.cmd \in {"start", "propose", "patch", "rollback"}
      BY <1>0, <1>3 DEF Capture, Kinds
    <3>2. session'.pc \in {"insert", "save", "applying", "invert"} /\ session'.run = session.run
      BY <2>2, <3>1, <1>0, SessionFields DEF SessionRecord
    <3>3. session'.pc = "applying" => session.cmd = "patch"
      BY <2>2, <3>1, <1>0, SessionFields DEF SessionRecord
    <3>4. pending = None
      BY <2>2 DEF Unchanged
    <3>5. CASE Headed
      <4>1. UNCHANGED <<versions, run, pending, operation, fleet>>
        BY <3>5, <2>2, <1>3 DEF Capture, RegisterBaseline
      <4>2. Knows'
        BY <4>1, <3>2, <3>3, <3>4, <3>5, <2>2, <1>0, <1>3
           DEF Capture, Knows, Kinds, Captured, Working, Admitted, Headed, Revision
      <4> QED
        BY <4>1, <4>2, Frames
    <3>6. CASE ~Headed
      <4>1. /\ versions' = <<[tree |-> content[fleet], op |-> Origin]>>
            /\ UNCHANGED <<run, pending, operation, fleet>>
        BY <3>6, <2>2, <1>3 DEF Capture, RegisterBaseline
      <4>2. Headed' /\ Revision' = 1 /\ Revision = 0 /\ versions'[1].op = Origin
        BY <4>1, <3>6 DEF Headed, Revision
      <4>3. \A r \in Runs : run[r].status = "none"
        BY <3>6, <1>0 DEF Apart
      <4>4. session.cmd # "patch"
        BY <4>3, <1>0, <1>3 DEF Capture, Knows, Kinds
      <4>5. Knows'
        BY <4>1, <4>2, <4>4, <3>2, <3>3, <3>4 DEF Knows, Captured, Working
      <4>6. Journal'
        BY <4>1, <4>2, <3>4, <1>0 DEF Journal, JournalAndVersionsAgree
      <4>7. Shown'
        BY <4>1, <4>2, <3>4, <3>6, <1>0 DEF Shown, Current
      <4>8. Apart'
        BY <4>1, <4>2, <4>3, <3>4, <1>0
           DEF Apart, ActiveRunsAreCurrent, AppliedUnderOwnGeneration
      <4> QED
        BY <4>5, <4>6, <4>7, <4>8
    <3> QED
      BY <3>5, <3>6
  <2> QED
    BY <2>1, <2>2, <1>3 DEF Capture
<1>4. CASE InsertRun
  <2>1. session.run \in Runs /\ pending = None /\ Headed
    BY <1>0, <1>4 DEF InsertRun, Kinds, Knows, Captured
  <2>2. PICK s \in Sources : run' = [run EXCEPT ![session.run] =
          [status |-> "active", admitted |-> Revision, source |-> s, applied |-> 0]]
    BY <1>4 DEF InsertRun
  <2>3. \A r \in Runs : IF r = session.run
          THEN run'[r].status = "active" /\ run'[r].admitted = Revision /\ run'[r].applied = 0
          ELSE run'[r] = run[r]
    BY <2>1, <2>2, <1>0 DEF TypeOK
  <2>4. Apart'
    BY <2>1, <2>3, <1>0, <1>4 DEF InsertRun, Apart, ActiveRunsAreCurrent,
       AppliedUnderOwnGeneration, Headed, Revision
  <2> QED
    BY <2>4, <1>0, <1>4, SessionFields, Frames DEF InsertRun
<1>5. CASE SaveProposal
  BY <1>0, <1>5, SessionFields, Frames DEF SaveProposal
<1>6. CASE Invert
  <2>1. CASE Leave
    BY <2>1, <1>0, <1>6, SessionFields, Frames DEF Invert
  <2>2. ASSUME NEW q \in Proposals,
               proposal' = [proposal EXCEPT ![q] =
                 [base |-> Revision, before |-> HeadTree,
                  after |-> proposal[session.prop].before, rollback_of |-> session.prop]],
               session' = [session EXCEPT !.prop = q, !.pc = "check"]
        PROVE  Knows'
    <3>1. Revision # 0
      <4>1. Headed
        BY <1>0, <1>6 DEF Invert, Knows, Captured
      <4> QED
        BY <4>1, <1>0, Rows
    <3>2. proposal'[q].base # 0
      BY <2>2, <3>1, <1>0 DEF TypeOK
    <3>3. session'.pc = "check" /\ session'.prop = q
      BY <2>2, <1>0, SessionFields DEF SessionRecord
    <3> QED
      BY <3>2, <3>3 DEF Knows, Captured, Working
  <2> QED
    BY <2>1, <2>2, <1>6, Frames DEF Invert
<1>7. CASE StartApplying
  <2>1. session.run \in Runs /\ pending = None /\ Headed /\ run[session.run].admitted = Revision
    BY <1>0, <1>7 DEF StartApplying, Kinds, Knows, Captured
  <2>2. CASE Leave /\ UNCHANGED run
    BY <2>2, <1>0, <1>7, SessionFields, Frames DEF StartApplying
  <2>3. CASE run' = [run EXCEPT ![session.run].status = "applying"] /\ Goto("target")
    <3>1. \A q \in Runs :
            /\ run'[q].status = IF q = session.run THEN "applying" ELSE run[q].status
            /\ run'[q].admitted = run[q].admitted /\ run'[q].applied = run[q].applied
      <4>1. run \in [Runs -> [status : RunStates, admitted : Nat,
                              source : Sources \cup {None}, applied : Nat]]
        BY <1>0 DEF TypeOK
      <4> QED
        BY <2>1, <2>3, <4>1
    <3>2. Apart'
      BY <2>1, <3>1, <1>0, <1>7 DEF StartApplying, Apart, ActiveRunsAreCurrent,
         AppliedUnderOwnGeneration, Headed, Revision
    <3>3. session'.pc = "target" /\ session'.run = session.run
      BY <2>3, <1>0, SessionFields DEF Labels
    <3>4. Knows'
      BY <2>1, <3>1, <3>3, <1>7 DEF StartApplying, Knows, Captured, Working, Headed, Revision
    <3> QED
      BY <3>2, <3>4, <1>7, Frames DEF StartApplying
  <2> QED
    BY <2>2, <2>3, <1>7 DEF StartApplying
<1>8. CASE ApplyToTarget
  <2>1. session.run \in Runs /\ pending = None /\ Headed /\ run[session.run].admitted = Revision
    BY <1>0, <1>8 DEF ApplyToTarget, Kinds, Knows, Captured
  <2>2. UNCHANGED <<fleet, versions, pending, operation>>
    BY <1>8 DEF ApplyToTarget
  <2>3. CASE run' = [run EXCEPT ![session.run].applied = Revision] /\ Goto("finish")
    <3>1. \A q \in Runs :
            /\ run'[q].status = run[q].status /\ run'[q].admitted = run[q].admitted
            /\ run'[q].applied = IF q = session.run THEN Revision ELSE run[q].applied
      <4>1. run \in [Runs -> [status : RunStates, admitted : Nat,
                              source : Sources \cup {None}, applied : Nat]]
        BY <1>0 DEF TypeOK
      <4> QED
        BY <2>1, <2>3, <4>1
    <3>2. Apart'
      BY <2>1, <2>2, <3>1, <1>0 DEF Apart, ActiveRunsAreCurrent, AppliedUnderOwnGeneration,
         Headed, Revision
    <3>3. session'.pc = "finish"
      BY <2>3, <1>0, SessionFields DEF Labels
    <3>4. Knows'
      BY <2>1, <2>2, <3>3 DEF Knows, Captured, Working, Headed
    <3> QED
      BY <2>2, <3>2, <3>4, Frames
  <2>4. CASE run' = [run EXCEPT ![session.run].status = Finish(session.run)] /\ Leave
    <3>1. Apart'
      BY <2>1, <2>2, <2>4, Finished
    <3> QED
      BY <2>2, <2>4, <3>1, <1>0, SessionFields, Frames
  <2> QED
    BY <2>3, <2>4, <1>8 DEF ApplyToTarget
<1>9. CASE FinishApplying
  <2>1. session.run \in Runs /\ pending = None /\ Headed
    BY <1>0, <1>9 DEF FinishApplying, Kinds, Knows, Captured
  <2>2. Apart'
    BY <2>1, <1>9, Finished DEF FinishApplying
  <2> QED
    BY <2>2, <1>0, <1>9, SessionFields, Frames DEF FinishApplying
<1>10. CASE Check
  <2>1. CASE Leave
    BY <2>1, <1>0, <1>10, SessionFields, Frames DEF Check
  <2>2. CASE session' = [session EXCEPT !.pc = "stage", !.source = source]
    <3>1. session'.pc = "stage" /\ session'.prop = session.prop
      BY <2>2, <1>0, SessionFields DEF SessionRecord
    <3>2. Knows'
      BY <3>1, <1>0, <1>10 DEF Check, Knows, Captured, Working
    <3> QED
      BY <3>2, <1>10, Frames DEF Check
  <2> QED
    BY <2>1, <2>2, <1>10 DEF Check
<1>11. CASE Stage
  <2>1. UNCHANGED <<fleet, versions, pending, operation, proposal, run>>
    BY <1>11 DEF Stage
  <2>2. CASE Leave
    BY <2>1, <2>2, <1>0, SessionFields, Frames
  <2>3. ASSUME NEW o \in Ops, operation[o].status = "none",
               session' = [session EXCEPT !.pc = "prepare", !.op = o,
                             !.target = fleet, !.before = content[fleet]]
        PROVE  Knows'
    <3>1. session'.pc = "prepare" /\ session'.prop = session.prop /\ session'.op = o
      BY <2>3, <1>0, SessionFields DEF SessionRecord
    <3> QED
      BY <2>1, <2>3, <3>1, <1>0, <1>11 DEF Stage, Knows, Captured, Working
  <2> QED
    BY <2>1, <2>2, <2>3, <1>11, Frames DEF Stage
<1>12. CASE Prepare
  <2>1. session.op \in Ops /\ session.prop \in Proposals /\ session.target \in Dirs \ {session.op}
    BY <1>0, <1>12 DEF Prepare, Kinds
  <2>2. operation[session.op].status = "none" /\ proposal[session.prop].base # 0
    BY <1>0, <1>12 DEF Prepare, Knows
  <2>3. CASE Goto("discard") /\ UNCHANGED <<operation, pending>>
    <3>1. session'.pc = "discard"
      BY <2>3, <1>0, SessionFields DEF Labels
    <3>2. Knows'
      BY <3>1 DEF Knows, Captured, Working
    <3> QED
      BY <2>3, <3>2, <1>12, Frames DEF Prepare
  <2>4. CASE /\ CanPrepare /\ pending' = session.op
             /\ operation' = [operation EXCEPT ![session.op] =
                  [status |-> "prepared", prop |-> session.prop, target |-> session.target,
                   source |-> session.source, version |-> 0]]
             /\ Goto("exchange") \/ Goto("discard")
    <3>1. UNCHANGED <<fleet, versions, run>>
      BY <1>12 DEF Prepare
    <3>2. pending = None /\ ~Blockers /\ ~Published(session.prop) /\ Revision # 0
      BY <2>2, <2>4 DEF CanPrepare
    <3>3. Headed
      BY <3>2 DEF Headed, Revision
    <3>4. \A o \in Ops :
            /\ operation'[o].status = IF o = session.op THEN "prepared" ELSE operation[o].status
            /\ operation'[o].prop = IF o = session.op THEN session.prop ELSE operation[o].prop
            /\ operation'[o].target =
                 IF o = session.op THEN session.target ELSE operation[o].target
      BY <2>1, <2>4, <1>0 DEF TypeOK
    <3>5. session'.pc \in {"exchange", "discard"} /\ session'.op = session.op
      BY <2>4, <1>0, SessionFields DEF Labels
    <3>6. Knows'
      BY <2>4, <3>5 DEF Knows, Captured, Working
    <3>7. Journal'
      <4>1. JournalAndVersionsAgree'
        BY <2>1, <2>2, <2>4, <3>1, <3>2, <3>4, <1>0, PublicationAssumption
           DEF Journal, JournalAndVersionsAgree, Published, Open, Revision, Dirs
      <4>2. \A o \in Ops : operation'[o].status # "none" =>
              operation'[o].prop \in Proposals /\ operation'[o].target \in Dirs \ {o}
        BY <2>1, <3>4, <1>0 DEF Journal
      <4> QED
        BY <4>1, <4>2, <3>1, <3>3, <1>0 DEF Journal, Headed, Revision
    <3>8. Shown'
      BY <3>1, <3>2, <1>0 DEF Shown, Current, Headed, Revision
    <3>9. Apart'
      BY <3>1, <3>2, <3>3, <1>0 DEF Apart, ActiveRunsAreCurrent, AppliedUnderOwnGeneration,
         Headed, Revision, Blockers
    <3> QED
      BY <3>6, <3>7, <3>8, <3>9
  <2> QED
    BY <2>3, <2>4, <1>12 DEF Prepare
<1>13. CASE Discard
  <2>1. session.op \in Ops /\ UNCHANGED <<fleet, versions, pending, run>>
    BY <1>0, <1>13 DEF Discard, Kinds
  <2>2. Journal'
    BY <2>1, <1>13, Retained, Frames DEF Discard
  <2> QED
    BY <2>1, <2>2, <1>0, <1>13, SessionFields, Frames DEF Discard
<1>14. CASE Exchange
  <2>1. session.op \in Ops /\ pending = session.op
    BY <1>0, <1>14 DEF Exchange, Kinds, Knows, Working
  <2>2. CASE GiveUp
    BY <2>1, <2>2, GivingUp
  <2>3. CASE /\ Observation(session.op) = "prepared"
             /\ Goto("swap") /\ UNCHANGED <<files, journal, run>>
    <3>1. scratch[session.op] = session.op /\ fleet # session.op
      BY <2>1, <2>3, Observed, Fenced
    <3>2. session'.pc = "swap" /\ session'.op = session.op
      BY <2>3, <1>0, SessionFields DEF Labels
    <3>3. Knows'
      BY <2>1, <2>3, <3>1, <3>2 DEF Knows, Captured, Working
    <3> QED
      BY <2>3, <3>3, Frames
  <2> QED
    BY <2>2, <2>3, <1>14 DEF Exchange
<1>15. CASE Swap
  <2>1. session.op \in Ops /\ pending = session.op /\ scratch[session.op] = session.op
    BY <1>0, <1>15 DEF Swap, Kinds, Knows, Working
  <2>2. CASE GiveUp
    BY <2>1, <2>2, GivingUp
  <2>3. CASE /\ fleet' = scratch[session.op] /\ Goto("sync")
             /\ UNCHANGED <<content, touched, source, journal, run>>
    <3>1. session'.pc = "sync" /\ session'.op = session.op
      BY <2>3, <1>0, SessionFields DEF Labels
    <3>2. Knows'
      BY <2>1, <2>3, <3>1 DEF Knows, Captured, Working
    <3>3. Shown'
      BY <2>1, <2>3, Fenced DEF Shown
    <3> QED
      BY <2>3, <3>2, <3>3, Frames
  <2> QED
    BY <2>2, <2>3, <1>15 DEF Swap
<1>16. CASE SyncExchanged
  <2>1. session.op \in Ops /\ pending = session.op /\ fleet = session.op
    BY <1>0, <1>16 DEF SyncExchanged, Kinds, Knows, Working
  <2>2. CASE GiveUp
    BY <2>1, <2>2, GivingUp
  <2>3. CASE Goto("verify") /\ UNCHANGED <<files, journal, run>>
    <3>1. session'.pc = "verify" /\ session'.op = session.op
      BY <2>3, <1>0, SessionFields DEF Labels
    <3>2. Knows'
      BY <2>1, <2>3, <3>1 DEF Knows, Captured, Working
    <3> QED
      BY <2>3, <3>2, Frames
  <2> QED
    BY <2>2, <2>3, <1>16 DEF SyncExchanged
<1>17. CASE Verify
  <2>1. session.op \in Ops /\ pending = session.op /\ fleet = session.op
    BY <1>0, <1>17 DEF Verify, Kinds, Knows, Working
  <2>2. CASE GiveUp
    BY <2>1, <2>2, GivingUp
  <2>3. CASE Goto("commit") /\ UNCHANGED <<files, journal, run>>
    <3>1. session'.pc = "commit" /\ session'.op = session.op
      BY <2>3, <1>0, SessionFields DEF Labels
    <3>2. Knows'
      BY <2>1, <2>3, <3>1 DEF Knows, Captured, Working
    <3> QED
      BY <2>3, <3>2, Frames
  <2> QED
    BY <2>2, <2>3, <1>17 DEF Verify
<1>18. CASE CommitOperation
  <2>1. session.op \in Ops /\ pending = session.op /\ fleet = session.op
    BY <1>0, <1>18 DEF CommitOperation, Kinds, Knows, Working
  <2>2. CASE GiveUp
    BY <2>1, <2>2, GivingUp
  <2>3. CASE ~GiveUp
    BY <2>1, <2>3, <1>18, Committed
  <2> QED
    BY <2>2, <2>3
<1>19. CASE CleanupOwned
  BY <1>0, <1>19, SessionFields, Frames DEF CleanupOwned
<1>20. CASE Inspect
  <2>1. session.op \in Ops /\ operation[session.op].status # "none"
    BY <1>0, <1>20 DEF Inspect, Kinds, Knows
  <2>2. CASE GiveUp
    BY <2>1, <2>2, GivingUp
  <2>3. CASE Leave /\ UNCHANGED <<files, journal, run>>
    BY <2>3, <1>0, SessionFields, Frames
  <2>4. CASE /\ operation[session.op].status \notin Open
             /\ Goto("clean") /\ UNCHANGED <<files, journal, run>>
    <3>1. operation[session.op].status \in {"committed", "aborted"}
      BY <2>1, <2>4, <1>0 DEF TypeOK, OpStates
    <3>2. session'.pc = "clean" /\ session'.op = session.op
      BY <2>4, <1>0, SessionFields DEF Labels
    <3>3. Knows'
      BY <2>4, <3>1, <3>2 DEF Knows, Captured, Working
    <3> QED
      BY <2>4, <3>3, Frames
  <2>5. CASE /\ pending = session.op /\ Observation(session.op) # "unsafe"
             /\ Goto(IF Observation(session.op) = "prepared" THEN "abort" ELSE "sync")
             /\ UNCHANGED <<files, journal, run>>
    <3>1. Observation(session.op) \in {"prepared", "exchanged"}
      BY <2>5 DEF Observation
    <3>2. \/ session'.pc = "abort" /\ fleet # session.op
          \/ session'.pc = "sync" /\ fleet = session.op
      BY <2>1, <2>5, <3>1, <1>0, SessionFields, Observed, Fenced DEF Labels
    <3>3. session'.op = session.op
      BY <2>5, <1>0, SessionFields DEF Labels
    <3>4. Knows'
      BY <2>5, <3>2, <3>3 DEF Knows, Captured, Working
    <3> QED
      BY <2>5, <3>4, Frames
  <2> QED
    BY <2>2, <2>3, <2>4, <2>5, <1>20 DEF Inspect
<1>21. CASE AbortOperation
  <2>1. session.op \in Ops /\ pending = session.op /\ fleet # session.op
    BY <1>0, <1>21 DEF AbortOperation, Kinds, Knows, Working
  <2>2. CASE GiveUp
    BY <2>1, <2>2, GivingUp
  <2>3. CASE ~GiveUp
    <3>1. /\ operation' = [operation EXCEPT ![session.op].status = "aborted"]
          /\ pending' = None /\ UNCHANGED <<fleet, versions, run>>
          /\ Goto("clean") \/ Leave
      BY <2>3, <1>21 DEF AbortOperation
    <3>2. \A q \in Ops :
            /\ operation'[q].status = IF q = session.op THEN "aborted" ELSE operation[q].status
            /\ operation'[q].prop = operation[q].prop
            /\ operation'[q].target = operation[q].target
      BY <2>1, <3>1, <1>0, StatusWritten
    <3>3. operation[session.op].status \in Open
      BY <2>1, Fenced
    <3>4. JournalAndVersionsAgree'
      BY <2>1, <3>1, <3>2, <3>3, <1>0, PublicationAssumption
         DEF Journal, JournalAndVersionsAgree, Open, Revision, Dirs
    <3>5. Journal'
      BY <2>1, <3>1, <3>2, <3>3, <3>4, <1>0 DEF Journal, Open, Headed, Revision
    <3>6. Shown'
      BY <2>1, <3>1, <1>0 DEF Shown, Current, Headed, Revision
    <3>7. Apart'
      BY <3>1, <1>0 DEF Apart, ActiveRunsAreCurrent, AppliedUnderOwnGeneration, Headed, Revision
    <3>8. session'.pc = "idle" \/ (session'.pc = "clean" /\ session'.op = session.op)
      <4>1. "clean" \in Labels
        BY DEF Labels
      <4>2. Goto("clean") => session'.pc = "clean" /\ session'.op = session.op
        BY <4>1, <1>0, SessionFields
      <4>3. Leave => session'.pc = "idle"
        BY <1>0, SessionFields
      <4>4. Goto("clean") \/ Leave
        BY <3>1
      <4> QED
        BY <4>2, <4>3, <4>4
    <3>9. Knows'
      BY <2>1, <3>2, <3>8 DEF Knows, Captured, Working
    <3> QED
      BY <3>5, <3>6, <3>7, <3>9
  <2> QED
    BY <2>2, <2>3
<1> QED
  BY <1>1, <1>2, <1>3, <1>4, <1>5, <1>6, <1>7, <1>8, <1>9, <1>10, <1>11, <1>12, <1>13,
     <1>14, <1>15, <1>16, <1>17, <1>18, <1>19, <1>20, <1>21 DEF Command

\* The engine moves a run only to where it holds nothing back, and the user
\* reaches no table.
LEMMA StepsOfOthers ==
  ASSUME Inv, \/ \E r \in Runs : MoveRun(r)
              \/ \E d \in Dirs : EditOrganization(d)
              \/ EditSource
  PROVE  Knows' /\ Journal' /\ Shown' /\ Apart'
<1> USE DEF files, journal
<1>0. TypeOK /\ Kinds /\ Knows /\ Journal /\ Shown /\ Apart
  BY DEF Inv
<1>1. ASSUME NEW r \in Runs, MoveRun(r)
      PROVE  Knows' /\ Journal' /\ Shown' /\ Apart'
  <2>1. UNCHANGED <<fleet, scratch, versions, pending, proposal, operation, session>>
    BY <1>1 DEF MoveRun
  <2>2. PICK s \in {"ready", "unsettled", "ended"} :
          /\ run' = [run EXCEPT ![r].status = s]
          /\ run[r].status # "none"
          /\ run[r].status \in Blocking \/ s = "ended"
    BY <1>1 DEF MoveRun, Blocking
  <2>3. \A q \in Runs : /\ run'[q].status = IF q = r THEN s ELSE run[q].status
                        /\ run'[q].admitted = run[q].admitted
                        /\ run'[q].applied = run[q].applied
    <3>1. run \in [Runs -> [status : RunStates, admitted : Nat,
                            source : Sources \cup {None}, applied : Nat]]
      BY <1>0 DEF TypeOK
    <3> QED
      BY <2>2, <3>1
  <2>4. Apart'
    <3>1. pending' # None => ~Blockers'
      BY <2>1, <2>2, <2>3, <1>0 DEF Apart, Blockers, Blocking
    <3>2. ~Headed' => \A q \in Runs : run'[q].status = "none"
      BY <2>1, <2>2, <2>3, <1>0 DEF Apart, Headed
    <3>3. ActiveRunsAreCurrent'
      BY <2>1, <2>2, <2>3, <1>0 DEF Apart, ActiveRunsAreCurrent, Revision
    <3>4. AppliedUnderOwnGeneration'
      BY <2>3, <1>0 DEF Apart, AppliedUnderOwnGeneration
    <3> QED
      BY <3>1, <3>2, <3>3, <3>4 DEF Apart
  <2>5. \A q \in Runs : run[q].status # "none" => run'[q].status # "none"
    BY <2>2, <2>3
  <2>6. session.pc = "capture" /\ session.cmd \in {"propose", "patch"} =>
          run'[session.run].status # "none"
    BY <2>5, <1>0 DEF Kinds, Knows
  <2>7. session.pc \in {"applying", "target"} => run'[session.run].admitted = Revision
    <3>1. session.pc = "applying" => session.run \in Runs
      BY <1>0 DEF Kinds
    <3>2. session.pc = "target" => session.run \in Runs
      BY <1>0 DEF Kinds
    <3> QED
      BY <3>1, <3>2, <2>3, <1>0 DEF Knows
  <2>8. Knows'
    BY <2>1, <2>6, <2>7, <1>0 DEF Knows, Captured, Working, Headed, Revision
  <2> QED
    BY <2>1, <2>4, <2>8, Frames
<1>2. CASE (\E d \in Dirs : EditOrganization(d)) \/ EditSource
  <2>1. UNCHANGED <<fleet, scratch, versions, pending, proposal, operation, run, session>>
    BY <1>2 DEF EditOrganization, EditSource
  <2>2. Knows'
    BY <2>1, <1>0 DEF Knows, Headed, Revision
  <2> QED
    BY <2>1, <2>2, Frames
<1> QED
  BY <1>1, <1>2

\* Every step keeps the invariant.
LEMMA StepHolds == Inv /\ [Next]_vars => Inv'
<1> SUFFICES ASSUME Inv, [Next]_vars PROVE Inv'
  OBVIOUS
<1>1. CASE Command
  BY <1>1, TypesOfCommands, StepsOfCommands DEF Inv
<1>2. CASE \/ \E r \in Runs : MoveRun(r)
           \/ \E d \in Dirs : EditOrganization(d)
           \/ EditSource
  BY <1>2, TypesOfOthers, StepsOfOthers DEF Inv
<1>3. CASE UNCHANGED vars
  <2>1. UNCHANGED <<fleet, scratch, content, touched, source, versions, pending, proposal,
                    operation, run, session>>
    BY <1>3 DEF vars, files, journal
  <2>2. TypeOK' /\ Kinds'
    BY <2>1 DEF Inv, TypeOK, Kinds
  <2>3. Knows'
    BY <2>1 DEF Inv, Knows, Headed, Revision
  <2> QED
    BY <2>1, <2>2, <2>3, Frames DEF Inv
<1> QED
  BY <1>1, <1>2, <1>3 DEF Next

\* Whatever the proposals and the operations, the invariant always holds.
LEMMA Invariance == Spec => []Inv
  BY InitHolds, StepHolds, PTL DEF Spec

\* The tables, the directories and the commands keep their shape.
THEOREM TypeCorrect == Spec => []TypeOK
<1>1. Inv => TypeOK
  BY DEF Inv
<1> QED
  BY <1>1, Invariance, PTL

\* prepare, commit and abort_operation write the journal, the fence and the
\* versions so that the three always tell one story, after any death too.
THEOREM JournalAgrees == Spec => []JournalAndVersionsAgree
<1>1. Inv => JournalAndVersionsAgree
  BY DEF Inv, Journal
<1> QED
  BY <1>1, Invariance, PTL

\* No version is committed under a run that works or whose candidate is being
\* applied (create_run, run_guard, _blockers).
THEOREM RunsStayCurrent == Spec => []ActiveRunsAreCurrent
<1>1. Inv => ActiveRunsAreCurrent
  BY DEF Inv, Apart
<1> QED
  BY <1>1, Invariance, PTL

\* PatchService.apply writes a candidate only under the version of its run.
THEOREM AppliedUnderOwn == Spec => []AppliedUnderOwnGeneration
<1>1. Inv => AppliedUnderOwnGeneration
  BY DEF Inv, Apart
<1> QED
  BY <1>1, Invariance, PTL
-----------------------------------------------------------------------------
\* The refinement.  What an appended sequence is, place by place.
LEMMA Appended ==
  ASSUME NEW S, NEW s \in Seq(S), NEW e \in S
  PROVE  Append(s, e) = [i \in 1..(Len(s) + 1) |-> IF i <= Len(s) THEN s[i] ELSE e]
<1> DEFINE t == [i \in 1..(Len(s) + 1) |-> IF i <= Len(s) THEN s[i] ELSE e]
<1>1. t \in Seq(S) /\ Len(t) = Len(s) + 1
  OBVIOUS
<1>2. Append(s, e) \in Seq(S) /\ Len(Append(s, e)) = Len(t)
  BY <1>1, AppendProperties
<1>3. \A i \in 1..Len(Append(s, e)) : Append(s, e)[i] = t[i]
  BY <1>1, <1>2, AppendProperties
<1> HIDE DEF t
<1>4. Append(s, e) = t
  BY <1>1, <1>2, <1>3, SeqEqual
<1> QED
  BY <1>4 DEF t

\* The history that the versions stand for.
LEMMA HistoryOfVersions ==
  ASSUME Inv
  PROVE  /\ History \in Seq(Dirs) /\ Len(History) \in Nat \ {0}
         /\ Log!Latest = Current
         /\ Headed => Len(History) = Revision /\ \A i \in 1..Revision : History[i] = versions[i].op
         /\ \A i \in 1..Len(History) :
              History[i] = Origin \/ \E v \in 2..Revision : versions[v].op = History[i]
<1>1. CASE ~Headed
  <2>1. History = <<Origin>> /\ Current = Origin
    BY <1>1 DEF History, Current
  <2> QED
    BY <2>1, <1>1 DEF Log!Latest, Dirs
<1>2. CASE Headed
  <2>1. versions \in Seq([tree : Contents, op : Dirs]) /\ Revision \in Nat \ {0}
    BY <1>2, Rows DEF Inv, TypeOK
  <2>2. \A i \in 1..Revision : versions[i].op \in Dirs
    <3>1. ASSUME NEW i \in 1..Revision
          PROVE  versions[i].op \in Dirs
      <4>1. versions[i] \in [tree : Contents, op : Dirs]
        BY <2>1, Sequences DEF Revision
      <4> QED
        BY <4>1
    <3> QED
      BY <3>1
  <2>3. History = [i \in 1..Revision |-> versions[i].op]
    BY <1>2 DEF History
  <2>4. History \in Seq(Dirs) /\ Len(History) = Revision
    BY <2>1, <2>2, <2>3
  <2>5. \A i \in 1..Revision : History[i] = versions[i].op
    BY <2>3
  <2>6. Log!Latest = Current
    BY <1>2, <2>1, <2>4, <2>5 DEF Log!Latest, Current
  <2>7. versions[1].op = Origin
    BY <1>2 DEF Inv, Journal
  <2> QED
    BY <1>2, <2>1, <2>4, <2>5, <2>6, <2>7
<1> QED
  BY <1>1, <1>2

\* A step that leaves the versions, the fence and `.fleet` alone is none of the log.
LEMMA LogStutters ==
  UNCHANGED <<fleet, versions, pending>> => UNCHANGED Log!logVars
  BY DEF Log!logVars, History, Headed, Revision

\* Every step of a command is a step of the log or none.
LEMMA CommandsAreLogged ==
  ASSUME Inv, Command
  PROVE  [Log!LogNext]_Log!logVars
<1> USE DEF files, journal
<1>0. TypeOK /\ Kinds /\ Knows /\ Journal /\ Shown /\ Apart
  BY DEF Inv
<1>1. CASE Enter \/ Crash \/ InsertRun \/ SaveProposal \/ Invert
  <2>1. UNCHANGED <<fleet, versions, pending>>
    BY <1>1 DEF Enter, Crash, InsertRun, SaveProposal, Invert
  <2> QED
    BY <2>1, LogStutters
<1>2. CASE StartApplying \/ ApplyToTarget \/ FinishApplying \/ Check \/ Stage
  <2>1. UNCHANGED <<fleet, versions, pending>>
    BY <1>2 DEF StartApplying, ApplyToTarget, FinishApplying, Check, Stage
  <2> QED
    BY <2>1, LogStutters
<1>3. CASE Discard \/ Exchange \/ SyncExchanged \/ Verify \/ CleanupOwned \/ Inspect
  <2>1. UNCHANGED <<fleet, versions, pending>>
    BY <1>3 DEF Discard, Exchange, SyncExchanged, Verify, CleanupOwned, Inspect, GiveUp
  <2> QED
    BY <2>1, LogStutters
<1>4. CASE Capture
  <2>1. UNCHANGED <<fleet, pending>>
    BY <1>4 DEF Capture
  <2>2. CASE UNCHANGED versions
    BY <2>1, <2>2, LogStutters
  <2>3. CASE versions' # versions
    <3>1. ~Headed /\ versions' = <<[tree |-> content[fleet], op |-> Origin]>>
      BY <2>3, <1>4 DEF Capture, RegisterBaseline
    <3>2. Headed' /\ Revision' = 1 /\ versions'[1].op = Origin
      BY <3>1 DEF Headed, Revision
    <3>3. History = <<Origin>> /\ History' = <<Origin>>
      BY <3>1, <3>2 DEF History
    <3> QED
      BY <2>1, <3>3 DEF Log!logVars
  <2> QED
    BY <2>2, <2>3
<1>5. CASE Prepare
  <2>1. UNCHANGED <<fleet, versions>> /\ UNCHANGED History
    BY <1>5 DEF Prepare, History, Headed, Revision
  <2>2. CASE UNCHANGED pending
    BY <2>1, <2>2, LogStutters
  <2>3. CASE pending' # pending
    <3>1. pending = None /\ pending' = session.op
      BY <2>3, <1>5 DEF Prepare, CanPrepare
    <3>2. session.op \in Ops /\ operation[session.op].status = "none"
      BY <1>0, <1>5 DEF Prepare, Kinds, Knows
    <3>3. \A v \in 2..Revision : versions[v].op # session.op
      BY <3>2, <1>0 DEF Journal, JournalAndVersionsAgree
    <3>4. \A i \in 1..Len(History) : History[i] # session.op
      BY <3>2, <3>3, HistoryOfVersions, PublicationAssumption
    <3>5. Log!Open(session.op)
      BY <2>1, <3>1, <3>4 DEF Log!Open
    <3> QED
      BY <3>2, <3>5 DEF Log!LogNext, Dirs
  <2> QED
    BY <2>2, <2>3
<1>6. CASE Swap
  <2>1. UNCHANGED <<versions, pending>> /\ UNCHANGED History
    BY <1>6 DEF Swap, GiveUp, History, Headed, Revision
  <2>2. /\ session.op \in Ops /\ pending = session.op
        /\ scratch[session.op] = session.op /\ fleet # session.op
    BY <1>0, <1>6 DEF Swap, Kinds, Knows, Working
  <2>3. CASE UNCHANGED fleet
    BY <2>1, <2>3, LogStutters
  <2>4. CASE fleet' # fleet
    <3>1. fleet' = pending
      BY <2>2, <2>4, <1>6 DEF Swap, GiveUp
    <3>2. pending # None /\ fleet = Log!Latest
      BY <2>2, <1>0, Fenced, HistoryOfVersions DEF Shown
    <3>3. Log!Switch
      BY <2>1, <3>1, <3>2 DEF Log!Switch
    <3> QED
      BY <3>3 DEF Log!LogNext
  <2> QED
    BY <2>3, <2>4
<1>7. CASE CommitOperation
  <2>1. session.op \in Ops /\ pending = session.op /\ fleet = session.op
    BY <1>0, <1>7 DEF CommitOperation, Kinds, Knows, Working
  <2>2. CASE GiveUp
    BY <2>2, LogStutters DEF GiveUp
  <2>3. CASE ~GiveUp
    <3> DEFINE v == [tree |-> proposal[operation[session.op].prop].after, op |-> session.op]
    <3>1. /\ versions' = Append(versions, v)
          /\ pending' = None /\ UNCHANGED fleet
      BY <2>3, <1>7 DEF CommitOperation
    <3>2. /\ Headed /\ pending # None /\ versions \in Seq([tree : Contents, op : Dirs])
          /\ operation[session.op].prop \in Proposals
      BY <2>1, <1>0, Fenced DEF TypeOK
    <3>3. v \in [tree : Contents, op : Dirs] /\ v.op = session.op
      BY <2>1, <3>2, <1>0, Rows DEF Dirs
    <3> HIDE DEF v
    <3>4. Revision \in Nat /\ Revision' = Revision + 1
      BY <3>1, <3>2, <3>3, Sequences DEF Revision
    <3>5. versions'[Revision + 1] = v /\ \A i \in 1..Revision : versions'[i] = versions[i]
      BY <3>1, <3>2, <3>3, Sequences DEF Revision
    <3>6. Headed'
      BY <3>1, <3>2, <3>3, Sequences DEF Headed
    <3>7. History' = [i \in 1..(Revision + 1) |-> versions'[i].op]
      BY <3>4, <3>6 DEF History
    <3>8. /\ History \in Seq(Dirs) /\ Len(History) = Revision
          /\ \A i \in 1..Revision : History[i] = versions[i].op
      BY <3>2, HistoryOfVersions
    <3>9. Append(History, session.op)
            = [i \in 1..(Revision + 1) |-> IF i <= Revision THEN History[i] ELSE session.op]
      BY <2>1, <3>8, Appended DEF Dirs
    <3>10. \A i \in 1..(Revision + 1) :
             versions'[i].op = IF i <= Revision THEN History[i] ELSE session.op
      BY <3>3, <3>4, <3>5, <3>8
    <3>11. History' = Append(History, session.op)
      BY <3>7, <3>9, <3>10
    <3>12. Log!Commit
      BY <2>1, <3>1, <3>2, <3>11 DEF Log!Commit
    <3> QED
      BY <3>12 DEF Log!LogNext
  <2> QED
    BY <2>2, <2>3
<1>8. CASE AbortOperation
  <2>1. UNCHANGED <<fleet, versions>> /\ UNCHANGED History
    BY <1>8 DEF AbortOperation, GiveUp, History, Headed, Revision
  <2>2. CASE UNCHANGED pending
    BY <2>1, <2>2, LogStutters
  <2>3. CASE pending' # pending
    <3>1. pending' = None
      BY <2>3, <1>8 DEF AbortOperation, GiveUp
    <3>2. session.op \in Ops /\ pending = session.op /\ fleet # session.op
      BY <1>0, <1>8 DEF AbortOperation, Kinds, Knows, Working
    <3>3. pending # None /\ fleet = Log!Latest
      BY <3>2, <1>0, Fenced, HistoryOfVersions DEF Shown
    <3>4. Log!GiveUp
      BY <2>1, <3>1, <3>3 DEF Log!GiveUp
    <3> QED
      BY <3>4 DEF Log!LogNext
  <2> QED
    BY <2>2, <2>3
<1> QED
  BY <1>1, <1>2, <1>3, <1>4, <1>5, <1>6, <1>7, <1>8 DEF Command

\* What a user or a later process sees of publications, through any death of a
\* publisher, is the log: a generation appears whole, stays, and becomes the next
\* version or is given up before anybody saw it.
THEOREM ImplementsLog == Spec => GenerationsSpec
<1>1. Init => Log!LogInit
  BY DEF Init, Log!LogInit, History, Headed
<1>2. Inv /\ [Next]_vars => [Log!LogNext]_Log!logVars
  <2> SUFFICES ASSUME Inv, [Next]_vars PROVE [Log!LogNext]_Log!logVars
    OBVIOUS
  <2>1. CASE Command
    BY <2>1, CommandsAreLogged
  <2>2. CASE ~Command
    <3>1. UNCHANGED <<fleet, versions, pending>>
      BY <2>2 DEF Next, vars, files, journal, MoveRun, EditOrganization, EditSource
    <3> QED
      BY <3>1, LogStutters
  <2> QED
    BY <2>1, <2>2
<1> QED
  BY <1>1, <1>2, Invariance, PTL DEF Spec, GenerationsSpec, Log!LogSpec

-----------------------------------------------------------------------------
(* What the directories hold.                                              *)

Known(o) == operation[o].status # "none"

\* What a session that holds the lock may still rely on.
Staged ==
  /\ session.pc \in {"stage", "prepare", "clean"} => pending = None
  /\ session.pc = "prepare" =>
       /\ session.target = fleet /\ scratch[session.op] = session.op
       /\ content[session.op] = proposal[session.prop].after
  /\ session.pc = "discard" /\ Known(session.op) =>
       operation[session.op].prop = session.prop

\* Where the trees come from: a proposal starts from the version it is based on, an
\* operation from the generation that its target holds, and a version is the tree of
\* its operation.
Lineage ==
  /\ \A q \in Proposals : proposal[q].base # 0 =>
       /\ proposal[q].base \in 1..Revision
       /\ proposal[q].before = versions[proposal[q].base].tree
  /\ \A o \in Ops :
       /\ Known(o) =>
            /\ proposal[operation[o].prop].base # 0
            /\ proposal[operation[o].prop].before = TreeOf(operation[o].target)
            /\ operation[o].target \in Ops => Known(operation[o].target)
       /\ ~Known(o) => operation[o].target = None /\ operation[o].prop = None
  /\ \A v \in 2..Revision : versions[v].tree = TreeOf(versions[v].op)

\* A directory holds its generation, as the user may have changed it.
Whole(d) == content[d] = Expected(d)

\* The two directories of an operation in one of its two orientations.
Facing(o) ==
  LET t == operation[o].target IN
  /\ Whole(o) /\ Whole(t)
  /\ \/ fleet = t /\ scratch[o] = o
     \/ fleet = o /\ scratch[o] = t

Standing == Whole(fleet) /\ (pending # None => Facing(pending))

\* The user reaches only what is or was published, and loses nothing there.
Edits == (\A d \in touched \cap Ops : Known(d)) /\ UserEditsStay

Holdings == Lineage /\ Standing /\ Edits
Inside == Staged /\ Holdings

\* Nothing is proposed yet, and the only directory is the one initialisation left.
LEMMA InsideInit == Init => Inside
<1> SUFFICES ASSUME Init PROVE Inside
  OBVIOUS
<1>1. Staged
  BY DEF Init, Staged, Idle
<1>2. Lineage
  <2>1. Revision = 0
    BY DEF Init, Revision
  <2>2. \A q \in Proposals : proposal[q].base = 0
    BY DEF Init, NoProposal
  <2>3. \A o \in Ops : ~Known(o) /\ operation[o].target = None /\ operation[o].prop = None
    BY DEF Init, Known, NoOperation
  <2> QED
    BY <2>1, <2>2, <2>3 DEF Lineage
<1>3. Standing
  BY DEF Init, Standing, Whole, Expected, TreeOf, Headed, Dirs
<1>4. Edits
  BY DEF Init, Edits, UserEditsStay
<1> QED
  BY <1>1, <1>2, <1>3, <1>4 DEF Inside, Holdings

\* The head holds the tree of the current directory.
LEMMA HeadOfCurrent ==
  ASSUME Inv, Lineage, Headed
  PROVE  HeadTree = TreeOf(Current)
<1>1. Revision \in 1..Revision /\ Revision \in Nat /\ versions[1].op = Origin
  BY Rows DEF Inv, Journal
<1>2. CASE Revision = 1
  BY <1>1, <1>2 DEF HeadTree, TreeOf, Current
<1>3. CASE Revision # 1
  <2>1. Revision \in 2..Revision
    BY <1>1, <1>3
  <2> QED
    BY <2>1 DEF Lineage, HeadTree, Current
<1> QED
  BY <1>2, <1>3

\* A target of an operation, and what is under the fence, is a directory with a past.
LEMMA KnownTargets ==
  ASSUME Inv, Lineage
  PROVE  /\ \A o \in Ops : Known(o) => operation[o].target \in Dirs \ {o}
         /\ \A o \in Ops : operation[o].target \in Ops => Known(operation[o].target)
         /\ \A d \in Dirs, o \in Ops : operation[o].target = d => d = Origin \/ Known(d)
         /\ pending # None => pending \in Ops /\ Known(pending)
         /\ fleet \in Ops => Known(fleet)
<1>1. \A o \in Ops : Known(o) => operation[o].target \in Dirs \ {o}
  BY DEF Inv, Journal, Known
<1>2. \A o \in Ops : operation[o].target \in Ops => Known(operation[o].target)
  BY PublicationAssumption DEF Lineage, Dirs
<1>3. pending # None => pending \in Ops /\ Known(pending)
  BY DEF Inv, TypeOK, Journal, JournalAndVersionsAgree, Known, Open
<1>4. fleet \in Ops => Known(fleet)
  BY NotShown DEF Known
<1> QED
  BY <1>1, <1>2, <1>3, <1>4 DEF Dirs

\* What an operation names and whether it is known stays, though its status may change.
SameNames ==
  \A o \in Ops : /\ operation'[o].prop = operation[o].prop
                 /\ operation'[o].target = operation[o].target
                 /\ Known(o)' <=> Known(o)

\* As long as versions, proposals and names stay, so does every tree.
LEMMA TreesStay ==
  ASSUME Inv, UNCHANGED <<versions, proposal>>, SameNames
  PROVE  \A d \in Dirs : TreeOf(d)' = TreeOf(d)
<1> SUFFICES ASSUME NEW d \in Dirs PROVE TreeOf(d)' = TreeOf(d)
  OBVIOUS
<1> QED
  BY DEF TreeOf, SameNames, Headed, Dirs

LEMMA LineageStays ==
  ASSUME Inv, Lineage, UNCHANGED <<versions, proposal>>, SameNames
  PROVE  Lineage'
<1>1. \A d \in Dirs : TreeOf(d)' = TreeOf(d)
  BY TreesStay
<1>2. Revision' = Revision
  BY DEF Revision
<1>3. ASSUME NEW o \in Ops
      PROVE  /\ Known(o)' =>
                  /\ proposal'[operation'[o].prop].base # 0
                  /\ proposal'[operation'[o].prop].before = TreeOf(operation[o].target)'
                  /\ operation'[o].target \in Ops => Known(operation[o].target)'
             /\ ~Known(o)' => operation'[o].target = None /\ operation'[o].prop = None
  <2>1. PICK t : t = operation[o].target
    OBVIOUS
  <2>2. operation'[o].target = t
    BY <2>1 DEF SameNames
  <2>3. Known(o) => t \in Dirs /\ proposal[operation[o].prop].before = TreeOf(t)
                    /\ (t \in Ops => Known(t))
    BY <2>1, KnownTargets DEF Lineage
  <2>4. TreeOf(operation[o].target)' = TreeOf(t)'
    BY <2>2 DEF TreeOf
  <2>5. Known(operation[o].target)' <=> Known(t)'
    BY <2>2 DEF Known
  <2> QED
    BY <1>1, <2>2, <2>3, <2>4, <2>5 DEF Lineage, SameNames
<1>4. ASSUME NEW v \in 2..Revision
      PROVE  versions'[v].tree = TreeOf(versions[v].op)'
  <2>1. PICK t : t = versions[v].op
    OBVIOUS
  <2>2. t \in Dirs /\ versions[v].tree = TreeOf(t)
    BY <2>1 DEF Inv, Journal, Lineage, Dirs
  <2>3. TreeOf(versions[v].op)' = TreeOf(t)'
    BY <2>1 DEF TreeOf
  <2> QED
    BY <1>1, <2>2, <2>3
<1> QED
  BY <1>2, <1>3, <1>4 DEF Lineage

\* As long as the directories stay too, so does what they hold; a fence may go.
LEMMA HoldingsStay ==
  ASSUME Inv, Holdings, UNCHANGED <<versions, proposal, fleet, scratch, content, touched>>,
         SameNames, pending' \in {pending, None}
  PROVE  Holdings'
<1>1. \A d \in Dirs : TreeOf(d)' = TreeOf(d)
  BY TreesStay
<1>2. Lineage'
  BY LineageStays DEF Holdings
<1>3. \A d \in Dirs : Whole(d) => Whole(d)'
  BY <1>1 DEF Whole, Expected
<1>4. Standing'
  <2>1. Whole(fleet)'
    <3>1. PICK d : d = fleet
      OBVIOUS
    <3>2. d \in Dirs /\ Whole(d)
      BY <3>1 DEF Inv, TypeOK, Holdings, Standing
    <3>3. Whole(fleet)' <=> Whole(d)'
      BY <3>1 DEF Whole, Expected, TreeOf
    <3> QED
      BY <3>2, <3>3, <1>3
  <2>2. ASSUME pending' # None
        PROVE  Facing(pending)'
    <3>1. PICK o, t : o = pending /\ t = operation[pending].target
      OBVIOUS
    <3>2. o \in Ops /\ Known(o) /\ t \in Dirs /\ t = operation[o].target /\ Facing(o)
      BY <2>2, <3>1, KnownTargets DEF Holdings, Standing
    <3>3. Whole(o)' /\ Whole(t)'
      BY <3>2, <1>3 DEF Facing, Dirs
    <3>4. operation'[o].target = t /\ pending' = o
      BY <2>2, <3>1, <3>2 DEF SameNames
    <3>5. Facing(o)'
      BY <3>2, <3>3, <3>4 DEF Facing, Whole, Expected, TreeOf
    <3> QED
      BY <3>4, <3>5 DEF Facing, Whole, Expected, TreeOf
  <2> QED
    BY <2>1, <2>2 DEF Standing
<1>5. Edits'
  <2>1. \A d \in touched' \cap Ops : Known(d)'
    BY DEF Holdings, Edits, SameNames
  <2>2. ASSUME NEW d \in touched, Note \notin TreeOf(d)'
        PROVE  Linked(d)' /\ Note \in content'[d]
    BY <2>2, <1>1 DEF Holdings, Edits, UserEditsStay, Linked, Inv, TypeOK
  <2> QED
    BY <2>1, <2>2 DEF Edits, UserEditsStay
<1> QED
  BY <1>2, <1>4, <1>5 DEF Holdings

\* A status that stays between the fence and the end of an operation.
LEMMA NamesOfStatus ==
  ASSUME Inv, NEW o \in Ops, NEW s \in OpStates \ {"none"}, Known(o),
         operation' = [operation EXCEPT ![o].status = s]
  PROVE  SameNames
<1>1. \A q \in Ops : /\ operation'[q].status = IF q = o THEN s ELSE operation[q].status
                     /\ operation'[q].prop = operation[q].prop
                     /\ operation'[q].target = operation[q].target
  BY StatusWritten DEF Inv
<1> QED
  BY <1>1 DEF SameNames, Known

\* Whoever gives up leaves the directories and the names.
LEMMA RetainedNames ==
  ASSUME Inv, NEW o \in Ops, Retain(o)
  PROVE  SameNames
<1>1. CASE operation[o].status # "prepared"
  BY <1>1 DEF Retain, SameNames, Known
<1>2. CASE operation[o].status = "prepared"
  BY <1>2, NamesOfStatus DEF Retain, Known, OpStates, Open
<1> QED
  BY <1>1, <1>2

LEMMA GivingUpKeeps ==
  ASSUME Inv, Inside, session.op \in Ops, GiveUp
  PROVE  Inside'
<1>1. SameNames
  BY RetainedNames DEF GiveUp
<1>2. session'.pc = "idle"
  BY SessionFields DEF GiveUp, Inv
<1>3. Staged'
  BY <1>2 DEF Staged
<1> QED
  BY <1>1, <1>3, HoldingsStay DEF GiveUp, Inside, files

\* A new proposal starts from the head.
LEMMA Proposed ==
  ASSUME Inv, Holdings, Headed, NEW q \in Proposals, NewProposal(q), NEW t, NEW p,
         proposal' = [proposal EXCEPT ![q] =
           [base |-> Revision, before |-> HeadTree, after |-> t, rollback_of |-> p]],
         UNCHANGED <<fleet, scratch, content, touched, versions, pending, operation>>
  PROVE  Holdings'
<1>1. /\ proposal'[q].base = Revision /\ proposal'[q].before = HeadTree
      /\ \A r \in Proposals : r # q => proposal'[r] = proposal[r]
  BY DEF Inv, TypeOK
<1>2. \A o \in Ops : Known(o) => operation[o].prop \in Proposals \ {q}
  BY DEF Inv, Journal, Known, Holdings, Lineage, NewProposal
<1>3. \A d \in Dirs : d = Origin \/ Known(d) => TreeOf(d)' = TreeOf(d)
  <2> SUFFICES ASSUME NEW d \in Dirs, d = Origin \/ Known(d) PROVE TreeOf(d)' = TreeOf(d)
    OBVIOUS
  <2> QED
    BY <1>1, <1>2 DEF TreeOf, Headed, Dirs
<1>4. Revision' = Revision /\ Revision \in 1..Revision
  BY Rows DEF Inv, Revision
<1>5. Lineage'
  <2>1. \A r \in Proposals : proposal'[r].base # 0 =>
          /\ proposal'[r].base \in 1..Revision
          /\ proposal'[r].before = versions[proposal'[r].base].tree
    BY <1>1, <1>4 DEF Holdings, Lineage, HeadTree
  <2>2. ASSUME NEW o \in Ops, Known(o)
        PROVE  /\ proposal'[operation[o].prop].base # 0
               /\ proposal'[operation[o].prop].before = TreeOf(operation[o].target)'
               /\ operation[o].target \in Ops => Known(operation[o].target)'
    <3>1. PICK t1 : t1 = operation[o].target
      OBVIOUS
    <3>2. t1 \in Dirs /\ (t1 = Origin \/ Known(t1)) /\ proposal[operation[o].prop].before = TreeOf(t1)
      BY <2>2, <3>1, KnownTargets DEF Holdings, Lineage, Dirs
    <3>3. TreeOf(operation[o].target)' = TreeOf(t1)'
      BY <3>1 DEF TreeOf
    <3>4. proposal'[operation[o].prop] = proposal[operation[o].prop]
      BY <2>2, <1>1, <1>2
    <3> QED
      BY <2>2, <3>1, <3>2, <3>3, <3>4, <1>3 DEF Holdings, Lineage, Known
  <2>3. ASSUME NEW v \in 2..Revision
        PROVE  versions[v].tree = TreeOf(versions[v].op)'
    <3>1. PICK o : o = versions[v].op
      OBVIOUS
    <3>2. o \in Ops /\ Known(o) /\ versions[v].tree = TreeOf(o)
      BY <3>1 DEF Inv, Journal, JournalAndVersionsAgree, Known, Holdings, Lineage
    <3>3. TreeOf(versions[v].op)' = TreeOf(o)'
      BY <3>1 DEF TreeOf
    <3> QED
      BY <3>2, <3>3, <1>3 DEF Dirs
  <2> QED
    BY <2>1, <2>2, <2>3, <1>4 DEF Holdings, Lineage, Known
<1>6. \A d \in Dirs : (d = Origin \/ Known(d)) /\ Whole(d) => Whole(d)'
  BY <1>3 DEF Whole, Expected
<1>7. Standing'
  <2>1. Whole(fleet)'
    <3>1. PICK d : d = fleet
      OBVIOUS
    <3>2. d \in Dirs /\ (d = Origin \/ Known(d)) /\ Whole(d)
      BY <3>1, KnownTargets DEF Inv, TypeOK, Holdings, Standing, Dirs
    <3>3. Whole(fleet)' <=> Whole(d)'
      BY <3>1 DEF Whole, Expected, TreeOf
    <3> QED
      BY <3>2, <3>3, <1>6
  <2>2. ASSUME pending # None
        PROVE  Facing(pending)'
    <3>1. PICK o, t1 : o = pending /\ t1 = operation[pending].target
      OBVIOUS
    <3>2. /\ o \in Ops /\ Known(o) /\ Facing(o) /\ t1 = operation[o].target
          /\ t1 \in Dirs /\ (t1 = Origin \/ Known(t1))
      BY <2>2, <3>1, KnownTargets DEF Holdings, Standing, Dirs
    <3>3. Whole(o)' /\ Whole(t1)'
      BY <3>2, <1>6 DEF Facing, Dirs
    <3>4. Facing(o)'
      BY <3>2, <3>3 DEF Facing, Whole, Expected, TreeOf
    <3> QED
      BY <3>1, <3>4 DEF Facing, Whole, Expected, TreeOf
  <2> QED
    BY <2>1, <2>2 DEF Standing
<1>8. Edits'
  <2>1. \A d \in touched : d \in Dirs /\ (d = Origin \/ Known(d))
    BY DEF Inv, TypeOK, Holdings, Edits, Dirs
  <2>2. \A d \in touched : TreeOf(d)' = TreeOf(d)
    BY <2>1, <1>3
  <2>3. ASSUME NEW d \in touched, Note \notin TreeOf(d)'
        PROVE  Linked(d)' /\ Note \in content'[d]
    BY <2>2, <2>3 DEF Holdings, Edits, UserEditsStay, Linked
  <2> QED
    BY <2>3 DEF Edits, UserEditsStay, Holdings, Known
<1> QED
  BY <1>5, <1>7, <1>8 DEF Holdings

\* The first capture registers what is there: nothing was proposed before.
LEMMA Registered ==
  ASSUME Inv, Holdings, RegisterBaseline, pending = None,
         UNCHANGED <<fleet, scratch, content, pending, proposal, operation>>
  PROVE  Holdings'
<1>1. CASE Headed
  BY <1>1, HoldingsStay DEF RegisterBaseline, SameNames, Known
<1>2. CASE ~Headed
  <2>1. /\ versions' = <<[tree |-> content[fleet], op |-> Origin]>> /\ touched' = {}
        /\ Revision' = 1 /\ Revision = 0 /\ Headed' /\ versions'[1].tree = content[fleet]
    BY <1>2 DEF RegisterBaseline, Revision, Headed
  <2>2. fleet = Origin
    BY <1>2 DEF Inv, Shown, Current
  <2>3. \A q \in Proposals : proposal[q].base = 0
    BY <2>1 DEF Holdings, Lineage
  <2>4. \A o \in Ops : ~Known(o)
    BY <2>3 DEF Inv, Journal, Known, Holdings, Lineage
  <2>5. Lineage'
    BY <2>1, <2>3, <2>4 DEF Holdings, Lineage, Known
  <2>6. Standing'
    BY <2>1, <2>2 DEF Standing, Whole, Expected, TreeOf
  <2>7. Edits'
    BY <2>1 DEF Edits, UserEditsStay
  <2> QED
    BY <2>5, <2>6, <2>7 DEF Holdings
<1> QED
  BY <1>1, <1>2

\* What changes in a directory that is neither shown nor under the fence, and what leaves
\* a scratch, is no loss as long as no edit of the user was in it.
LEMMA Elsewhere ==
  ASSUME Inv, Holdings, NEW o \in Ops, NEW e, pending = None, e # fleet,
         e \in touched => Note \in TreeOf(e),
         \A d \in Dirs : d # e => content'[d] = content[d],
         \A q \in Ops : q # o => scratch'[q] = scratch[q],
         scratch'[o] = scratch[o] \/ scratch[o] \in {e, Empty, None},
         UNCHANGED <<fleet, touched, versions, pending, proposal, operation>>
  PROVE  Holdings'
<1>1. SameNames
  BY DEF SameNames, Known
<1>2. \A d \in Dirs : TreeOf(d)' = TreeOf(d)
  BY <1>1, TreesStay
<1>3. Lineage'
  BY <1>1, LineageStays DEF Holdings
<1>4. Standing'
  <2>1. PICK d : d = fleet
    OBVIOUS
  <2>2. d \in Dirs /\ Whole(d) /\ content'[d] = content[d]
    BY <2>1 DEF Inv, TypeOK, Holdings, Standing
  <2>3. Whole(d)'
    BY <2>2, <1>2 DEF Whole, Expected
  <2>4. Whole(fleet)' <=> Whole(d)'
    BY <2>1 DEF Whole, Expected, TreeOf
  <2> QED
    BY <2>3, <2>4 DEF Standing
<1>5. Edits'
  <2>1. ASSUME NEW d \in touched, Note \notin TreeOf(d)'
        PROVE  Linked(d)' /\ Note \in content'[d]
    <3>1. d \in Dirs /\ Note \notin TreeOf(d)
      BY <2>1, <1>2 DEF Inv, TypeOK
    <3>2. d # e /\ Linked(d) /\ Note \in content[d]
      BY <3>1 DEF Holdings, Edits, UserEditsStay
    <3>3. d \notin {Empty, None}
      BY <3>1, PublicationAssumption
    <3> QED
      BY <3>1, <3>2, <3>3 DEF Linked
  <2> QED
    BY <2>1 DEF Edits, UserEditsStay, Holdings, Known
<1> QED
  BY <1>3, <1>4, <1>5 DEF Holdings

\* A removal touches the directory in the scratch, and the scratch.
LEMMA Removed ==
  ASSUME Inv, Holdings, NEW o \in Ops, scratch[o] \in Dirs, RemoveBackup(o), pending = None,
         scratch[o] # fleet, scratch[o] \in touched => Note \in TreeOf(scratch[o]),
         UNCHANGED <<fleet, touched, versions, pending, proposal, operation>>
  PROVE  Holdings'
<1>1. PICK e \in Dirs : e = scratch[o]
  OBVIOUS
<1>2. /\ \A d \in Dirs : d # e => content'[d] = content[d]
      /\ \A q \in Ops : q # o => scratch'[q] = scratch[q]
  BY <1>1 DEF RemoveBackup, Inv, TypeOK
<1>3. e \in touched => Note \in TreeOf(e)
  BY <1>1
<1> QED
  BY <1>1, <1>2, <1>3, Elsewhere

\* The user changes a directory and nothing else.
LEMMA Edited ==
  ASSUME Inv, Inside, NEW d \in Dirs, EditOrganization(d)
  PROVE  Inside'
<1>1. /\ content' = [content EXCEPT ![d] = Toggle(content[d])]
      /\ touched' = IF (Note \in content'[d]) <=> (Note \in TreeOf(d))
                    THEN touched \ {d} ELSE touched \cup {d}
      /\ UNCHANGED <<fleet, scratch, versions, pending, proposal, operation, session>>
      /\ fleet = d \/ (Linked(d) /\ \E o \in Ops : operation[o].target = d)
  BY DEF EditOrganization, journal
<1>2. SameNames /\ Lineage
  BY <1>1 DEF SameNames, Known, Inside, Holdings
<1>3. \A e \in Dirs : TreeOf(e)' = TreeOf(e)
  BY <1>1, <1>2, TreesStay
<1>4. Lineage'
  BY <1>1, <1>2, LineageStays
<1>5. Linked(d) /\ (d = Origin \/ Known(d))
  BY <1>1, <1>2, KnownTargets DEF Linked, Dirs
<1>6. /\ content'[d] = Toggle(content[d])
      /\ \A e \in Dirs : e # d => content'[e] = content[e] /\ (e \in touched' <=> e \in touched)
  BY <1>1 DEF Inv, TypeOK
<1>7. ASSUME NEW e \in Dirs, Whole(e)
      PROVE  Whole(e)'
  <2>1. CASE e # d
    BY <2>1, <1>3, <1>6, <1>7 DEF Whole, Expected
  <2>2. CASE e = d
    <3>1. content[d] \in {TreeOf(d), Toggle(TreeOf(d))}
      BY <2>2, <1>7 DEF Whole, Expected
    <3>2. CASE content[d] = TreeOf(d)
      <4>1. content'[d] = Toggle(TreeOf(d)) /\ d \in touched'
        BY <3>2, <1>1, <1>6 DEF Toggle
      <4> QED
        BY <4>1, <2>2, <1>3 DEF Whole, Expected
    <3>3. CASE content[d] = Toggle(TreeOf(d))
      <4>1. content'[d] = TreeOf(d)
        BY <3>3, <1>6 DEF Toggle
      <4>2. d \notin touched'
        BY <4>1, <1>1
      <4> QED
        BY <4>1, <4>2, <2>2, <1>3 DEF Whole, Expected
    <3> QED
      BY <3>1, <3>2, <3>3
  <2> QED
    BY <2>1, <2>2
<1>8. Standing'
  <2>1. Whole(fleet)'
    <3>1. PICK e : e = fleet
      OBVIOUS
    <3>2. e \in Dirs /\ Whole(e)
      BY <3>1 DEF Inv, TypeOK, Inside, Holdings, Standing
    <3>3. Whole(fleet)' <=> Whole(e)'
      BY <3>1, <1>1 DEF Whole, Expected, TreeOf
    <3> QED
      BY <3>2, <3>3, <1>7
  <2>2. ASSUME pending # None
        PROVE  Facing(pending)'
    <3>1. PICK o, t : o = pending /\ t = operation[pending].target
      OBVIOUS
    <3>2. /\ o \in Ops /\ Known(o) /\ Facing(o) /\ t = operation[o].target /\ t \in Dirs
      BY <2>2, <3>1, <1>2, KnownTargets DEF Inside, Holdings, Standing, Dirs
    <3>3. Whole(o)' /\ Whole(t)'
      BY <3>2, <1>7 DEF Facing, Dirs
    <3>4. Facing(o)'
      BY <3>2, <3>3, <1>1 DEF Facing, Whole, Expected, TreeOf
    <3> QED
      BY <3>1, <3>4, <1>1 DEF Facing, Whole, Expected, TreeOf
  <2> QED
    BY <2>1, <2>2, <1>1 DEF Standing
<1>9. Edits'
  <2>1. \A e \in touched' \cap Ops : Known(e)'
    BY <1>1, <1>5, PublicationAssumption DEF Inside, Holdings, Edits, Known
  <2>2. ASSUME NEW e \in touched', Note \notin TreeOf(e)'
        PROVE  Linked(e)' /\ Note \in content'[e]
    <3>1. e \in Dirs /\ Note \notin TreeOf(e)
      BY <2>2, <1>1, <1>3 DEF Inv, TypeOK
    <3>2. CASE e # d
      BY <3>1, <3>2, <1>1, <1>6 DEF Inside, Holdings, Edits, UserEditsStay, Linked
    <3>3. CASE e = d
      BY <3>1, <3>3, <1>1, <1>5 DEF Linked
    <3> QED
      BY <3>2, <3>3
  <2> QED
    BY <2>1, <2>2 DEF Edits, UserEditsStay
<1>10. Staged'
  <2>1. session.pc = "prepare" => session.op \in Ops /\ ~Known(session.op)
    BY DEF Inv, Kinds, Knows, Known
  <2>2. session.pc = "prepare" => session.op # d
    BY <2>1, <1>5, PublicationAssumption
  <2> QED
    BY <2>1, <2>2, <1>1, <1>6 DEF Inside, Staged, Known, Dirs
<1> QED
  BY <1>4, <1>8, <1>9, <1>10 DEF Inside, Holdings

\* A directory is staged under a name that nothing else has.
LEMMA StagedKeeps ==
  ASSUME Inv, Inside, Stage
  PROVE  Inside'
<1>1. UNCHANGED <<fleet, touched, versions, pending, proposal, operation>>
  BY DEF Stage, journal
<1>2. pending = None
  BY DEF Stage, Inside, Staged
<1>3. CASE Leave /\ UNCHANGED <<scratch, content>>
  <2>1. session'.pc = "idle"
    BY <1>3, SessionFields DEF Inv
  <2>2. Staged'
    BY <2>1 DEF Staged
  <2> QED
    BY <2>2, <1>1, <1>3, HoldingsStay DEF Inside, SameNames, Known
<1>4. ASSUME NEW o \in Ops, scratch[o] = None, operation[o].status = "none",
             scratch' = [scratch EXCEPT ![o] = o],
             content' = [content EXCEPT ![o] = proposal[session.prop].after],
             session' = [session EXCEPT !.pc = "prepare", !.op = o,
                           !.target = fleet, !.before = content[fleet]]
      PROVE  Inside'
  <2>1. /\ session'.pc = "prepare" /\ session'.op = o /\ session'.prop = session.prop
        /\ session'.target = fleet
    BY <1>4, SessionFields DEF SessionRecord, Inv
  <2>2. o \in Dirs /\ fleet # o
    BY <1>4, NotShown DEF Dirs
  <2>3. /\ scratch'[o] = o /\ content'[o] = proposal[session.prop].after
        /\ \A d \in Dirs : d # o => content'[d] = content[d]
        /\ \A q \in Ops : q # o => scratch'[q] = scratch[q]
    BY <1>4, <2>2 DEF Inv, TypeOK
  <2>4. Staged'
    BY <1>1, <1>2, <2>1, <2>3 DEF Staged
  <2>5. o \notin touched
    BY <1>4 DEF Inside, Holdings, Edits, Known
  <2>6. Holdings'
    BY <1>1, <1>2, <1>4, <2>2, <2>3, <2>5, Elsewhere DEF Inside
  <2> QED
    BY <2>4, <2>6 DEF Inside
<1> QED
  BY <1>3, <1>4 DEF Stage

\* The journal writes down the two directories as they stand: the target is what is
\* shown, and it is the version that the proposal started from.
LEMMA PreparedKeeps ==
  ASSUME Inv, Inside, Prepare
  PROVE  Inside'
<1>1. /\ UNCHANGED <<fleet, scratch, content, touched, versions, proposal>>
      /\ session.pc = "prepare"
  BY DEF Prepare, files
<1>2. /\ session.op \in Ops /\ session.prop \in Proposals /\ ~Known(session.op)
      /\ proposal[session.prop].base # 0
  BY <1>1 DEF Inv, Kinds, Knows, Known
<1>3. /\ session.target = fleet /\ scratch[session.op] = session.op
      /\ content[session.op] = proposal[session.prop].after
  BY <1>1 DEF Inside, Staged
<1>4. CASE Goto("discard") /\ UNCHANGED <<operation, pending>>
  <2>1. session'.pc = "discard" /\ session'.op = session.op
    BY <1>4, SessionFields DEF Inv, Labels
  <2>2. Staged'
    BY <1>2, <1>4, <2>1 DEF Staged, Known
  <2> QED
    BY <1>1, <1>4, <2>2, HoldingsStay DEF Inside, SameNames, Known
<1>5. CASE /\ CanPrepare /\ pending' = session.op
           /\ operation' = [operation EXCEPT ![session.op] =
                [status |-> "prepared", prop |-> session.prop, target |-> session.target,
                 source |-> session.source, version |-> 0]]
           /\ Goto("exchange") \/ Goto("discard")
  <2>1. PICK o, p, t : o = session.op /\ p = session.prop /\ t = fleet
    OBVIOUS
  <2>2. /\ o \in Ops /\ ~Known(o) /\ p \in Proposals /\ t \in Dirs /\ t # o
        /\ (t = Origin \/ Known(t))
    BY <1>2, <2>1, KnownTargets DEF Inv, TypeOK, Inside, Holdings, Known, Dirs
  <2>3. /\ operation'[o].status = "prepared" /\ operation'[o].prop = p
        /\ operation'[o].target = t
        /\ \A q \in Ops : q # o => operation'[q] = operation[q]
    BY <1>2, <1>3, <1>5, <2>1 DEF Inv, TypeOK
  <2>4. pending = None /\ proposal[p].base = Revision /\ Revision # 0
    BY <1>2, <1>5, <2>1 DEF CanPrepare
  <2>5. Headed
    BY <2>4 DEF Headed, Revision
  <2>6. \A d \in Dirs : d # o => TreeOf(d)' = TreeOf(d)
    <3> SUFFICES ASSUME NEW d \in Dirs, d # o PROVE TreeOf(d)' = TreeOf(d)
      OBVIOUS
    <3> QED
      BY <1>1, <2>3 DEF TreeOf, Headed, Dirs
  <2>7. TreeOf(o)' = proposal[p].after
    BY <1>1, <2>2, <2>3, PublicationAssumption DEF TreeOf
  <2>8. proposal[p].before = TreeOf(t)
    BY <1>2, <2>1, <2>4, <2>5, HeadOfCurrent DEF Inside, Holdings, Lineage, HeadTree, Inv, Shown
  <2>9. o \notin touched
    BY <2>2 DEF Inside, Holdings, Edits
  <2>10. Whole(o)' /\ Whole(t)'
    <3>1. Whole(t)
      BY <2>1 DEF Inside, Holdings, Standing
    <3>2. Whole(t)'
      BY <1>1, <2>2, <2>6, <3>1 DEF Whole, Expected
    <3> QED
      BY <1>1, <1>3, <2>1, <2>7, <2>9, <3>2 DEF Whole, Expected
  <2>11. Standing'
    <3>1. Whole(fleet)'
      BY <1>1, <2>1, <2>10 DEF Whole, Expected, TreeOf
    <3>2. Facing(o)'
      BY <1>1, <1>3, <2>1, <2>3, <2>10 DEF Facing, Whole, Expected, TreeOf
    <3> QED
      BY <1>5, <2>1, <3>1, <3>2 DEF Standing, Facing, Whole, Expected, TreeOf
  <2>12. Lineage'
    <3>1. ASSUME NEW q \in Ops
          PROVE  /\ Known(q)' =>
                      /\ proposal'[operation'[q].prop].base # 0
                      /\ proposal'[operation'[q].prop].before = TreeOf(operation[q].target)'
                      /\ operation'[q].target \in Ops => Known(operation[q].target)'
                 /\ ~Known(q)' => operation'[q].target = None /\ operation'[q].prop = None
      <4>1. CASE q = o
        <5>1. TreeOf(operation[q].target)' = TreeOf(t)' /\ (Known(operation[q].target)' <=> Known(t)')
          BY <4>1, <2>3 DEF TreeOf, Known
        <5>2. t \in Ops => Known(t)'
          BY <2>2, <2>3, PublicationAssumption DEF Known
        <5> QED
          BY <4>1, <5>1, <5>2, <1>1, <1>2, <2>1, <2>2, <2>3, <2>6, <2>8 DEF Known
      <4>2. CASE q # o
        <5>1. PICK t1 : t1 = operation[q].target
          OBVIOUS
        <5>2. TreeOf(operation[q].target)' = TreeOf(t1)' /\ (Known(operation[q].target)' <=> Known(t1)')
          BY <4>2, <5>1, <2>3 DEF TreeOf, Known
        <5>3. Known(q) => /\ t1 \in Dirs /\ (t1 = Origin \/ Known(t1))
                          /\ proposal[operation[q].prop].before = TreeOf(t1)
          BY <5>1, KnownTargets DEF Inside, Holdings, Lineage, Dirs
        <5>4. Known(q) => t1 # o
          BY <5>3, <2>2, PublicationAssumption
        <5>5. t1 \in Ops /\ Known(t1) => Known(t1)'
          BY <2>3 DEF Known
        <5> QED
          BY <4>2, <5>1, <5>2, <5>3, <5>4, <5>5, <1>1, <2>3, <2>6, PublicationAssumption
             DEF Inside, Holdings, Lineage, Known
      <4> QED
        BY <4>1, <4>2
    <3>2. ASSUME NEW v \in 2..Revision
          PROVE  versions'[v].tree = TreeOf(versions[v].op)'
      <4>1. PICK d : d = versions[v].op
        OBVIOUS
      <4>2. d \in Ops /\ Known(d) /\ versions[v].tree = TreeOf(d)
        BY <4>1 DEF Inv, Journal, JournalAndVersionsAgree, Known, Inside, Holdings, Lineage
      <4>3. TreeOf(versions[v].op)' = TreeOf(d)'
        BY <1>1, <4>1 DEF TreeOf
      <4> QED
        BY <1>1, <2>2, <2>6, <4>2, <4>3 DEF Dirs
    <3>3. Revision' = Revision
      BY <1>1 DEF Revision
    <3> QED
      BY <1>1, <3>1, <3>2, <3>3 DEF Lineage, Inside, Holdings
  <2>13. Edits'
    <3>1. \A d \in touched' \cap Ops : Known(d)'
      BY <1>1, <2>3, <2>9 DEF Inside, Holdings, Edits, Known
    <3>2. ASSUME NEW d \in touched', Note \notin TreeOf(d)'
          PROVE  Linked(d)' /\ Note \in content'[d]
      <4>1. d \in Dirs /\ Note \notin TreeOf(d)
        BY <3>2, <1>1, <2>6, <2>9 DEF Inv, TypeOK
      <4> QED
        BY <4>1, <3>2, <1>1 DEF Inside, Holdings, Edits, UserEditsStay, Linked
    <3> QED
      BY <3>1, <3>2 DEF Edits, UserEditsStay
  <2>14. Staged'
    <3>1. session'.pc \in {"exchange", "discard"} /\ session'.op = o /\ session'.prop = p
      BY <1>5, <2>1, SessionFields DEF Inv, Labels
    <3> QED
      BY <3>1, <2>3 DEF Staged
  <2> QED
    BY <2>11, <2>12, <2>13, <2>14 DEF Inside, Holdings
<1> QED
  BY <1>4, <1>5 DEF Prepare

\* An exchange turns the one orientation into the other.
LEMMA SwappedKeeps ==
  ASSUME Inv, Inside, Swap
  PROVE  Inside'
<1>1. session.op \in Ops /\ pending = session.op /\ scratch[session.op] = session.op
      /\ fleet # session.op
  BY DEF Swap, Inv, Kinds, Knows, Working
<1>2. CASE GiveUp
  BY <1>1, <1>2, GivingUpKeeps
<1>3. CASE /\ fleet' = scratch[session.op]
           /\ scratch' = [scratch EXCEPT ![session.op] = fleet]
           /\ Goto("sync")
           /\ UNCHANGED <<content, touched, source, journal, run>>
  <2>1. PICK o, t : o = session.op /\ t = operation[session.op].target
    OBVIOUS
  <2>2. /\ o \in Ops /\ o \in Dirs /\ pending = o /\ t \in Dirs /\ t # o
        /\ Whole(o) /\ Whole(t) /\ fleet = t /\ scratch[o] = o /\ pending # None
    BY <1>1, <2>1, Fenced, KnownTargets DEF Inside, Holdings, Standing, Facing, Dirs, Known, Open
  <2>3. /\ UNCHANGED <<content, touched, versions, pending, proposal, operation>>
        /\ fleet' = o /\ scratch'[o] = t
        /\ \A q \in Ops : q # o => scratch'[q] = scratch[q]
    BY <1>3, <2>1, <2>2 DEF journal, Inv, TypeOK
  <2>4. SameNames
    BY <2>3 DEF SameNames, Known
  <2>5. \A d \in Dirs : TreeOf(d)' = TreeOf(d)
    BY <2>3, <2>4, TreesStay
  <2>6. Lineage'
    BY <2>3, <2>4, LineageStays DEF Inside, Holdings
  <2>7. Standing'
    <3>1. Whole(o)' /\ Whole(t)'
      BY <2>2, <2>3, <2>5 DEF Whole, Expected
    <3>2. Whole(fleet)'
      BY <2>3, <3>1 DEF Whole, Expected, TreeOf
    <3>3. Facing(o)'
      BY <2>1, <2>3, <3>1 DEF Facing, Whole, Expected, TreeOf
    <3> QED
      BY <2>2, <2>3, <3>2, <3>3 DEF Standing, Facing, Whole, Expected, TreeOf
  <2>8. Edits'
    <3>1. \A d \in Dirs : Linked(d) => Linked(d)'
      BY <2>2, <2>3 DEF Linked
    <3>2. ASSUME NEW d \in touched, Note \notin TreeOf(d)'
          PROVE  Linked(d)' /\ Note \in content'[d]
      BY <3>1, <3>2, <2>3, <2>5 DEF Inside, Holdings, Edits, UserEditsStay, Inv, TypeOK
    <3> QED
      BY <3>2, <2>3 DEF Edits, UserEditsStay, Inside, Holdings, Known
  <2>9. Staged'
    <3>1. session'.pc = "sync"
      BY <1>3, SessionFields DEF Inv, Labels
    <3> QED
      BY <3>1 DEF Staged
  <2> QED
    BY <2>6, <2>7, <2>8, <2>9 DEF Inside, Holdings
<1> QED
  BY <1>2, <1>3 DEF Swap

\* A commit appends the tree of the operation, whose directory is shown.
LEMMA CommittedKeeps ==
  ASSUME Inv, Inside, CommitOperation
  PROVE  Inside'
<1>1. session.op \in Ops /\ pending = session.op /\ fleet = session.op
  BY DEF CommitOperation, Inv, Kinds, Knows, Working
<1>2. CASE GiveUp
  BY <1>1, <1>2, GivingUpKeeps
<1>3. CASE ~GiveUp
  <2>1. PICK o : o = session.op
    OBVIOUS
  <2>2. /\ versions' = Append(versions, [tree |-> proposal[operation[o].prop].after, op |-> o])
        /\ operation' = [operation EXCEPT ![o].status = "committed", ![o].version = Revision + 1]
        /\ pending' = None /\ UNCHANGED <<fleet, scratch, content, touched, proposal>>
        /\ Goto("clean") \/ Leave
    BY <1>3, <2>1 DEF CommitOperation, files
  <2>3. o \in Ops /\ o \in Dirs /\ o # Origin /\ Known(o) /\ Headed /\ operation[o].prop \in Proposals
    BY <1>1, <2>1, Fenced, PublicationAssumption DEF Known, Open, Dirs
  <2>4. PICK v : v = [tree |-> proposal[operation[o].prop].after, op |-> o]
    OBVIOUS
  <2>5. v \in [tree : Contents, op : Dirs] /\ versions \in Seq([tree : Contents, op : Dirs])
    BY <2>3, <2>4, Rows DEF Inv, TypeOK
  <2>6. /\ Revision \in Nat \ {0} /\ Revision' = Revision + 1
        /\ versions'[Revision + 1] = v /\ \A i \in 1..Revision : versions'[i] = versions[i]
    <3>1. Revision \in Nat \ {0}
      BY <2>3, Rows DEF Inv
    <3> QED
      BY <2>2, <2>4, <2>5, <3>1, Sequences DEF Revision
  <2>7. Headed'
    <3>1. Revision' # 0
      BY <2>6
    <3> QED
      BY <3>1 DEF Headed, Revision
  <2>8. SameNames
    <3>1. \A q \in Ops : /\ operation'[q].status = IF q = o THEN "committed" ELSE operation[q].status
                         /\ operation'[q].prop = operation[q].prop
                         /\ operation'[q].target = operation[q].target
      <4>1. operation \in [Ops -> [status : OpStates,
              prop : Proposals \cup {None}, target : Dirs \cup {None},
              source : Sources \cup {None}, version : Nat]]
        BY DEF Inv, TypeOK
      <4> QED
        BY <2>2, <4>1
    <3> QED
      BY <3>1, <2>3 DEF SameNames, Known
  <2>9. \A d \in Dirs : TreeOf(d)' = TreeOf(d)
    <3> SUFFICES ASSUME NEW d \in Dirs PROVE TreeOf(d)' = TreeOf(d)
      OBVIOUS
    <3>1. CASE d = Origin
      <4>1. versions'[1] = versions[1]
        BY <2>6
      <4> QED
        BY <3>1, <4>1, <2>3, <2>7 DEF TreeOf
    <3>2. CASE d # Origin
      <4>1. operation'[d].prop = operation[d].prop
        BY <3>2, <2>8 DEF SameNames, Dirs
      <4>2. proposal' = proposal
        BY <2>2
      <4> QED
        BY <3>2, <4>1, <4>2 DEF TreeOf
    <3> QED
      BY <3>1, <3>2
  <2>10. Lineage'
    <3>1. \A q \in Proposals : proposal'[q].base # 0 =>
            /\ proposal'[q].base \in 1..Revision'
            /\ proposal'[q].before = versions'[proposal'[q].base].tree
      <4> TAKE q \in Proposals
      <4> HAVE proposal'[q].base # 0
      <4>1. PICK b : b = proposal[q].base
        OBVIOUS
      <4>2. b \in 1..Revision /\ proposal[q].before = versions[b].tree /\ proposal' = proposal
        BY <2>2, <4>1 DEF Inside, Holdings, Lineage
      <4>3. b \in 1..Revision' /\ versions'[b] = versions[b]
        BY <2>6, <4>2
      <4> QED
        BY <4>1, <4>2, <4>3
    <3>2. ASSUME NEW q \in Ops
          PROVE  /\ Known(q)' =>
                      /\ proposal'[operation'[q].prop].base # 0
                      /\ proposal'[operation'[q].prop].before = TreeOf(operation[q].target)'
                      /\ operation'[q].target \in Ops => Known(operation[q].target)'
                 /\ ~Known(q)' => operation'[q].target = None /\ operation'[q].prop = None
      <4>1. PICK t : t = operation[q].target
        OBVIOUS
      <4>2. operation'[q].target = t
        BY <4>1, <2>8 DEF SameNames
      <4>3. Known(q) => /\ t \in Dirs /\ proposal[operation[q].prop].before = TreeOf(t)
                        /\ (t \in Ops => Known(t))
        BY <4>1, KnownTargets DEF Inside, Holdings, Lineage
      <4>4. TreeOf(operation[q].target)' = TreeOf(t)' /\ (Known(operation[q].target)' <=> Known(t)')
        BY <4>2 DEF TreeOf, Known
      <4> QED
        BY <4>2, <4>3, <4>4, <2>2, <2>8, <2>9 DEF Inside, Holdings, Lineage, SameNames
    <3>3. ASSUME NEW i \in 2..Revision'
          PROVE  versions'[i].tree = TreeOf(versions[i].op)'
      <4>1. PICK d : d = versions'[i].op
        OBVIOUS
      <4>2. TreeOf(versions[i].op)' = TreeOf(d)'
        BY <4>1 DEF TreeOf
      <4>3. CASE i = Revision + 1
        <5>1. d = o /\ versions'[i].tree = proposal[operation[o].prop].after
          BY <4>1, <4>3, <2>4, <2>6
        <5>2. TreeOf(o) = proposal[operation[o].prop].after
          BY <2>3 DEF TreeOf
        <5> QED
          BY <4>2, <5>1, <5>2, <2>3, <2>9
      <4>4. CASE i # Revision + 1
        <5>1. i \in 2..Revision
          BY <4>4, <2>6
        <5>2. versions'[i] = versions[i] /\ versions[i].tree = TreeOf(versions[i].op)
              /\ versions[i].op \in Ops
          BY <5>1, <2>6 DEF Inside, Holdings, Lineage, Inv, Journal
        <5>3. d \in Dirs /\ versions'[i].tree = TreeOf(d)
          BY <4>1, <5>2 DEF Dirs
        <5> QED
          BY <4>2, <5>3, <2>9
      <4> QED
        BY <4>3, <4>4
    <3> QED
      BY <3>1, <3>2, <3>3 DEF Lineage
  <2>11. Standing'
    <3>1. Whole(o)
      BY <1>1, <2>1 DEF Inside, Holdings, Standing
    <3>2. Whole(o)'
      BY <2>2, <2>3, <2>9, <3>1 DEF Whole, Expected
    <3> QED
      BY <1>1, <2>1, <2>2, <3>2 DEF Standing, Whole, Expected, TreeOf
  <2>12. Edits'
    <3>1. ASSUME NEW d \in touched, Note \notin TreeOf(d)'
          PROVE  Linked(d)' /\ Note \in content'[d]
      BY <3>1, <2>2, <2>9 DEF Inside, Holdings, Edits, UserEditsStay, Linked, Inv, TypeOK
    <3> QED
      BY <3>1, <2>2, <2>8 DEF Edits, UserEditsStay, Inside, Holdings, SameNames
  <2>13. Staged'
    <3>1. Goto("clean") => session'.pc = "clean"
      BY SessionFields DEF Inv, Labels
    <3>2. Leave => session'.pc = "idle"
      BY SessionFields DEF Inv
    <3>3. session'.pc \in {"clean", "idle"}
      BY <2>2, <3>1, <3>2
    <3> QED
      BY <2>2, <3>3 DEF Staged
  <2> QED
    BY <2>10, <2>11, <2>12, <2>13 DEF Inside, Holdings
<1> QED
  BY <1>2, <1>3

\* An abort ends the fence on the side where nothing was exchanged.
LEMMA AbortedKeeps ==
  ASSUME Inv, Inside, AbortOperation
  PROVE  Inside'
<1>1. session.op \in Ops /\ pending = session.op
  BY DEF AbortOperation, Inv, Kinds, Knows, Working
<1>2. CASE GiveUp
  BY <1>1, <1>2, GivingUpKeeps
<1>3. CASE ~GiveUp
  <2>1. /\ operation' = [operation EXCEPT ![session.op].status = "aborted"]
        /\ pending' = None /\ UNCHANGED <<fleet, scratch, content, touched, versions, proposal>>
        /\ Goto("clean") \/ Leave
    BY <1>3 DEF AbortOperation, files
  <2>2. SameNames
    BY <1>1, <2>1, Fenced, NamesOfStatus DEF Known, Open, OpStates
  <2>3. Goto("clean") => session'.pc = "clean"
    BY SessionFields DEF Inv, Labels
  <2>4. Leave => session'.pc = "idle"
    BY SessionFields DEF Inv
  <2>5. Staged'
    BY <2>1, <2>3, <2>4 DEF Staged
  <2> QED
    BY <2>1, <2>2, <2>5, HoldingsStay DEF Inside
<1> QED
  BY <1>2, <1>3

\* What was staged and never prepared is in no journal, so no edit can be in it.
LEMMA DiscardedKeeps ==
  ASSUME Inv, Inside, Discard
  PROVE  Inside'
<1>1. /\ session.pc = "discard" /\ session.op \in Ops /\ Leave
      /\ UNCHANGED <<fleet, touched, versions, pending, proposal>>
  BY DEF Discard, Inv, Kinds
<1>2. Staged'
  <2>1. session'.pc = "idle"
    BY <1>1, SessionFields DEF Inv
  <2> QED
    BY <2>1 DEF Staged
<1>3. CASE Retain(session.op) /\ UNCHANGED <<scratch, content>>
  <2>1. SameNames
    BY <1>1, <1>3, RetainedNames
  <2> QED
    BY <2>1, <1>1, <1>2, <1>3, HoldingsStay DEF Inside
<1>4. CASE UNCHANGED <<operation, scratch, content>>
  BY <1>1, <1>2, <1>4, HoldingsStay DEF Inside, SameNames, Known
<1>5. CASE /\ ~Published(session.prop) /\ UNCHANGED operation /\ pending = None
           /\ scratch[session.op] = session.op /\ RemoveBackup(session.op)
  <2>1. ~Known(session.op)
    BY <1>1, <1>5 DEF Inside, Staged, Published
  <2>2. session.op # fleet /\ session.op \notin touched /\ session.op \in Dirs
    BY <2>1, <1>1, NotShown DEF Known, Inside, Holdings, Edits, Dirs
  <2>3. Holdings'
    BY <2>2, <1>1, <1>5, Removed DEF Inside
  <2> QED
    BY <2>3, <1>2 DEF Inside
<1> QED
  BY <1>3, <1>4, <1>5 DEF Discard

\* A cleanup removes a directory only when nothing in it is the user's.
LEMMA CleanedKeeps ==
  ASSUME Inv, Inside, CleanupOwned
  PROVE  Inside'
<1>1. /\ session.pc = "clean" /\ session.op \in Ops /\ Leave
      /\ UNCHANGED <<fleet, touched, versions, pending, proposal, operation>>
      /\ operation[session.op].status \in {"committed", "aborted"} /\ pending = None
  BY DEF CleanupOwned, journal, Inv, Kinds, Knows, Inside, Staged
<1>2. Staged'
  <2>1. session'.pc = "idle"
    BY <1>1, SessionFields DEF Inv
  <2> QED
    BY <2>1 DEF Staged
<1>3. CASE MayRemove(session.op) /\ RemoveBackup(session.op)
  <2>1. PICK o, e : o = session.op /\ e = Backup(session.op)
    OBVIOUS
  <2>2. /\ o \in Ops /\ Known(o) /\ operation[o].target \in Dirs \ {o}
        /\ operation[o].status \in {"committed", "aborted"}
    BY <1>1, <2>1, KnownTargets DEF Inside, Holdings, Known
  <2>3. e \in Dirs /\ e # fleet /\ scratch[o] = e /\ content[e] \subseteq BackupTree(o)
    BY <1>3, <2>1, <2>2 DEF MayRemove, Backup, Kept, Dirs
  <2>4. BackupTree(o) = TreeOf(e)
    <3>1. TreeOf(o) = proposal[operation[o].prop].after
      BY <2>2, PublicationAssumption DEF TreeOf
    <3>2. proposal[operation[o].prop].before = TreeOf(operation[o].target)
      BY <2>2 DEF Inside, Holdings, Lineage
    <3> QED
      BY <2>1, <2>2, <3>1, <3>2 DEF BackupTree, Backup
  <2>5. e \in touched => Note \in TreeOf(e)
    BY <2>3, <2>4 DEF Inside, Holdings, Edits, UserEditsStay
  <2>6. Holdings'
    BY <1>1, <1>3, <2>1, <2>2, <2>3, <2>5, Removed DEF Inside
  <2> QED
    BY <2>6, <1>2 DEF Inside
<1>4. CASE scratch[session.op] = Empty /\ scratch' = [scratch EXCEPT ![session.op] = None]
           /\ UNCHANGED content
  <2>1. \A q \in Ops : q # session.op => scratch'[q] = scratch[q]
    BY <1>4 DEF Inv, TypeOK
  <2>2. None # fleet /\ None \notin touched
    BY PublicationAssumption DEF Inv, TypeOK
  <2>3. scratch[session.op] \in {None, Empty}
    BY <1>4
  <2>4. Holdings'
    BY <1>1, <1>4, <2>1, <2>2, <2>3, Elsewhere DEF Inside
  <2> QED
    BY <2>4, <1>2 DEF Inside
<1>5. CASE UNCHANGED <<scratch, content>>
  BY <1>1, <1>2, <1>5, HoldingsStay DEF Inside, SameNames, Known
<1> QED
  BY <1>1, <1>3, <1>4, <1>5 DEF CleanupOwned

\* A step that leaves the directories, the versions and the journal leaves what they hold.
LEMMA Untouched ==
  ASSUME Inv, Inside,
         UNCHANGED <<fleet, scratch, content, touched, versions, pending, proposal, operation>>,
         session'.pc \notin {"stage", "prepare", "discard", "clean"}
  PROVE  Inside'
<1>1. Holdings'
  BY HoldingsStay DEF Inside, SameNames, Known
<1> QED
  BY <1>1 DEF Inside, Staged

\* Every step of a command keeps what the directories hold.
LEMMA InsideOfCommands ==
  ASSUME Inv, Inside, Command
  PROVE  Inside'
<1> USE DEF files, journal
<1>0. TypeOK /\ Kinds /\ Knows
  BY DEF Inv
<1>1. CASE Enter
  BY <1>1, Untouched DEF Enter, Idle, Commands
<1>2. CASE Crash
  BY <1>0, <1>2, SessionFields, Untouched DEF Crash
<1>3. CASE Capture
  <2>1. CASE Leave /\ UNCHANGED <<versions, touched>>
    BY <2>1, <1>0, <1>3, SessionFields, Untouched DEF Capture
  <2>2. CASE /\ Unchanged /\ RegisterBaseline
             /\ session' = [session EXCEPT !.pc = CASE session.cmd = "start" -> "insert"
                                             [] session.cmd = "propose" -> "save"
                                             [] session.cmd = "patch" -> "applying"
                                             [] session.cmd = "rollback" -> "invert"]
    <3>1. session.cmd \in {"start", "propose", "patch", "rollback"}
      BY <1>0, <1>3 DEF Capture, Kinds
    <3>2. session'.pc \in {"insert", "save", "applying", "invert"}
      BY <2>2, <3>1, <1>0, SessionFields DEF SessionRecord
    <3>3. Holdings'
      BY <2>2, <1>3, Registered DEF Capture, Unchanged, Inside
    <3> QED
      BY <3>2, <3>3 DEF Inside, Staged
  <2> QED
    BY <2>1, <2>2, <1>3 DEF Capture
<1>4. CASE InsertRun
  BY <1>0, <1>4, SessionFields, Untouched DEF InsertRun
<1>5. CASE SaveProposal
  <2>1. Headed /\ session'.pc = "idle"
    BY <1>0, <1>5, SessionFields DEF SaveProposal, Knows, Captured
  <2>2. PICK q \in Proposals, t \in Trees : /\ NewProposal(q)
          /\ proposal' = [proposal EXCEPT ![q] =
               [base |-> Revision, before |-> HeadTree, after |-> Evolve(HeadTree, t),
                rollback_of |-> None]]
    BY <1>5 DEF SaveProposal
  <2>3. Holdings'
    BY <2>1, <2>2, <1>5, Proposed DEF SaveProposal, Inside
  <2> QED
    BY <2>1, <2>3 DEF Inside, Staged
<1>6. CASE Invert
  <2>1. Headed /\ pending = None
    BY <1>0, <1>6 DEF Invert, Knows, Captured
  <2>2. CASE Leave /\ UNCHANGED proposal
    BY <2>2, <1>0, <1>6, SessionFields, Untouched DEF Invert
  <2>3. ASSUME NEW q \in Proposals, NewProposal(q),
               proposal' = [proposal EXCEPT ![q] =
                 [base |-> Revision, before |-> HeadTree,
                  after |-> proposal[session.prop].before, rollback_of |-> session.prop]],
               session' = [session EXCEPT !.prop = q, !.pc = "check"]
        PROVE  Inside'
    <3>1. session'.pc = "check"
      BY <2>3, <1>0, SessionFields DEF SessionRecord
    <3>2. Holdings'
      BY <2>1, <2>3, <1>6, Proposed DEF Invert, Inside
    <3> QED
      BY <3>1, <3>2 DEF Inside, Staged
  <2> QED
    BY <2>2, <2>3, <1>6 DEF Invert
<1>7. CASE StartApplying
  BY <1>0, <1>7, SessionFields, Untouched DEF StartApplying, Labels
<1>8. CASE ApplyToTarget
  BY <1>0, <1>8, SessionFields, Untouched DEF ApplyToTarget, Labels
<1>9. CASE FinishApplying
  BY <1>0, <1>9, SessionFields, Untouched DEF FinishApplying
<1>10. CASE Check
  <2>1. CASE Leave
    BY <2>1, <1>0, <1>10, SessionFields, Untouched DEF Check
  <2>2. CASE Unchanged /\ session' = [session EXCEPT !.pc = "stage", !.source = source]
    <3>1. session'.pc = "stage" /\ pending' = None
      BY <2>2, <1>0, <1>10, SessionFields DEF Check, SessionRecord, Unchanged
    <3>2. Holdings'
      BY <1>10, HoldingsStay DEF Check, Inside, SameNames, Known
    <3> QED
      BY <3>1, <3>2 DEF Inside, Staged
  <2> QED
    BY <2>1, <2>2, <1>10 DEF Check
<1>11. CASE Stage
  BY <1>11, StagedKeeps
<1>12. CASE Prepare
  BY <1>12, PreparedKeeps
<1>13. CASE Discard
  BY <1>13, DiscardedKeeps
<1>14. CASE Exchange
  <2>1. session.op \in Ops
    BY <1>0, <1>14 DEF Exchange, Kinds, Working
  <2>2. CASE GiveUp
    BY <2>1, <2>2, GivingUpKeeps
  <2>3. CASE Goto("swap") /\ UNCHANGED <<files, journal, run>>
    BY <2>3, <1>0, SessionFields, Untouched DEF Labels
  <2> QED
    BY <2>2, <2>3, <1>14 DEF Exchange
<1>15. CASE Swap
  BY <1>15, SwappedKeeps
<1>16. CASE SyncExchanged
  <2>1. session.op \in Ops
    BY <1>0, <1>16 DEF SyncExchanged, Kinds, Working
  <2>2. CASE GiveUp
    BY <2>1, <2>2, GivingUpKeeps
  <2>3. CASE Goto("verify") /\ UNCHANGED <<files, journal, run>>
    BY <2>3, <1>0, SessionFields, Untouched DEF Labels
  <2> QED
    BY <2>2, <2>3, <1>16 DEF SyncExchanged
<1>17. CASE Verify
  <2>1. session.op \in Ops
    BY <1>0, <1>17 DEF Verify, Kinds, Working
  <2>2. CASE GiveUp
    BY <2>1, <2>2, GivingUpKeeps
  <2>3. CASE Goto("commit") /\ UNCHANGED <<files, journal, run>>
    BY <2>3, <1>0, SessionFields, Untouched DEF Labels
  <2> QED
    BY <2>2, <2>3, <1>17 DEF Verify
<1>18. CASE CommitOperation
  BY <1>18, CommittedKeeps
<1>19. CASE CleanupOwned
  BY <1>19, CleanedKeeps
<1>20. CASE Inspect
  <2>1. session.op \in Ops
    BY <1>0, <1>20 DEF Inspect, Kinds
  <2>2. CASE GiveUp
    BY <2>1, <2>2, GivingUpKeeps
  <2>3. CASE Leave /\ UNCHANGED <<files, journal, run>>
    BY <2>3, <1>0, SessionFields, Untouched
  <2>4. CASE SettledIsHead(session.op) /\ Goto("clean") /\ UNCHANGED <<files, journal, run>>
    <3>1. session'.pc = "clean" /\ pending' = None
      BY <2>4, <1>0, SessionFields DEF Labels, SettledIsHead
    <3>2. Holdings'
      BY <2>4, HoldingsStay DEF Inside, SameNames, Known
    <3> QED
      BY <3>1, <3>2 DEF Inside, Staged
  <2>5. ASSUME NEW l \in {"abort", "sync"}, Goto(l), UNCHANGED <<files, journal, run>>
        PROVE  Inside'
    BY <2>5, <1>0, SessionFields, Untouched DEF Labels
  <2> QED
    BY <2>2, <2>3, <2>4, <2>5, <1>20 DEF Inspect
<1>21. CASE AbortOperation
  BY <1>21, AbortedKeeps
<1> QED
  BY <1>1, <1>2, <1>3, <1>4, <1>5, <1>6, <1>7, <1>8, <1>9, <1>10, <1>11, <1>12, <1>13,
     <1>14, <1>15, <1>16, <1>17, <1>18, <1>19, <1>20, <1>21 DEF Command

\* And so does every step of the engine and of the user.
LEMMA InsideHolds == Inv /\ Inside /\ [Next]_vars => Inside'
<1> SUFFICES ASSUME Inv, Inside, [Next]_vars PROVE Inside'
  OBVIOUS
<1>1. CASE Command
  BY <1>1, InsideOfCommands
<1>2. ASSUME NEW d \in Dirs, EditOrganization(d) PROVE Inside'
  BY <1>2, Edited
<1>3. ASSUME UNCHANGED <<fleet, scratch, content, touched, versions, pending, proposal,
                         operation, session>>
      PROVE  Inside'
  <2>1. Holdings'
    BY <1>3, HoldingsStay DEF Inside, SameNames, Known
  <2> QED
    BY <2>1, <1>3 DEF Inside, Staged, Known
<1>4. ASSUME NEW r \in Runs, MoveRun(r) PROVE Inside'
  BY <1>3, <1>4 DEF MoveRun, files, journal
<1>5. CASE EditSource
  BY <1>3, <1>5 DEF EditSource, journal
<1>6. CASE UNCHANGED vars
  BY <1>3, <1>6 DEF vars, files, journal
<1> QED
  BY <1>1, <1>2, <1>4, <1>5, <1>6 DEF Next

LEMMA InsideInvariance == Spec => [](Inv /\ Inside)
<1>1. Init => Inside
  BY InsideInit
<1>2. Inv /\ Inside /\ [Next]_vars => Inside'
  BY InsideHolds
<1> QED
  BY <1>1, <1>2, Invariance, PTL DEF Spec

\* Between any two steps of a publication and after any death of it, `.fleet` is the
\* current version or the one under the fence, and holds all of it (stage, exchange,
\* cleanup_owned).
THEOREM FleetIsWhole == Spec => []FleetIsOneGeneration
<1>1. Inv /\ Inside => FleetIsOneGeneration
  BY DEF Inv, Shown, Inside, Holdings, Standing, Whole, FleetIsOneGeneration
<1> QED
  BY <1>1, InsideInvariance, PTL

\* No publication, recovery or cleanup takes away what the user added to a directory
\* (observe, _known_remainder, _remove_contents).
THEOREM EditsAreKept == Spec => []UserEditsStay
<1>1. Inv /\ Inside => UserEditsStay
  BY DEF Inside, Holdings, Edits
<1> QED
  BY <1>1, InsideInvariance, PTL

\* Wherever a publisher dies, recovery finds the two directories in one of the two
\* orientations that it can finish, unless the user changed one of them
\* (prepare_operation, _discard_unprepared).
THEOREM RecoveryCanFinish == Spec => []AlwaysRecoverable
<1>1. Inv /\ Inside => AlwaysRecoverable
  <2> SUFFICES ASSUME Inv, Inside, pending # None,
                      touched \cap {pending, operation[pending].target} = {}
               PROVE  Observation(pending) \in {"prepared", "exchanged"}
    BY DEF AlwaysRecoverable
  <2>1. PICK o, t : o = pending /\ t = operation[pending].target
    OBVIOUS
  <2>2. o \in Ops /\ Known(o) /\ t = operation[o].target /\ Facing(o)
    BY <2>1, KnownTargets DEF Inside, Holdings, Standing
  <2>3. content[o] = TreeOf(o) /\ content[t] = TreeOf(t)
    BY <2>1, <2>2 DEF Facing, Whole, Expected
  <2>4. TreeOf(o) = proposal[operation[o].prop].after
        /\ TreeOf(t) = proposal[operation[o].prop].before
    <3>1. TreeOf(o) = proposal[operation[o].prop].after
      BY <2>2, PublicationAssumption DEF TreeOf
    <3> QED
      BY <2>2, <3>1 DEF Inside, Holdings, Lineage
  <2>5. \/ fleet = t /\ scratch[o] = o
        \/ fleet = o /\ scratch[o] = t
    BY <2>2 DEF Facing
  <2> QED
    BY <2>1, <2>2, <2>3, <2>4, <2>5 DEF Observation
<1> QED
  BY <1>1, InsideInvariance, PTL
=============================================================================
