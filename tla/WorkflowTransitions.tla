------------------------ MODULE WorkflowTransitions ------------------------
(***************************************************************************)
(* The transition policy of a Run (domain/workflow.py): a run is a pair of *)
(* a status and a stage, and every write of a run to the state store is    *)
(* checked against this table, in the transaction that writes it.          *)
(***************************************************************************)

RunStatus == {"created", "running", "waiting_for_children",
              "paused_for_approval", "paused_for_plan", "ready_for_review",
              "applying", "completed", "failed", "cancelled", "rejected",
              "abandoned"}

NoStage == "none"

WorkflowStage == {"intake", "scoping", "workspace_preparation",
                  "implementing", "verifying", "repairing", "presenting",
                  "applying", "cleanup"}

RunState == RunStatus \X (WorkflowStage \cup {NoStage})

Terminal == {"completed", "failed", "cancelled", "rejected", "abandoned"}

\* The outcomes every run that has not ended may be given at any stage.
Aborts == Terminal \ {"completed"}

\* The explicit edges, stage by stage.
Forward ==
  {<< <<"created", NoStage>>, <<"running", "intake">> >>,
   << <<"running", "intake">>, <<"running", "scoping">> >>,
   << <<"running", "scoping">>, <<"running", "workspace_preparation">> >>,
   << <<"running", "scoping">>, <<"running", "presenting">> >>,
   << <<"running", "workspace_preparation">>, <<"running", "implementing">> >>,
   << <<"running", "implementing">>, <<"running", "verifying">> >>,
   << <<"running", "implementing">>, <<"running", "presenting">> >>,
   << <<"running", "verifying">>, <<"running", "repairing">> >>,
   << <<"running", "verifying">>, <<"running", "presenting">> >>,
   << <<"running", "verifying">>, <<"rejected", "verifying">> >>,
   << <<"running", "repairing">>, <<"running", "verifying">> >>,
   << <<"running", "presenting">>, <<"ready_for_review", "presenting">> >>,
   << <<"running", "presenting">>, <<"completed", "presenting">> >>,
   << <<"ready_for_review", "presenting">>, <<"applying", "applying">> >>,
   << <<"applying", "applying">>, <<"running", "cleanup">> >>,
   << <<"running", "cleanup">>, <<"completed", "cleanup">> >>}

\* A pause keeps its stage, and only that stage resumes.
Pauses ==
  {<<"paused_for_plan", "scoping">>,
   <<"waiting_for_children", "implementing">>,
   <<"paused_for_approval", "implementing">>,
   <<"paused_for_approval", "verifying">>,
   <<"paused_for_approval", "repairing">>}

Allowed ==
  Forward \cup {<< <<"running", p[2]>>, p >> : p \in Pauses}
          \cup {<< p, <<"running", p[2]>> >> : p \in Pauses}

\* validate_transition: from and to are pairs <<status, stage>>.
ValidTransition(from, to) ==
  \/ from = to
  \/ from[1] \notin Terminal /\ to[1] \in Aborts
  \/ <<from, to>> \in Allowed
=============================================================================
