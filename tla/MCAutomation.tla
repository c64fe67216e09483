---------------------------- MODULE MCAutomation ----------------------------
(* Instances of Automation for TLC.                                        *)
EXTENDS Automation

(* The seeded workflows (migration 16): the draft in the middle, first, and*)
(* missing.  An empty one and two a user may create: drafts in a row, and  *)
(* drafts with steps between them.                                         *)
AllWorkflows ==
    [lead |-> <<"auto", "draft", "auto">>, won |-> <<"draft", "auto">>,
     inactive |-> <<"auto">>, empty |-> << >>,
     campaign |-> <<"draft", "draft">>, sequence |-> <<"draft", "auto", "draft", "auto">>]
=============================================================================
