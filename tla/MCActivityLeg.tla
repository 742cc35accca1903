--------------------------- MODULE MCActivityLeg ---------------------------
(* Two policies of one repository for TLC, one of them with the activity leg
   switched off, and the runs of a person and of a machine user. *)
EXTENDS ActivityLeg

CONSTANTS on, off, gpu

Person == [actorType |-> "User", triggerType |-> "User", suffixed |-> FALSE,
           login |-> "ada", event |-> "push", key |-> gpu, fanout |-> 2, person |-> TRUE]

RunKinds == {Person, [Person EXCEPT !.login = "ci", !.person = FALSE]}

Configs == [p \in Policies |-> [appRef |-> TRUE, enabled |-> p = on, wants |-> {gpu},
                                denylist |-> {"ci"}]]

OwnNames == [p \in Policies |-> p]

\* The machine user is on the denylist.
ASSUME KnownAutomation == AutomationIsKnown
=============================================================================
