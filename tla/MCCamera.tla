------------------------------ MODULE MCCamera ------------------------------
(***************************************************************************)
(* The two things lens.c has the camera do: move the lens (Focus) and take *)
(* pictures (Shooting).  Their tasks wait for each other nowhere and share *)
(* no state: one of them runs, the other stays as it started.              *)
(***************************************************************************)
EXTENDS Focus, Shooting

VARIABLE running                                     (* which of them      *)

all == <<running, vars, shvars>>

CamInit ==
  /\ running \in {"focus", "shooting"}
  /\ IF running = "focus" THEN TRUE ELSE setup = Stacks
  /\ Init /\ ShootInit

Moves(A) == running = "focus" /\ A /\ UNCHANGED <<running, shvars>>
Takes(A) == running = "shooting" /\ A /\ UNCHANGED <<running, vars>>

(* The fairness of Focus and of Shooting.                                  *)
CamSpec ==
  /\ CamInit /\ [][Moves(Next) \/ Takes(ShootNext)]_all
  /\ WF_vars(Moves(Stack)) /\ SF_vars(Moves(WaitTake("stack"))) /\ WF_vars(Moves(Task))
  /\ WF_vars(Moves(FocusDone))
  /\ SF_shvars(Takes(Bracket)) /\ WF_shvars(Takes(StackShoots)) /\ WF_shvars(Takes(JobBegins))
=============================================================================
