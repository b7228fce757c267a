---------------------------- MODULE MCTransactions ----------------------------
(***************************************************************************)
(* What is changed in several steps that can break off anywhere, for TLC   *)
(* in one run: the files of a module, and the binding instances of a       *)
(* router.  A behaviour is one of one component, its `part`, while the     *)
(* other stays in its initial state: their variables are disjoint, so what *)
(* holds here of a part is what holds of it alone.                         *)
(*                                                                         *)
(* An old and a new copy of a module's code.  Two forms, so that one is    *)
(* checked, reserved or applied while the other one is, for the same       *)
(* interfaces or for others; one of them is then started, stopped or       *)
(* deleted, with a script that breaks off and a restart at any time.       *)
(***************************************************************************)
EXTENDS ModuleInstaller, Naturals, FiniteSets

CONSTANTS Plans, Pairs, Slots, Tables, MaxForms, MaxActions, MaxFailures, MaxRestarts
ASSUME SetupAssumption ==
  /\ IsFiniteSet(Plans) /\ IsFiniteSet(Pairs)
  /\ Slots \subseteq Nat /\ Tables \subseteq Nat \ {0}

VARIABLE part

VARIABLES router, sample, model, data, disk, dirty, prep, op, broken,
          forms, actions, failures, restarts
setupVars == <<router, sample, model, data, disk, dirty, prep, op, broken,
               forms, actions, failures, restarts>>
Setup == INSTANCE BindingSetup

\* What a component's initial state leaves open is open only when it is the part.
AllInit ==
  /\ part \in {"installer", "setup"}
  /\ Init /\ Setup!Init
  /\ part # "installer" => target = None /\ owned = Empty

AllNext ==
  /\ UNCHANGED part
  /\ \/ part = "installer" /\ Next /\ UNCHANGED setupVars
     \/ part = "setup" /\ Setup!Next /\ UNCHANGED vars

\* Of the installer only safety is asked; the binding engine works unasked.
AllSpec ==
  /\ AllInit /\ [][AllNext]_<<part, vars, setupVars>>
  /\ WF_setupVars(Setup!Works)
  /\ []<>(part = "setup" => ~Setup!CanTake) /\ []<>(part = "setup" => ~Setup!CanSweep)

-----------------------------------------------------------------------------
(***************************************************************************)
(* The properties of the parts; those of the installer keep their names.   *)
(***************************************************************************)

\* The preparation of binding instances: neither slots, interfaces nor tables are
\* given twice, and the router has what is stored as long as no script is cut off
\* (BindingSetup).
PreparationsAgree == Setup!TypeOK /\ Setup!PreparationsAgree

\* Whatever scripts, restarts and reboots have done, every stored instance comes to
\* have its catch-all rule (BindingSetup).
GuardsConverge == Setup!GuardsConverge
=============================================================================
