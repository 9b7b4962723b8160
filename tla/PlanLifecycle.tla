--------------------------- MODULE PlanLifecycle ---------------------------
(***************************************************************************)
(* What a workstream plan promises, without revisions, snapshots, requests *)
(* or crashes: a definition is agreed on before any of its stages runs and *)
(* never changes once one has; its stages are accepted one after the other *)
(* in the order of the definition; one run at a time works on the plan and *)
(* no run works on it twice.                                               *)
(***************************************************************************)
EXTENDS Naturals, Sequences

CONSTANTS Runs, Definitions, NoRun, NoDefinition

VARIABLES agreed,    \* the approved definition, or NoDefinition
          accepted,  \* positions of the accepted stages
          worker,    \* the run that works on the plan, or NoRun
          stage,     \* the position it works on, 0 when there is none
          used       \* runs that have ever worked on the plan

lifecycleVars == <<agreed, accepted, worker, stage, used>>

Init ==
  /\ agreed = NoDefinition
  /\ accepted = {}
  /\ worker = NoRun
  /\ stage = 0
  /\ used = {}

Agree(d) ==
  /\ agreed = NoDefinition
  /\ agreed' = d
  /\ UNCHANGED <<accepted, worker, stage, used>>

\* The definition is reopened, which only an untouched plan allows.
Withdraw ==
  /\ agreed # NoDefinition
  /\ used = {}
  /\ agreed' = NoDefinition
  /\ UNCHANGED <<accepted, worker, stage, used>>

Start(r, i) ==
  /\ agreed # NoDefinition
  /\ worker = NoRun
  /\ r \notin used
  /\ i \in 1 .. Len(agreed)
  /\ accepted = 1 .. (i - 1)
  /\ worker' = r
  /\ stage' = i
  /\ used' = used \cup {r}
  /\ UNCHANGED <<agreed, accepted>>

\* The work ends; only accepted work counts.
Stop ==
  /\ worker # NoRun
  /\ accepted' \in {accepted, accepted \cup {stage}}
  /\ worker' = NoRun
  /\ stage' = 0
  /\ UNCHANGED <<agreed, used>>

Next ==
  \/ \E d \in Definitions : Agree(d)
  \/ Withdraw
  \/ agreed # NoDefinition /\ \E r \in Runs, i \in 1 .. Len(agreed) : Start(r, i)
  \/ Stop

Spec == Init /\ [][Next]_lifecycleVars

=============================================================================
