--------------------------- MODULE KnowledgeReleases ---------------------------
(***************************************************************************)
(* The knowledge the sectors are interviewed with: releases of questions    *)
(* that reviewers move from draft to released, and per industry one pointer *)
(* to the release that is live.  Every operation is one guarded statement,  *)
(* or one transaction behind the lock of the industry's row, so each is one *)
(* action; one that changes no row is no action.                           *)
(*                                                                         *)
(* The database's own constraints are part of the guards: the pointer is a  *)
(* foreign key to a release AND its status, and a check holds the status it *)
(* carries at "released".  Generation by a model, the questions' text and   *)
(* the versions of a template are left out.                                *)
(***************************************************************************)
EXTENDS Naturals, Sequences

CONSTANTS Industry, Release,
          NoRelease,   \* nothing is live
          MaxActs      \* bound: what the reviewers do

ASSUME NoReleaseAssumption == NoRelease \notin Release
ASSUME MaxActsAssumption == MaxActs \in Nat

VARIABLES
    industry,  \* industries.status, "absent" before there is a row
    release,   \* template_releases.status, "absent" before there is a row
    active,    \* active_templates: the pointer of each industry
    history,   \* active_template_history: what was made live, in order
    acts       \* how much of the bound is used

knowledge == <<industry, release, active, history, acts>>

ReleaseStatus == {"absent", "draft", "in_review", "approved", "released", "deprecated"}

KnowledgeInit == /\ industry = [i \in Industry |-> "absent"]
                 /\ release = [r \in Release |-> "absent"]
                 /\ active = [i \in Industry |-> NoRelease]
                 /\ history = <<>>
                 /\ acts = 0

Acts == acts < MaxActs /\ acts' = acts + 1

\* Registered, or on conflict left as it is.
Register(i) == /\ Acts
               /\ industry[i] = "absent"
               /\ industry' = [industry EXCEPT ![i] = "active"]
               /\ UNCHANGED <<release, active, history>>

\* The compare-and-swap that every move of a release is.
Moves(r, from, to) == /\ Acts
                      /\ release[r] \in from
                      /\ release' = [release EXCEPT ![r] = to]
                      /\ UNCHANGED <<industry, active, history>>

\* A generated or imported pack: the template needs its industry to exist.
Generate(r) == /\ \E i \in Industry : industry[i] # "absent"
               /\ Moves(r, {"absent"}, "draft")

Submit(r) == Moves(r, {"draft"}, "in_review")

Approve(r) == Moves(r, {"in_review"}, "approved")

\* [mutant] what is released can be sent back too
Reject_Released(r) == Moves(r, {"in_review", "approved", "released"}, "draft")

Reject(r) == Moves(r, {"in_review", "approved"}, "draft")

Publish(r) == Moves(r, {"approved"}, "released")

\* First activation, replacement and rollback alike.  Neither the industry's status nor
\* whose pack it is is looked at; what was never released, the foreign key refuses.
Activate(i, r) == /\ Acts
                  /\ industry[i] # "absent"
                  /\ release[r] = "released"
                  /\ active' = [active EXCEPT ![i] = r]
                  /\ history' = Append(history, [industry |-> i, release |-> r])
                  /\ UNCHANGED <<industry, release>>

\* [mutant] the release is retired under the customers it serves
RetireIndustry_KeepPointer(i) ==
    /\ Acts
    /\ industry[i] # "absent"
    /\ industry' = [industry EXCEPT ![i] = "retired"]
    /\ release' = [r \in Release |-> IF r = active[i] THEN "deprecated" ELSE release[r]]
    /\ UNCHANGED <<active, history>>

\* One transaction: the pointer is cleared, the industry retired, and what was live is
\* deprecated, which another industry's pointer to the same release refuses.
RetireIndustry(i) ==
    /\ Acts
    /\ industry[i] # "absent"
    /\ \A j \in Industry \ {i} : active[i] = NoRelease \/ active[j] # active[i]
    /\ active' = [active EXCEPT ![i] = NoRelease]
    /\ industry' = [industry EXCEPT ![i] = "retired"]
    /\ release' = [r \in Release |-> IF r = active[i] THEN "deprecated" ELSE release[r]]
    /\ UNCHANGED history

KnowledgeStep == \/ \E i \in Industry : Register(i) \/ RetireIndustry(i)
                 \/ \E r \in Release : \/ Generate(r) \/ Submit(r) \/ Approve(r)
                                       \/ Reject(r) \/ Publish(r)
                 \/ \E i \in Industry, r \in Release : Activate(i, r)
=============================================================================
