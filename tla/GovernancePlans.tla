---------------------------- MODULE GovernancePlans ----------------------------
(***************************************************************************)
(* The plans a tenant's analyses lead to: the two steps of the mission that *)
(* drafts a plan from the latest version and, once approved, makes it the   *)
(* active one in place of the last, and the practitioners who move its     *)
(* items (PlanExecutionService).                                           *)
(*                                                                         *)
(* The tools write on autocommit, so two finalizing missions interleave; an *)
(* item changes with its audit event in one transaction, under an          *)
(* optimistic lock on the time it was read at.  A plan has one item here,   *)
(* and the n-th change of it is time n: its lock is the length of its trail. *)
(***************************************************************************)
EXTENDS SectorAssessment

VARIABLES plans  \* governance_plans, in the order they were created, each with its item

Planning == {"draft", "prior", "supersede", "create", "bind", "item", "write"}

NoItem == [status |-> "none", trail |-> <<>>]

PlansInit == plans = <<>>

-----------------------------------------------------------------------------
(* Drafting and finalizing a plan. *)

DraftFromSession(c, s) ==
    /\ sessions[s].status = "concluded"
    /\ Begins(c, "plan", "draft", [session |-> s])
    /\ UNCHANGED plans

\* The latest recorded analysis; without one the draft fails.
DraftFromVersion(c) ==
    /\ pc[c] = "draft"
    /\ LET latest == Len(versions[held[c].session])
       IN IF latest = 0 THEN Ends(c)
          ELSE Goes(c, "prior", With(held[c], [basis |-> latest]))
    /\ UNCHANGED plans

ActivePlans == {i \in DOMAIN plans : plans[i].status = "active"}

\* get_active_plan: the highest version wins, between equal ones any row may.
Priors == IF ActivePlans = {} THEN {0}
          ELSE {i \in ActivePlans : \A j \in ActivePlans : plans[i].version >= plans[j].version}

ReadPrior(c) ==
    /\ pc[c] = "prior"
    /\ \E i \in Priors :
         Goes(c, IF i = 0 THEN "create" ELSE "supersede",
              With(held[c], [prior |-> i,
                            version |-> IF i = 0 THEN 1 ELSE plans[i].version + 1]))
    /\ UNCHANGED plans

\* [mutant] the result of the update is not looked at
Supersede_Unchecked(c) ==
    /\ pc[c] = "supersede"
    /\ plans' = [plans EXCEPT ![held[c].prior].status = "superseded"]
    /\ Goes(c, "create", held[c])

\* The update finds the prior plan active; else a concurrent finalize has superseded it,
\* and this one fails.
Supersede(c) ==
    /\ pc[c] = "supersede"
    /\ LET i == held[c].prior
       IN IF plans[i].status = "active"
            THEN /\ plans' = [plans EXCEPT ![i].status = "superseded"]
                 /\ Goes(c, "create", held[c])
            ELSE Ends(c) /\ UNCHANGED plans

CreatePlan(c) ==
    /\ pc[c] = "create"
    /\ plans' = Append(plans, [status |-> "active", version |-> held[c].version,
                               prior |-> held[c].prior, session |-> held[c].session,
                               basis |-> 0, item |-> NoItem])
    /\ Goes(c, "bind", With(held[c], [plan |-> Len(plans) + 1]))

BindPlan(c) == /\ pc[c] = "bind"
               /\ plans' = [plans EXCEPT ![held[c].plan].basis = held[c].basis]
               /\ Goes(c, "item", held[c])

CreateItem(c) == /\ pc[c] = "item"
                 /\ plans' = [plans EXCEPT ![held[c].plan].item.status = "not_started"]
                 /\ Ends(c)

-----------------------------------------------------------------------------
(* An item's life. *)

ItemMove == {"started", "completed", "reopened", "evidence_attached"}

\* What the service writes: any other move is a no-op.
Meaningful(move, status) == CASE move = "started" -> status = "not_started"
                              [] move = "completed" -> status # "done"
                              [] move = "reopened" -> status = "done"
                              [] OTHER -> TRUE

After(move, status) == CASE move = "started" -> "in_progress"
                         [] move = "completed" -> "done"
                         [] move = "reopened" -> "not_started"
                         [] OTHER -> status

LoadItem(c, p, move) ==
    /\ plans[p].item.status # "none"
    /\ Meaningful(move, plans[p].item.status)
    /\ Begins(c, "item", "write", [plan |-> p, move |-> move,
                                   status |-> plans[p].item.status,
                                   seen |-> Len(plans[p].item.trail)])
    /\ UNCHANGED plans

\* [mutant] the write is not conditional on what was read
WriteItem_NoLock(c) ==
    /\ pc[c] = "write"
    /\ LET r == held[c]
       IN plans' = [plans EXCEPT ![r.plan].item =
                      [status |-> After(r.move, r.status), trail |-> Append(@.trail, r.move)]]
    /\ Ends(c)

\* The item is as it was read: it changes together with its event.  Else a conflict is
\* raised, and nothing is written.
WriteItem(c) ==
    /\ pc[c] = "write"
    /\ LET r == held[c]
       IN IF Len(plans[r.plan].item.trail) = r.seen
            THEN plans' = [plans EXCEPT ![r.plan].item =
                   [status |-> After(r.move, r.status), trail |-> Append(@.trail, r.move)]]
            ELSE UNCHANGED plans
    /\ Ends(c)

PlanStep(c) == \/ \E s \in Session : DraftFromSession(c, s)
               \/ DraftFromVersion(c) \/ ReadPrior(c) \/ Supersede(c)
               \/ CreatePlan(c) \/ BindPlan(c) \/ CreateItem(c)
               \/ \E p \in DOMAIN plans, move \in ItemMove : LoadItem(c, p, move)
               \/ WriteItem(c)
=============================================================================
