--------------------------- MODULE MCGovernanceStore ---------------------------
(* A small instance: q1 names the industry and decides, q2 decides where q1 is  *)
(* "other", q3 may be skipped; two sector questions declare the signal of q3.    *)
(* "retail" concludes at once, before q3 is answered or after: the core is then *)
(* silent on what the sector answers claim, agrees, or contradicts them.        *)
EXTENDS GovernanceStore

MCNeeds == [q \in Question |-> IF q = "q2" THEN {<<"q1", "other">>} ELSE {}]
MCDeclares == [k \in SectorQuestion |-> "q3"]
MCKind == {"turn", "open", "post", "record", "conclude", "plan", "item"}
Load(turns, opens, posts, records, concludes, ps, items) ==
    [turn |-> turns, open |-> opens, post |-> posts, record |-> records,
     conclude |-> concludes, plan |-> ps, item |-> items]
MCLoads == {Load(3, 0, 0, 0, 0, 0, 0), Load(1, 2, 0, 2, 2, 0, 0), Load(2, 1, 0, 2, 1, 0, 0),
            Load(1, 1, 1, 1, 1, 0, 0),
            Load(1, 0, 0, 0, 0, 3, 0), Load(1, 0, 0, 0, 0, 1, 3), Load(1, 1, 0, 1, 1, 1, 0)}
MCOneConclusion == {Load(1, 1, 0, 1, 1, 0, 0)}
MCSymmetry == Permutations(Client) \cup Permutations(Assessment) \cup Permutations(SectorQuestion)
=============================================================================
