----------------------------- MODULE MCAppAccess -----------------------------
(* Small instances of AppAccess: a child and a parent of each kind. *)
EXTENDS AppAccess, TLC

CONSTANTS viewer, editor, team, org, read, alice, q1, q2

Grants ==
    {[subject |-> alice, role |-> viewer], [subject |-> org, role |-> editor],
     [subject |-> Everyone, role |-> AllCapabilities]}

OwnIds == [x \in Set |-> IF x \in Group THEN {x} ELSE {}]

(* editor extends viewer; team extends org, which holds editor; alice is in
   team. *)
Populated ==
    [live |-> Set,
     own |-> (viewer :> {read}) @@ OwnIds,
     effective |-> [x \in Set |-> IF x = team THEN {team, org}
                                  ELSE IF x = org THEN {org} ELSE {read}],
     extends |-> {<<editor, viewer>>, <<team, org>>},
     grant |-> {[subject |-> alice, role |-> viewer], [subject |-> org, role |-> editor]},
     member |-> {<<team, alice>>}]

(* The same merchant before anything is nested or granted. *)
Fresh ==
    [live |-> {viewer, team}, own |-> (viewer :> {read}) @@ OwnIds,
     effective |-> (viewer :> {read}) @@ OwnIds, extends |-> {}, grant |-> {}, member |-> {}]

Starts == {Populated, Fresh}

(* Requests differ in nothing but their names. *)
Interchangeable == Permutations(Request)
=============================================================================
