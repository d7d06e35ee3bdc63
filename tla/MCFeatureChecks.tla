--------------------------- MODULE MCFeatureChecks ---------------------------
(* A small instance of FeatureChecks, with the plans it stands on. *)
EXTENDS FeatureChecks, TLC

Start(old, catalog, plan, feature, checked, strays) ==
    [plans |-> old,
     left |-> [catalog |-> catalog, plans |-> plan, features |-> feature, checks |-> checked,
               strays |-> strays]]

FewRequests ==
    { Start(1, 2, 0, 0, 0, 1), Start(1, 1, 0, 0, 0, 2), Start(1, 1, 1, 0, 0, 0),
      Start(2, 0, 2, 0, 0, 0), Start(2, 0, 1, 1, 1, 0) }

Interchangeable ==
    Permutations(Handler) \cup Permutations(Plan) \cup Permutations(Name)
        \cup Permutations(Amount) \cup Permutations(Account)
=============================================================================
