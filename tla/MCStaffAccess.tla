---------------------------- MODULE MCStaffAccess ----------------------------
(* A small instance of StaffAccess: KYC itself and one tenant. *)
EXTENDS StaffAccess, TLC

CONSTANTS kyc, acme, ann, bob, staff, owner, admin, custom, other, m1, m2, m3, m4, q1, q2, k1

Roles == [r \in Role |-> IF r = staff THEN kyc ELSE acme]

Inherits == [r \in Role |-> IF r = owner THEN {owner, admin} ELSE {r}]

Seeded ==
    (staff :> {"roles:manage", "members:invite"}) @@ (owner :> Perm \ {"roles:manage"})
        @@ (admin :> {"roles:manage"}) @@ (custom :> {"members:invite", "roles:manage"})

(* ann owns acme, bob has a role of its own that is not in force
   yet, and ann works for KYC as well. *)
Joined ==
    [m \in Membership |->
        CASE m = m1 -> [org |-> acme, user |-> ann, role |-> owner, status |-> "active"]
          [] m = m2 -> [org |-> acme, user |-> bob, role |-> custom, status |-> "invited"]
          [] m = m3 -> [org |-> kyc, user |-> ann, role |-> staff, status |-> "active"]
          [] OTHER -> NoMembership]

Wishes == {{}, {"billing:manage"}}

Patches ==
    [role : {admin, custom}, status : {"active"}] \cup [role : {owner}, status : {"invited"}]
        \cup [role : {None}, status : {"active", "revoked"}]
        \cup [role : {staff}, status : {"active"}]

Interchangeable == Permutations(Request)
=============================================================================
