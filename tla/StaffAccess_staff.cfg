CONSTANTS
    kyc = kyc
    acme = acme
    ann = ann
    bob = bob
    staff = staff
    owner = owner
    admin = admin
    custom = custom
    other = other
    m1 = m1
    m2 = m2
    m3 = m3
    m4 = m4
    q1 = q1
    q2 = q2
    k1 = k1
    Org = {kyc, acme}
    Platform = kyc
    Star = Star
    User = {ann, bob}
    Deployment = Deployment
    Role = {staff, owner, admin, custom, other}
    RoleOrg <- Roles
    System = {staff, owner, admin}
    Owner = {owner}
    Ancestors <- Inherits
    Perm = {"roles:manage", "members:invite", "members:remove", "api_keys:manage", "billing:manage"}
    Membership = {m1, m2, m3, m4}
    Key = {k1}
    Request = {q1, q2}
    None = None
    BootstrapRole = staff
    Holding <- Seeded
    Members <- Joined
    Wish <- Wishes
    Patch <- Patches
SPECIFICATION Spec
SYMMETRY Interchangeable
CHECK_DEADLOCK FALSE
INVARIANT AuthorityIsHandedDown RolesStayInTheirTenancy FirstStaffOnce
PROPERTY OnlyLatecomersAreDropped
