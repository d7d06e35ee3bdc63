------------------------------- MODULE MCRecords -------------------------------
(* Rows that several requests read, merge and write back: two customers, a      *)
(* default attribute and one that is discovered; or one database, one webhook   *)
(* and one inbound hook.  Two requests at a time.                               *)
EXTENDS Records, TLC

CONSTANTS
    c1, c2, phone, tier, text, word, number, x1, e1, h1, h2,
    db, wh, hook, a1, a2, s1, s2

MCKind == text :> "text" @@ word :> "text" @@ number :> "number"

\* The text and the number print alike: "80" and 80.
MCPrinted == text :> "80" @@ word :> "eighty" @@ number :> "80"

MCDefined == [k \in Key |-> Undefined]

Sends(k, v) == [NoAttributes EXCEPT ![k] = v]

Ingest(x, e, s, a) == [op |-> "ingest", external |-> x, email |-> e, status |-> s,
                       sends |-> TRUE, attributes |-> a]

MCWish ==
    { Ingest(x1, None, None, [NoAttributes EXCEPT ![phone] = text, ![tier] = text]),
      Ingest(x1, e1, None, Sends(tier, number)),
      [op |-> "create", external |-> None, email |-> e1, status |-> None,
       sends |-> TRUE, attributes |-> Sends(phone, word)],
      [op |-> "update", external |-> x1, email |-> None, status |-> "active",
       sends |-> FALSE, attributes |-> NoAttributes],
      [op |-> "update", external |-> None, email |-> None, status |-> None,
       sends |-> TRUE, attributes |-> NoAttributes],
      NoWish }

MCDefinitionPatch ==
    { [type |-> "number", status |-> None, required |-> None, options |-> {}],
      [type |-> None, status |-> "archived", required |-> None, options |-> None],
      [type |-> None, status |-> "active", required |-> TRUE, options |-> None],
      [type |-> "dropdown", status |-> None, required |-> None, options |-> {text}] }
-----------------------------------------------------------------------------
MCConnectionKind == db :> "database" @@ wh :> "webhook" @@ hook :> "inbound"

BlankPatch == [address |-> None, secret |-> None, mode |-> None, status |-> None, rotate |-> FALSE]

MCConnectionPatch ==
    { BlankPatch,
      [BlankPatch EXCEPT !.address = a2, !.secret = s2],
      [BlankPatch EXCEPT !.secret = Blank],
      [BlankPatch EXCEPT !.status = "connected"],
      [BlankPatch EXCEPT !.mode = "path", !.rotate = TRUE] }

Row(a, s, st) == [address |-> a, secret |-> s, mode |-> "header", status |-> st]

MCNewConnection ==
    { Row(a1, s1, "unreachable"), Row(a1, s1, "connected"), Row(None, s1, "connected"),
      Row(a1, Blank, "connected") }
-----------------------------------------------------------------------------
\* One of the two at a time: no step of one is seen by the other.
VARIABLE about

MCInit ==
    /\ RecordsInit
    /\ about \in {"customers", "connections"}
    /\ about = "connections" => settings = [upsert |-> "email", mode |-> "strict"]

MCNext ==
    /\ UNCHANGED about
    /\ IF about = "customers" THEN UNCHANGED connections ELSE UNCHANGED vars
    /\ RecordsNext

MCSpec == MCInit /\ [][MCNext]_<<vars, connections, about>>

Symmetry == Permutations(Customer) \cup Permutations(Handler)
=============================================================================
