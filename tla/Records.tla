-------------------------------- MODULE Records --------------------------------
(***************************************************************************)
(* The records of one organisation that requests read, merge and write     *)
(* back in separate statements: its customers (CustomerRecords) and what   *)
(* connects it to other systems (Connections).  The two stand beside each  *)
(* other: no statement of one touches a row of the other.                  *)
(***************************************************************************)
EXTENDS CustomerRecords

CONSTANTS               \* what Connections calls
    Connection, ConnectionKind, Address, Secret, Blank,
    NewConnection, ConnectionPatch, MaxConnectionRequests

VARIABLES               \* and its variables
    tables, calls, intent, pairs, answered, overlapped, cut, outdated, sent, count

connections == <<tables, calls, intent, pairs, answered, overlapped, cut, outdated, sent, count>>

C == INSTANCE Connections WITH
        Kind <- ConnectionKind, New <- NewConnection, Patch <- ConnectionPatch,
        MaxRequests <- MaxConnectionRequests,
        rows <- tables, handlers <- calls, asked <- intent, given <- pairs, reached <- answered,
        crossed <- overlapped, lost <- cut, retired <- outdated, used <- sent, requests <- count

ASSUME ConnectionsAssumption == C!ConstantsFit

RecordsInit == Init /\ C!Init

RecordsNext ==
    \/ Next /\ UNCHANGED connections
    \/ C!Next /\ UNCHANGED vars

Records == RecordsInit /\ [][RecordsNext]_<<vars, connections>>
-----------------------------------------------------------------------------
\* The rows are rows of their tables, and what the requests asked for one after another,
\* unless one wrote what another had made old (IngestAppUser, UpdateOrganisationWebhook,
\* UpdateInboundWebhook and UpdateOrganisationDatabase read, merge and write back).
StoredIsAsked == TypeOK /\ RowsAreAsAsked /\ C!TypeOK /\ C!RowsAreAsAsked

\* What is connected has earned it: an inbound hook has a secret and a database has
\* answered under the settings it has now (see Connections).
ConnectedIsEarned == C!ConnectedIsEarned

\* A secret is sent only to an address it was given with, and none that the requests
\* have retired is accepted (see Connections).
SecretsServeOnlyTheirRow == C!SecretsServeOnlyTheirRow
=============================================================================
