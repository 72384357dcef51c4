--------------------------- MODULE DurableBridge ---------------------------
(***************************************************************************)
(* Durable ownership of one HTTP bridge session key, shared by the         *)
(* replicas: the row of http_bridge_sessions, its lease and its epoch      *)
(* (app/modules/proxy/durable_bridge_repository.py, reached through        *)
(* durable_bridge_coordinator.py), and the in-memory sessions that claim,  *)
(* renew and release it (app/modules/proxy/service.py).                    *)
(*                                                                         *)
(* claim_session reads the row FOR UPDATE, so it is one action.  The other *)
(* writers read the row, check the fence (owner and epoch) in Python and   *)
(* write at their commit with an UPDATE by primary key: two actions, a     *)
(* read and a write, between which the row may change.  The write touches  *)
(* only the columns the code assigned.                                     *)
(*                                                                         *)
(* In each replica at most one session is created or registered for the    *)
(* key at a time; one that was popped from the registry closes later.      *)
(***************************************************************************)
EXTENDS Naturals

CONSTANTS
    Instances,  \* replicas, http_responses_session_bridge_instance_id
    NoOne,      \* owner_instance_id of an unowned row
    Sessions,   \* in-memory session objects (_HTTPBridgeSession)
    Host,       \* the replica of each session object
    LeaseTtl,   \* lease_ttl_seconds
    MaxEpoch,   \* bound on owner_epoch
    MaxRows     \* bound on the rows inserted for the key, one after another

ASSUME HostAssumption == Host \in [Sessions -> Instances] /\ NoOne \notin Instances
ASSUME BridgeBounds == LeaseTtl \in Nat \ {0} /\ MaxEpoch \in Nat /\ MaxRows \in Nat

VARIABLES
    row,        \* the row of the key
    sess,       \* the session objects
    draining,   \* the row each replica's mark_owner_draining has read, 0 if none
    grants      \* history: what claim_session granted, and to whom

vars == <<row, sess, draining, grants>>

States == {"active", "draining", "closed"}

\* id numbers the rows inserted so far and present says whether the last one
\* still exists; lease is the time left until lease_expires_at; anchor is
\* the session whose response the row holds as latest_response_id, if any.
Row == [present : BOOLEAN, id : Nat, owner : Instances \cup {NoOne}, epoch : Nat,
        lease : 0..LeaseTtl, state : States,
        anchor : Sessions \cup {NoOne}]

\* "none": no such object; "creating": the request looked the key up and
\* opens its upstream; "live": the session runs; "refreshing", "anchoring",
\* "releasing": a live session passed the fence and is about to commit.
\* takeover is allow_takeover; popped: no longer in the registry; id and
\* epoch are durable_session_id and durable_owner_epoch; seen is the state
\* of the row that release_session loaded.
Phases == {"none", "creating", "live", "refreshing", "anchoring", "releasing"}

Session == [phase : Phases, takeover : BOOLEAN, popped : BOOLEAN, id : Nat, epoch : Nat,
            seen : States]

NoSession == [phase |-> "none", takeover |-> FALSE, popped |-> FALSE, id |-> 0, epoch |-> 0,
              seen |-> "active"]

TypeOK ==
    /\ row \in Row
    /\ sess \in [Sessions -> Session]
    /\ draining \in [Instances -> Nat]
    /\ grants \subseteq [id : Nat, epoch : Nat, inst : Instances]

Init ==
    /\ row = [present |-> FALSE, id |-> 0, owner |-> NoOne, epoch |-> 0, lease |-> 0,
              state |-> "closed", anchor |-> NoOne]
    /\ sess = [s \in Sessions |-> NoSession]
    /\ draining = [i \in Instances |-> 0]
    /\ grants = {}

-----------------------------------------------------------------------------
(* Claiming *)

\* _durable_bridge_lookup_active_owner
ActiveOwner ==
    IF row.present /\ row.state # "closed" /\ row.lease > 0 THEN row.owner ELSE NoOne

\* _http_bridge_allow_durable_takeover, decided on the row as looked up;
\* force is force_durable_takeover, set when the owner cannot be reached, and
\* stands as well for a looked-up lease that runs out before the claim.
AllowTakeover(force) == force \/ ActiveOwner = NoOne \/ row.state # "active"

\* A request finds no session registered for the key in its replica, and
\* starts to create one after looking the durable row up.
StartCreate(s, force) ==
    /\ sess[s].phase = "none"
    /\ \A t \in Sessions : Host[t] = Host[s] =>
           sess[t].phase = "none" \/ sess[t].popped
    /\ sess' = [sess EXCEPT ![s] = [NoSession EXCEPT !.phase = "creating",
                                                      !.takeover = AllowTakeover(force)]]
    /\ UNCHANGED <<row, draining, grants>>

\* Slip: a takeover keeps the epoch.
NextEpoch_Kept(inst) == row.epoch

\* Slip: a closed row starts over at the epoch of a new one.
NextEpoch_Restarts(inst) ==
    IF row.owner = inst THEN row.epoch ELSE IF row.state = "closed" THEN 1 ELSE row.epoch + 1

\* The epoch claim_session assigns: unchanged for the owner itself.
NextEpoch(inst) == IF row.owner = inst THEN row.epoch ELSE row.epoch + 1

\* claim_session refuses: another replica holds an active, unexpired lease.
Refused(s) ==
    /\ row.owner # Host[s]
    /\ ~sess[s].takeover
    /\ row.lease > 0
    /\ row.state = "active"

\* What claim_session leaves of the replay anchor; the service passes no
\* latest_response_id of its own.
ClaimedAnchor(s, accountChanged) ==
    IF accountChanged \/ (row.owner # Host[s] /\ row.state = "closed")
    THEN NoOne ELSE row.anchor

\* The claimed row is the session's: the service records its id and epoch
\* and registers the session.
Granted(s, id, epoch) ==
    /\ sess' = [sess EXCEPT ![s] = [NoSession EXCEPT !.phase = "live", !.id = id,
                                                      !.epoch = epoch]]
    /\ grants' = grants \cup {[id |-> id, epoch |-> epoch, inst |-> Host[s]]}

\* claim_session, no row: insert one with epoch 1.
ClaimInsert(s) ==
    /\ sess[s].phase = "creating"
    /\ ~row.present
    /\ row.id < MaxRows
    /\ row' = [present |-> TRUE, id |-> row.id + 1, owner |-> Host[s], epoch |-> 1,
               lease |-> LeaseTtl, state |-> "active", anchor |-> NoOne]
    /\ Granted(s, row.id + 1, 1)
    /\ UNCHANGED draining

\* claim_session, an existing row: take it or keep it.
ClaimUpdate(s, accountChanged) ==
    /\ sess[s].phase = "creating"
    /\ row.present
    /\ ~Refused(s)
    /\ NextEpoch(Host[s]) <= MaxEpoch
    /\ row' = [row EXCEPT !.owner = Host[s], !.epoch = NextEpoch(Host[s]),
                          !.lease = LeaseTtl, !.state = "active",
                          !.anchor = ClaimedAnchor(s, accountChanged)]
    /\ Granted(s, row.id, NextEpoch(Host[s]))
    /\ UNCHANGED draining

\* A refused claim, or a failed creation, discards the session; it has no
\* durable id yet, so nothing is released.
DiscardCreation(s) ==
    /\ sess[s].phase = "creating"
    /\ sess' = [sess EXCEPT ![s] = NoSession]
    /\ UNCHANGED <<row, draining, grants>>

-----------------------------------------------------------------------------
(* Renewing and releasing *)

\* Slip: the fence compares the epoch only.
Fenced_EpochOnly(s) ==
    row.present /\ row.id = sess[s].id /\ row.epoch = sess[s].epoch

\* The check of renew_session and release_session.
Fenced(s) ==
    /\ row.present /\ row.id = sess[s].id
    /\ row.owner = Host[s] /\ row.epoch = sess[s].epoch

\* _refresh_durable_http_bridge_session takes over the epoch of the row that
\* renew_session returns, whoever owns it.
AdoptEpoch(s) ==
    IF row.present /\ row.id = sess[s].id THEN row.epoch ELSE sess[s].epoch

\* A request reuses the registered session: its lookup allowed that then
\* (or failed, which also allows it), and _refresh_durable... calls
\* renew_session, which reads the row now.
RefreshRead(s) ==
    /\ sess[s].phase = "live"
    /\ ~sess[s].popped
    /\ sess' = IF Fenced(s) THEN [sess EXCEPT ![s].phase = "refreshing"]
               ELSE [sess EXCEPT ![s].epoch = AdoptEpoch(s)]
    /\ UNCHANGED <<row, draining, grants>>

\* Slip: the renewal extends the lease that is left.
Renewed_Extends(s, anchor) ==
    IF row.present /\ row.id = sess[s].id
    THEN [row EXCEPT !.lease = @ + LeaseTtl, !.anchor = anchor] ELSE row

\* Slip: the renewal writes back the whole row it has loaded.
Renewed_LoadedRow(s, anchor) ==
    IF row.present /\ row.id = sess[s].id
    THEN [row EXCEPT !.owner = Host[s], !.epoch = sess[s].epoch, !.lease = LeaseTtl,
                     !.anchor = anchor]
    ELSE row

\* The row that renew_session's UPDATE leaves; a row purged meanwhile
\* matches nothing and the error is logged.
Renewed(s, anchor) ==
    IF row.present /\ row.id = sess[s].id
    THEN [row EXCEPT !.lease = LeaseTtl, !.anchor = anchor] ELSE row

RefreshWrite(s) ==
    /\ sess[s].phase = "refreshing"
    /\ row' = Renewed(s, row.anchor)
    /\ sess' = [sess EXCEPT ![s].phase = "live", ![s].epoch = AdoptEpoch(s)]
    /\ UNCHANGED <<draining, grants>>

\* A response completes: register_previous_response_id (and, with no anchor
\* of its own, register_turn_state) renews the row, if the fence is passed.
AnchorRead(s) ==
    /\ sess[s].phase = "live"
    /\ Fenced(s)
    /\ sess' = [sess EXCEPT ![s].phase = "anchoring"]
    /\ UNCHANGED <<row, draining, grants>>

AnchorWrite(s) ==
    /\ sess[s].phase = "anchoring"
    /\ row' = Renewed(s, s)
    /\ sess' = [sess EXCEPT ![s].phase = "live"]
    /\ UNCHANGED <<draining, grants>>

\* The session leaves the registry: pruned, replaced, or failed.
Pop(s) ==
    /\ sess[s].phase \in {"live", "refreshing", "anchoring"}
    /\ ~sess[s].popped
    /\ sess' = [sess EXCEPT ![s].popped = TRUE]
    /\ UNCHANGED <<row, draining, grants>>

\* _close_http_bridge_session calls release_session, which reads the row;
\* a session that does not pass the fence is done.
ReleaseRead(s) ==
    /\ sess[s].phase = "live"
    /\ sess[s].popped
    /\ sess' = IF Fenced(s)
               THEN [sess EXCEPT ![s].phase = "releasing", ![s].seen = row.state]
               ELSE [sess EXCEPT ![s] = NoSession]
    /\ UNCHANGED <<row, draining, grants>>

\* state is draining while the replica drains, closed otherwise; the UPDATE
\* leaves out a state equal to the one loaded.
ReleaseWrite(s, state) ==
    /\ sess[s].phase = "releasing"
    /\ row' = IF row.present /\ row.id = sess[s].id
              THEN [row EXCEPT !.owner = NoOne, !.lease = 0,
                               !.state = IF state = sess[s].seen THEN @ ELSE state]
              ELSE row
    /\ sess' = [sess EXCEPT ![s] = NoSession]
    /\ UNCHANGED <<draining, grants>>

-----------------------------------------------------------------------------
(* Replicas, the cleanup scheduler, time *)

\* mark_owner_draining: reads the rows the replica owns, then writes them.
DrainRead(i) ==
    /\ draining[i] = 0
    /\ row.present /\ row.owner = i /\ row.state = "active"
    /\ draining' = [draining EXCEPT ![i] = row.id]
    /\ UNCHANGED <<row, sess, grants>>

DrainWrite(i) ==
    /\ draining[i] # 0
    /\ row' = IF row.present /\ row.id = draining[i] THEN [row EXCEPT !.state = "draining"] ELSE row
    /\ draining' = [draining EXCEPT ![i] = 0]
    /\ UNCHANGED <<sess, grants>>

\* A replica crashes and restarts under the same instance id.
Crash(i) ==
    /\ \E s \in Sessions : Host[s] = i /\ sess[s].phase # "none"
    /\ sess' = [s \in Sessions |-> IF Host[s] = i THEN NoSession ELSE sess[s]]
    /\ draining' = [draining EXCEPT ![i] = 0]
    /\ UNCHANGED <<row, grants>>

\* purge_closed_before: the DELETE checks the state again.
PurgeClosed ==
    /\ row.present /\ row.state = "closed"
    /\ row' = [row EXCEPT !.present = FALSE]
    /\ UNCHANGED <<sess, draining, grants>>

Tick ==
    /\ row.lease > 0
    /\ row' = [row EXCEPT !.lease = @ - 1]
    /\ UNCHANGED <<sess, draining, grants>>

SessionStep(s) ==
    \/ \E force \in BOOLEAN : StartCreate(s, force)
    \/ ClaimInsert(s)
    \/ \E accountChanged \in BOOLEAN : ClaimUpdate(s, accountChanged)
    \/ DiscardCreation(s)
    \/ RefreshRead(s) \/ RefreshWrite(s)
    \/ AnchorRead(s) \/ AnchorWrite(s)
    \/ Pop(s)
    \/ ReleaseRead(s)
    \/ \E state \in {"draining", "closed"} : ReleaseWrite(s, state)

Next ==
    \/ \E s \in Sessions : SessionStep(s)
    \/ \E i \in Instances : DrainRead(i) \/ DrainWrite(i) \/ Crash(i)
    \/ PurgeClosed
    \/ Tick

Spec == Init /\ [][Next]_vars

-----------------------------------------------------------------------------
(* Properties *)

\* An epoch of a row is granted to one replica only: whoever else claims
\* the row, at once or much later, gets a higher one.  Stale releases,
\* renewals, crashes and purges do not make the service grant it again.
GrantUnique ==
    \A g, h \in grants : g.id = h.id /\ g.epoch = h.epoch => g.inst = h.inst

\* No grant is ahead of the row, and the owner holds the row's epoch.
GrantsBelowRow ==
    /\ \A g \in grants : g.id < row.id \/ (g.id = row.id /\ g.epoch <= row.epoch)
    /\ row.owner # NoOne => [id |-> row.id, epoch |-> row.epoch, inst |-> row.owner] \in grants

\* A session never holds an epoch the row has not reached, even after it
\* adopted the epoch of a row that others claimed.
SessionNotAhead ==
    \A s \in Sessions : sess[s].id < row.id \/ (sess[s].id = row.id /\ sess[s].epoch <= row.epoch)

\* A session about to renew, anchor or release writes under an epoch that
\* claim_session granted to its own replica.  It may have been reused after
\* the replica lost the row, on a lookup that was older, and have adopted the
\* epoch of the new owner from renew_session (service.py:4772, 5782): the
\* adopted epoch never lets it past the fence.
WritersGranted ==
    \A s \in Sessions : sess[s].phase \in {"refreshing", "anchoring", "releasing"} =>
        [id |-> sess[s].id, epoch |-> sess[s].epoch, inst |-> Host[s]] \in grants

\* The epoch of a row never goes back, and it grows whenever the row gets
\* an owner it did not have: a write whose fence was passed before another
\* replica claimed the row (durable_bridge_repository.py:276-299) gives the
\* row back neither to the old owner nor to the old epoch.
EpochFences ==
    [][row'.id = row.id =>
          /\ row'.epoch >= row.epoch
          /\ row'.owner \notin {row.owner, NoOne} => row'.epoch > row.epoch]_vars

=============================================================================
