------------------------ MODULE DurableBridgeProofs ------------------------
(***************************************************************************)
(* What the epoch of DurableBridge guarantees, for any number of replicas, *)
(* sessions and rows.  GrantUnique needs to know what the epoch is compared*)
(* with: that no grant is ahead of the row and that the owner of the row   *)
(* holds its epoch (GrantsBelowRow).                                       *)
(***************************************************************************)
EXTENDS DurableBridge, TLAPS

Grant == [id : Nat, epoch : Nat, inst : Instances]

\* The epoch that a claim assigns is never behind the row, and it is ahead
\* of it for a new owner (claim_session).
LEMMA NextEpochGrows ==
    ASSUME TypeOK, NEW i \in Instances
    PROVE  /\ NextEpoch(i) \in Nat
           /\ NextEpoch(i) >= row.epoch
           /\ row.owner # i => NextEpoch(i) = row.epoch + 1
           /\ row.owner = i => NextEpoch(i) = row.epoch
  BY DEF TypeOK, Row, NextEpoch

\* Nothing has been claimed at first.
LEMMA InitFenced == Init => TypeOK /\ GrantsBelowRow /\ GrantUnique /\ SessionNotAhead
  BY HostAssumption, BridgeBounds
  DEF Init, TypeOK, Row, States, Session, NoSession, Phases, GrantsBelowRow, GrantUnique, SessionNotAhead

\* The types of the four variables, one by one.
LEMMA TypeParts ==
    ASSUME TypeOK
    PROVE  /\ row \in Row
           /\ row.present \in BOOLEAN /\ row.id \in Nat /\ row.epoch \in Nat
           /\ row.owner \in Instances \cup {NoOne} /\ row.lease \in 0..LeaseTtl
           /\ row.state \in States /\ row.anchor \in Sessions \cup {NoOne}
           /\ sess \in [Sessions -> Session]
           /\ draining \in [Instances -> Nat]
           /\ grants \subseteq Grant
           /\ \A s \in Sessions : sess[s] \in Session /\ sess[s].id \in Nat /\ sess[s].epoch \in Nat
  BY DEF TypeOK, Row, Session, Grant

\* A granted session is well typed (_claim_durable_http_bridge_session).
LEMMA GrantedTyped ==
    ASSUME TypeOK, NEW s \in Sessions, NEW id \in Nat, NEW epoch \in Nat, Granted(s, id, epoch)
    PROVE  /\ sess' \in [Sessions -> Session]
           /\ grants' \subseteq Grant
           /\ \A t \in Sessions \ {s} : sess'[t] = sess[t]
           /\ sess'[s].id = id /\ sess'[s].epoch = epoch
  <1> DEFINE new == [NoSession EXCEPT !.phase = "live", !.id = id, !.epoch = epoch]
  <1>1. new \in Session /\ new.id = id /\ new.epoch = epoch
    BY DEF Session, NoSession, Phases, States
  <1>2. sess' = [sess EXCEPT ![s] = new]
    BY DEF Granted
  <1> HIDE DEF new
  <1>3. Host[s] \in Instances
    BY HostAssumption
  <1>4. grants' \subseteq Grant
    BY <1>3, TypeParts DEF Granted, Grant
  <1> QED
    BY <1>1, <1>2, <1>4, TypeParts

\* Every step keeps the types.
LEMMA StepTyped ==
    ASSUME TypeOK, [Next]_vars
    PROVE  TypeOK'
  <1> USE HostAssumption, BridgeBounds
  <1>1. CASE UNCHANGED vars
    BY <1>1 DEF TypeOK, vars
  <1>2. ASSUME NEW s \in Sessions, SessionStep(s) PROVE TypeOK'
    <2>1. ASSUME NEW force \in BOOLEAN, StartCreate(s, force) PROVE TypeOK'
      <3> DEFINE new == [NoSession EXCEPT !.phase = "creating", !.takeover = AllowTakeover(force)]
      <3>1. AllowTakeover(force) \in BOOLEAN
        BY DEF AllowTakeover
      <3>2. new \in Session
        BY <3>1, Zenon DEF Session, NoSession, Phases, States
      <3>3. sess' = [sess EXCEPT ![s] = new] /\ UNCHANGED <<row, draining, grants>>
        BY <2>1 DEF StartCreate
      <3> HIDE DEF new
      <3> QED
        BY <3>2, <3>3 DEF TypeOK
    <2>2. ASSUME ClaimInsert(s) PROVE TypeOK'
      <3>1. row' \in Row
        BY <2>2 DEF ClaimInsert, TypeOK, Row, States
      <3>2. Granted(s, row.id + 1, 1) /\ row.id + 1 \in Nat /\ draining' = draining
        BY <2>2, TypeParts DEF ClaimInsert
      <3>3. sess' \in [Sessions -> Session] /\ grants' \subseteq Grant
        BY <3>2, GrantedTyped
      <3> QED
        BY <3>1, <3>2, <3>3 DEF TypeOK, Grant
    <2>3. ASSUME NEW changed \in BOOLEAN, ClaimUpdate(s, changed) PROVE TypeOK'
      <3>1. NextEpoch(Host[s]) \in Nat /\ Host[s] \in Instances
        BY NextEpochGrows
      <3>2. ClaimedAnchor(s, changed) \in Sessions \cup {NoOne}
        BY TypeParts DEF ClaimedAnchor
      <3>3. row' \in Row
        <4>1. LeaseTtl \in 0..LeaseTtl /\ "active" \in States
          BY DEF States
        <4>2. row' = [row EXCEPT !.owner = Host[s], !.epoch = NextEpoch(Host[s]),
                                 !.lease = LeaseTtl, !.state = "active",
                                 !.anchor = ClaimedAnchor(s, changed)]
          BY <2>3 DEF ClaimUpdate
        <4> QED
          BY <3>1, <3>2, <4>1, <4>2, TypeParts, Zenon DEF Row
      <3>4. Granted(s, row.id, NextEpoch(Host[s])) /\ draining' = draining
        BY <2>3 DEF ClaimUpdate
      <3>5. sess' \in [Sessions -> Session] /\ grants' \subseteq Grant
        BY <3>1, <3>4, TypeParts, GrantedTyped
      <3> QED
        BY <3>3, <3>4, <3>5 DEF TypeOK, Grant
    <2>4. ASSUME DiscardCreation(s) PROVE TypeOK'
      BY <2>4 DEF DiscardCreation, TypeOK, Session, NoSession, Phases, States
    <2>5. ASSUME RefreshRead(s) \/ AnchorRead(s) \/ Pop(s) \/ ReleaseRead(s) PROVE TypeOK'
      <3>1. sess' \in [Sessions -> Session]
        <4>1. NoSession \in Session
          BY DEF Session, NoSession, Phases, States
        <4>2. AdoptEpoch(s) \in Nat
          BY TypeParts DEF AdoptEpoch
        <4>3. [sess[s] EXCEPT !.phase = "refreshing"] \in Session
          BY TypeParts DEF Session, Phases
        <4>4. [sess[s] EXCEPT !.epoch = AdoptEpoch(s)] \in Session
          BY <4>2, TypeParts DEF Session
        <4>5. [sess[s] EXCEPT !.phase = "anchoring"] \in Session
          BY TypeParts DEF Session, Phases
        <4>6. [sess[s] EXCEPT !.popped = TRUE] \in Session
          BY TypeParts DEF Session
        <4>7. [sess[s] EXCEPT !.phase = "releasing", !.seen = row.state] \in Session
          BY TypeParts DEF Session, Phases
        <4>8. \E new \in Session : sess' = [sess EXCEPT ![s] = new]
          <5>1. CASE RefreshRead(s)
            BY <5>1, <4>3, <4>4, TypeParts DEF RefreshRead
          <5>2. CASE AnchorRead(s)
            BY <5>2, <4>5, TypeParts DEF AnchorRead
          <5>3. CASE Pop(s)
            BY <5>3, <4>6, TypeParts DEF Pop
          <5>4. CASE ReleaseRead(s)
            BY <5>4, <4>1, <4>7, TypeParts DEF ReleaseRead
          <5> QED
            BY <2>5, <5>1, <5>2, <5>3, <5>4
        <4> QED
          BY <4>8, TypeParts
      <3>2. UNCHANGED <<row, draining, grants>>
        BY <2>5 DEF RefreshRead, AnchorRead, Pop, ReleaseRead
      <3> QED
        BY <3>1, <3>2 DEF TypeOK
    <2>6. ASSUME RefreshWrite(s) \/ AnchorWrite(s) PROVE TypeOK'
      <3>1. row' \in Row
        <4>1. LeaseTtl \in 0..LeaseTtl
          OBVIOUS
        <4>2. \A a \in Sessions \cup {NoOne} :
                 [row EXCEPT !.lease = LeaseTtl, !.anchor = a] \in Row
          BY <4>1, TypeParts, Zenon DEF Row
        <4>3. \A a \in Sessions \cup {NoOne} : Renewed(s, a) \in Row
          BY <4>2, TypeParts DEF Renewed
        <4> QED
          BY <2>6, <4>3, TypeParts DEF RefreshWrite, AnchorWrite
      <3>2. AdoptEpoch(s) \in Nat
        BY TypeParts DEF AdoptEpoch
      <3>3. sess' \in [Sessions -> Session]
        <4>1. [sess[s] EXCEPT !.phase = "live", !.epoch = AdoptEpoch(s)] \in Session
          BY <3>2, TypeParts DEF Session, Phases
        <4>2. [sess[s] EXCEPT !.phase = "live"] \in Session
          BY TypeParts DEF Session, Phases
        <4>3. CASE RefreshWrite(s)
          BY <4>1, <4>3, TypeParts DEF RefreshWrite
        <4>4. CASE AnchorWrite(s)
          BY <4>2, <4>4, TypeParts DEF AnchorWrite
        <4> QED
          BY <2>6, <4>3, <4>4
      <3> QED
        BY <2>6, <3>1, <3>3 DEF TypeOK, RefreshWrite, AnchorWrite
    <2>7. ASSUME NEW state \in {"draining", "closed"}, ReleaseWrite(s, state) PROVE TypeOK'
      <3>1. row' \in Row
        <4>1. 0 \in 0..LeaseTtl
          OBVIOUS
        <4>2. \A st \in States : [row EXCEPT !.owner = NoOne, !.lease = 0, !.state = st] \in Row
          BY <4>1, TypeParts, Zenon DEF Row
        <4>3. state \in States /\ row.state \in States
          BY TypeParts DEF States
        <4>4. CASE row.present /\ row.id = sess[s].id
          <5>1. PICK st \in States : row' = [row EXCEPT !.owner = NoOne, !.lease = 0, !.state = st]
            BY <2>7, <4>3, <4>4 DEF ReleaseWrite
          <5> QED
            BY <4>2, <5>1
        <4>5. CASE ~(row.present /\ row.id = sess[s].id)
          BY <2>7, <4>5, TypeParts DEF ReleaseWrite
        <4> QED
          BY <4>4, <4>5
      <3>2. sess' \in [Sessions -> Session]
        BY <2>7, TypeParts DEF ReleaseWrite, Session, NoSession, Phases, States
      <3> QED
        BY <2>7, <3>1, <3>2 DEF TypeOK, ReleaseWrite
    <2> QED
      BY <1>2, <2>1, <2>2, <2>3, <2>4, <2>5, <2>6, <2>7 DEF SessionStep
  <1>3. ASSUME NEW i \in Instances, DrainRead(i) \/ DrainWrite(i) PROVE TypeOK'
    <2>1. row' \in Row
      <3>1. [row EXCEPT !.state = "draining"] \in Row
        BY TypeParts, Zenon DEF Row, States
      <3> QED
        BY <1>3, <3>1, TypeParts DEF DrainRead, DrainWrite
    <2> QED
      BY <1>3, <2>1, TypeParts DEF TypeOK, DrainRead, DrainWrite
  <1>4. ASSUME NEW i \in Instances, Crash(i) PROVE TypeOK'
    <2>1. NoSession \in Session
      BY DEF Session, NoSession, Phases, States
    <2> QED
      BY <1>4, <2>1, TypeParts DEF TypeOK, Crash
  <1>5. CASE PurgeClosed \/ Tick
    <2>1. row' \in Row
      <3>1. [row EXCEPT !.present = FALSE] \in Row
        BY TypeParts, Zenon DEF Row
      <3>2. ASSUME Tick PROVE row' \in Row
        <4>1. row.lease - 1 \in 0..LeaseTtl
          BY <3>2, TypeParts DEF Tick
        <4>2. row' = [row EXCEPT !.lease = row.lease - 1]
          BY <3>2 DEF Tick
        <4> QED
          BY <4>1, <4>2, TypeParts, Zenon DEF Row
      <3> QED
        BY <1>5, <3>1, <3>2 DEF PurgeClosed
    <2> QED
      BY <1>5, <2>1 DEF TypeOK, PurgeClosed, Tick
  <1> QED
    BY <1>1, <1>2, <1>3, <1>4, <1>5 DEF Next

-----------------------------------------------------------------------------
(* Fencing *)

\* What an epoch is compared with.
Fences == GrantsBelowRow /\ GrantUnique /\ SessionNotAhead

\* A step that claims nothing leaves the id and the epoch of the row, gives
\* it no owner, and lets a session only adopt the epoch of the row.
Quiet ==
    /\ grants' = grants
    /\ row'.id = row.id /\ row'.epoch = row.epoch
    /\ row'.owner \in {row.owner, NoOne}
    /\ \A s \in Sessions : \/ sess'[s].id = sess[s].id /\ sess'[s].epoch = sess[s].epoch
                           \/ sess'[s].id = row.id /\ sess'[s].epoch = row.epoch
                           \/ sess'[s].id = 0 /\ sess'[s].epoch = 0

\* Every step but a claim is quiet: the lookup, the renewals, the releases,
\* late or not, the drain, a crash, the purge and the clock.
LEMMA StepQuiet ==
    ASSUME TypeOK, [Next]_vars,
           ~\E s \in Sessions : ClaimInsert(s) \/ \E changed \in BOOLEAN : ClaimUpdate(s, changed)
    PROVE  Quiet
  <1>0. NoSession.id = 0 /\ NoSession.epoch = 0
    BY DEF NoSession
  <1>1. CASE UNCHANGED vars
    BY <1>1 DEF Quiet, vars
  <1>2. ASSUME NEW s \in Sessions, SessionStep(s) PROVE Quiet
    <2>1. ASSUME NEW force \in BOOLEAN, StartCreate(s, force) PROVE Quiet
      BY <2>1, TypeParts DEF StartCreate, Quiet, NoSession
    <2>2. ASSUME DiscardCreation(s) PROVE Quiet
      BY <2>2, TypeParts DEF DiscardCreation, Quiet, NoSession
    <2>3. ASSUME RefreshRead(s) \/ RefreshWrite(s) PROVE Quiet
      <3>1. \/ AdoptEpoch(s) = sess[s].epoch
            \/ sess[s].id = row.id /\ AdoptEpoch(s) = row.epoch
        BY DEF AdoptEpoch
      <3>2. CASE RefreshRead(s)
        BY <3>1, <3>2, TypeParts DEF RefreshRead, Quiet, Session
      <3>3. CASE RefreshWrite(s)
        BY <3>1, <3>3, TypeParts DEF RefreshWrite, Renewed, Quiet, Session, Row
      <3> QED
        BY <2>3, <3>2, <3>3
    <2>4. ASSUME AnchorRead(s) PROVE Quiet
      BY <2>4, TypeParts DEF AnchorRead, Quiet, Session
    <2>5. ASSUME AnchorWrite(s) PROVE Quiet
      BY <2>5, TypeParts DEF AnchorWrite, Renewed, Quiet, Session, Row
    <2>6. ASSUME Pop(s) PROVE Quiet
      BY <2>6, TypeParts DEF Pop, Quiet, Session
    <2>7. ASSUME ReleaseRead(s) PROVE Quiet
      BY <2>7, TypeParts DEF ReleaseRead, Quiet, Session, NoSession
    <2>8. ASSUME NEW state \in {"draining", "closed"}, ReleaseWrite(s, state) PROVE Quiet
      BY <2>8, TypeParts DEF ReleaseWrite, Quiet, Session, NoSession, Row
    <2> QED
      BY <1>2, <2>1, <2>2, <2>3, <2>4, <2>5, <2>6, <2>7, <2>8 DEF SessionStep
  <1>3. ASSUME NEW i \in Instances, DrainRead(i) \/ DrainWrite(i) PROVE Quiet
    BY <1>3, TypeParts DEF DrainRead, DrainWrite, Quiet, Row
  <1>4. ASSUME NEW i \in Instances, Crash(i) PROVE Quiet
    BY <1>0, <1>4, TypeParts DEF Crash, Quiet
  <1>5. CASE PurgeClosed \/ Tick
    BY <1>5, TypeParts DEF PurgeClosed, Tick, Quiet, Row
  <1> QED
    BY <1>1, <1>2, <1>3, <1>4, <1>5 DEF Next

\* A claim's epoch is the owner's own, or one that nobody was granted.
LEMMA ClaimFences ==
    ASSUME TypeOK, TypeOK', Fences, NEW s \in Sessions,
           ClaimInsert(s) \/ \E changed \in BOOLEAN : ClaimUpdate(s, changed)
    PROVE  Fences' /\ (row'.id = row.id =>
               /\ row'.epoch >= row.epoch
               /\ row'.owner \notin {row.owner, NoOne} => row'.epoch > row.epoch)
  <1> DEFINE new == [id |-> row'.id, epoch |-> row'.epoch, inst |-> Host[s]]
  <1>0. Host[s] \in Instances /\ Host[s] # NoOne
    BY HostAssumption
  <1>1. /\ Granted(s, row'.id, row'.epoch)
        /\ row'.owner = Host[s]
        /\ \/ row'.id = row.id + 1
           \/ row'.id = row.id /\ row'.epoch = row.epoch + 1
           \/ row'.id = row.id /\ row'.epoch = row.epoch /\ row.owner = Host[s]
    <2>1. CASE ClaimInsert(s)
      BY <2>1 DEF ClaimInsert
    <2>2. ASSUME NEW changed \in BOOLEAN, ClaimUpdate(s, changed)
          PROVE  /\ row'.id = row.id /\ row'.epoch = NextEpoch(Host[s])
                 /\ row'.owner = Host[s]
                 /\ Granted(s, row'.id, row'.epoch)
      BY <2>2, TypeParts DEF ClaimUpdate, Row
    <2> QED
      BY <1>0, <2>1, <2>2, NextEpochGrows
  <1>2. /\ row.id \in Nat /\ row.epoch \in Nat /\ row'.id \in Nat /\ row'.epoch \in Nat
        /\ \A g \in grants : g.id \in Nat /\ g.epoch \in Nat
        /\ \A t \in Sessions : sess[t].id \in Nat /\ sess[t].epoch \in Nat
    <2>1. row' \in Row
      BY DEF TypeOK
    <2>2. row'.id \in Nat /\ row'.epoch \in Nat
      BY <2>1 DEF Row
    <2>3. \A g \in grants : g.id \in Nat /\ g.epoch \in Nat
      BY DEF TypeOK
    <2> QED
      BY <2>2, <2>3, TypeParts
  <1>3. /\ grants' = grants \cup {new}
        /\ \A t \in Sessions \ {s} : sess'[t] = sess[t]
        /\ sess'[s].id = row'.id /\ sess'[s].epoch = row'.epoch
    <2>1. grants' = grants \cup {new}
      BY <1>1 DEF Granted
    <2> HIDE DEF new
    <2>2. PICK n \in Nat, e \in Nat : n = row'.id /\ e = row'.epoch /\ Granted(s, n, e)
      BY <1>1, <1>2
    <2> QED
      BY <2>1, <2>2, GrantedTyped
  <1>4. new.id = row'.id /\ new.epoch = row'.epoch /\ new.inst = Host[s]
    OBVIOUS
  <1>5. row.owner = Host[s] => [id |-> row.id, epoch |-> row.epoch, inst |-> Host[s]] \in grants
    BY <1>0 DEF Fences, GrantsBelowRow
  <1>6. ASSUME NEW g \in grants, g.id = row'.id, g.epoch = row'.epoch PROVE g.inst = Host[s]
    <2>1. g.id < row.id \/ (g.id = row.id /\ g.epoch <= row.epoch)
      BY DEF Fences, GrantsBelowRow
    <2>2. row.owner = Host[s] /\ row'.id = row.id /\ row'.epoch = row.epoch
      BY <1>1, <1>2, <1>6, <2>1
    <2> DEFINE own == [id |-> row.id, epoch |-> row.epoch, inst |-> Host[s]]
    <2>3. own \in grants /\ own.id = g.id /\ own.epoch = g.epoch /\ own.inst = Host[s]
      BY <1>5, <1>6, <2>2
    <2> HIDE DEF own
    <2> QED
      BY <2>3 DEF Fences, GrantUnique
  <1> HIDE DEF new
  <1>7. GrantUnique'
    <2> SUFFICES ASSUME NEW g \in grants', NEW h \in grants', g.id = h.id, g.epoch = h.epoch
                 PROVE  g.inst = h.inst
      BY DEF GrantUnique
    <2>1. CASE g \in grants /\ h \in grants
      BY <2>1 DEF Fences, GrantUnique
    <2>2. CASE g = new \/ h = new
      BY <1>3, <1>4, <1>6, <2>2
    <2> QED
      BY <1>3, <2>1, <2>2
  <1>8. GrantsBelowRow'
    <2>1. \A g \in grants' : g.id < row'.id \/ (g.id = row'.id /\ g.epoch <= row'.epoch)
      BY <1>1, <1>2, <1>3, <1>4 DEF Fences, GrantsBelowRow
    <2>2. [id |-> row'.id, epoch |-> row'.epoch, inst |-> row'.owner] \in grants'
      BY <1>1, <1>3 DEF new
    <2> QED
      BY <2>1, <2>2 DEF GrantsBelowRow
  <1>9. SessionNotAhead'
    <2> SUFFICES ASSUME NEW t \in Sessions
                 PROVE  sess'[t].id < row'.id \/ (sess'[t].id = row'.id /\ sess'[t].epoch <= row'.epoch)
      BY DEF SessionNotAhead
    <2>1. sess[t].id < row.id \/ (sess[t].id = row.id /\ sess[t].epoch <= row.epoch)
      BY DEF Fences, SessionNotAhead
    <2> QED
      BY <1>1, <1>2, <1>3, <2>1
  <1>10. row'.id = row.id =>
            /\ row'.epoch >= row.epoch
            /\ row'.owner \notin {row.owner, NoOne} => row'.epoch > row.epoch
    BY <1>1, <1>2
  <1> QED
    BY <1>7, <1>8, <1>9, <1>10 DEF Fences

\* A quiet step keeps what epochs are compared with.
LEMMA QuietFences ==
    ASSUME TypeOK, TypeOK', Fences, Quiet
    PROVE  Fences'
  <1>1. GrantUnique'
    BY DEF Fences, Quiet, GrantUnique
  <1>2. GrantsBelowRow'
    <2>1. row'.owner # NoOne => row'.owner = row.owner
      BY DEF Quiet
    <2> QED
      BY <2>1 DEF Fences, Quiet, GrantsBelowRow
  <1>3. SessionNotAhead'
    <2> SUFFICES ASSUME NEW t \in Sessions
                 PROVE  sess'[t].id < row'.id \/ (sess'[t].id = row'.id /\ sess'[t].epoch <= row'.epoch)
      BY DEF SessionNotAhead
    <2>1. sess[t].id < row.id \/ (sess[t].id = row.id /\ sess[t].epoch <= row.epoch)
      BY DEF Fences, SessionNotAhead
    <2>2. row.id \in Nat /\ row.epoch \in Nat
      BY TypeParts
    <2> QED
      BY <2>1, <2>2 DEF Quiet
  <1> QED
    BY <1>1, <1>2, <1>3 DEF Fences

\* One step keeps the types and the fences, and moves the epoch forward only.
LEMMA StepFences ==
    ASSUME TypeOK, Fences, [Next]_vars
    PROVE  /\ TypeOK' /\ Fences'
           /\ row'.id = row.id =>
                 /\ row'.epoch >= row.epoch
                 /\ row'.owner \notin {row.owner, NoOne} => row'.epoch > row.epoch
  <1>1. TypeOK'
    BY StepTyped
  <1>2. CASE \E s \in Sessions : ClaimInsert(s) \/ \E changed \in BOOLEAN : ClaimUpdate(s, changed)
    BY <1>1, <1>2, ClaimFences
  <1>3. CASE ~\E s \in Sessions : ClaimInsert(s) \/ \E changed \in BOOLEAN : ClaimUpdate(s, changed)
    <2>1. Quiet
      BY <1>3, StepQuiet
    <2>2. row.epoch \in Nat
      BY TypeParts
    <2> QED
      BY <1>1, <2>1, <2>2, QuietFences DEF Quiet
  <1> QED
    BY <1>2, <1>3

\* A session that is about to write was so before, or has just passed the
\* fence; its id and epoch are the ones it had (renew_session, release_session).
Writing == {"refreshing", "anchoring", "releasing"}

LEMMA StepWriters ==
    ASSUME TypeOK, [Next]_vars, NEW t \in Sessions, sess'[t].phase \in Writing
    PROVE  /\ sess'[t].id = sess[t].id /\ sess'[t].epoch = sess[t].epoch
           /\ sess[t].phase \in Writing \/ Fenced(t)
  <1> DEFINE Kept == /\ sess'[t].id = sess[t].id /\ sess'[t].epoch = sess[t].epoch
                     /\ sess[t].phase \in Writing \/ Fenced(t)
  <1>0. NoSession.phase \notin Writing /\ "live" \notin Writing /\ "creating" \notin Writing
    BY DEF NoSession, Writing
  <1>1. ASSUME sess'[t] = sess[t] PROVE Kept
    BY <1>1
  <1>2. ASSUME NEW s \in Sessions, SessionStep(s) PROVE Kept
    <2>1. CASE s # t
      <3>1. sess'[t] = sess[t]
        <4>1. ASSUME NEW force \in BOOLEAN, StartCreate(s, force) PROVE sess'[t] = sess[t]
          BY <2>1, <4>1, TypeParts DEF StartCreate
        <4>2. ASSUME ClaimInsert(s) PROVE sess'[t] = sess[t]
          BY <2>1, <4>2, TypeParts DEF ClaimInsert, Granted
        <4>3. ASSUME NEW changed \in BOOLEAN, ClaimUpdate(s, changed) PROVE sess'[t] = sess[t]
          BY <2>1, <4>3, TypeParts DEF ClaimUpdate, Granted
        <4>4. ASSUME DiscardCreation(s) \/ AnchorRead(s) \/ AnchorWrite(s) \/ Pop(s)
              PROVE  sess'[t] = sess[t]
          BY <2>1, <4>4, TypeParts DEF DiscardCreation, AnchorRead, AnchorWrite, Pop
        <4>5. ASSUME RefreshRead(s) \/ RefreshWrite(s) \/ ReleaseRead(s) PROVE sess'[t] = sess[t]
          BY <2>1, <4>5, TypeParts DEF RefreshRead, RefreshWrite, ReleaseRead
        <4>6. ASSUME NEW state \in {"draining", "closed"}, ReleaseWrite(s, state)
              PROVE  sess'[t] = sess[t]
          BY <2>1, <4>6, TypeParts DEF ReleaseWrite
        <4> QED
          BY <1>2, <4>1, <4>2, <4>3, <4>4, <4>5, <4>6 DEF SessionStep
      <3> QED
        BY <1>1, <3>1
    <2>2. CASE s = t
      <3>1. ASSUME NEW force \in BOOLEAN, StartCreate(t, force) PROVE FALSE
        <4>1. sess'[t].phase = "creating"
          BY <3>1, TypeParts DEF StartCreate, NoSession
        <4> QED
          BY <1>0, <4>1
      <3>2. ASSUME NEW id, NEW epoch, Granted(t, id, epoch) PROVE FALSE
        <4>1. sess'[t].phase = "live"
          BY <3>2, TypeParts DEF Granted, NoSession
        <4> QED
          BY <1>0, <4>1
      <3>3. ASSUME DiscardCreation(t) \/ \E state \in {"draining", "closed"} : ReleaseWrite(t, state)
            PROVE  FALSE
        <4>1. sess'[t] = NoSession
          BY <3>3, TypeParts DEF DiscardCreation, ReleaseWrite
        <4> QED
          BY <1>0, <4>1
      <3>4. ASSUME RefreshWrite(t) \/ AnchorWrite(t) PROVE FALSE
        <4>1. sess'[t].phase = "live"
          BY <3>4, TypeParts DEF RefreshWrite, AnchorWrite, Session
        <4> QED
          BY <1>0, <4>1
      <3>5. ASSUME RefreshRead(t) PROVE Kept
        <4>1. CASE Fenced(t)
          BY <3>5, <4>1, TypeParts DEF RefreshRead, Session
        <4>2. CASE ~Fenced(t)
          <5>1. sess'[t].phase = "live"
            BY <3>5, <4>2, TypeParts DEF RefreshRead, Session
          <5> QED
            BY <1>0, <5>1
        <4> QED
          BY <4>1, <4>2
      <3>6. ASSUME AnchorRead(t) PROVE Kept
        BY <3>6, TypeParts DEF AnchorRead, Session
      <3>7. ASSUME Pop(t) PROVE Kept
        BY <3>7, TypeParts DEF Pop, Session
      <3>8. ASSUME ReleaseRead(t) PROVE Kept
        <4>1. CASE Fenced(t)
          BY <3>8, <4>1, TypeParts DEF ReleaseRead, Session
        <4>2. CASE ~Fenced(t)
          <5>1. sess'[t] = NoSession
            BY <3>8, <4>2, TypeParts DEF ReleaseRead
          <5> QED
            BY <1>0, <5>1
        <4> QED
          BY <4>1, <4>2
      <3>9. ASSUME ClaimInsert(t) \/ \E changed \in BOOLEAN : ClaimUpdate(t, changed) PROVE FALSE
        BY <3>2, <3>9 DEF ClaimInsert, ClaimUpdate
      <3> HIDE DEF Kept
      <3> QED
        BY <1>2, <2>2, <3>1, <3>3, <3>4, <3>5, <3>6, <3>7, <3>8, <3>9 DEF SessionStep
    <2> QED
      BY <2>1, <2>2
  <1>3. ASSUME NEW i \in Instances, Crash(i) PROVE Kept
    <2>1. sess'[t] \in {NoSession, sess[t]}
      BY <1>3 DEF Crash
    <2> QED
      BY <1>0, <1>1, <2>1
  <1>4. ASSUME \/ UNCHANGED vars \/ PurgeClosed \/ Tick
               \/ \E i \in Instances : DrainRead(i) \/ DrainWrite(i)
        PROVE  Kept
    <2>1. sess' = sess
      BY <1>4 DEF vars, PurgeClosed, Tick, DrainRead, DrainWrite
    <2> QED
      BY <1>1, <2>1
  <1> HIDE DEF Kept
  <1>5. Kept
    BY <1>2, <1>3, <1>4 DEF Next
  <1> QED
    BY <1>5 DEF Kept

\* Who passes the fence owns the row, so the row's epoch was granted to its
\* replica; what was granted stays so.
LEMMA StepWritersGranted ==
    ASSUME TypeOK, Fences, WritersGranted, [Next]_vars
    PROVE  WritersGranted'
  <1>1. grants \subseteq grants'
    <2>1. ASSUME NEW s \in Sessions, ClaimInsert(s) \/ \E changed \in BOOLEAN : ClaimUpdate(s, changed)
          PROVE  grants \subseteq grants'
      BY <2>1 DEF ClaimInsert, ClaimUpdate, Granted
    <2> QED
      BY <2>1, StepQuiet DEF Quiet
  <1> SUFFICES ASSUME NEW t \in Sessions, sess'[t].phase \in Writing
               PROVE  [id |-> sess'[t].id, epoch |-> sess'[t].epoch, inst |-> Host[t]] \in grants'
    BY DEF WritersGranted, Writing
  <1>2. /\ sess'[t].id = sess[t].id /\ sess'[t].epoch = sess[t].epoch
        /\ sess[t].phase \in Writing \/ Fenced(t)
    BY StepWriters
  <1>3. CASE sess[t].phase \in Writing
    BY <1>1, <1>2, <1>3 DEF WritersGranted, Writing
  <1>4. CASE Fenced(t)
    <2>1. row.owner = Host[t] /\ row.owner # NoOne /\ row.id = sess[t].id /\ row.epoch = sess[t].epoch
      BY <1>4, HostAssumption DEF Fenced
    <2> QED
      BY <1>1, <1>2, <2>1 DEF Fences, GrantsBelowRow
  <1> QED
    BY <1>2, <1>3, <1>4

\* However replicas claim, renew, release, drain, crash and purge, with every
\* late write the unlocked updates allow, claim_session never grants one
\* epoch of a row to two replicas, and no session is ahead of its row.
THEOREM BridgeFenced == Spec => [](TypeOK /\ GrantUnique /\ GrantsBelowRow /\ SessionNotAhead)
  <1>1. Init => TypeOK /\ Fences
    BY InitFenced DEF Fences
  <1>2. TypeOK /\ Fences /\ [Next]_vars => (TypeOK /\ Fences)'
    BY StepFences
  <1>3. TypeOK /\ Fences => TypeOK /\ GrantUnique /\ GrantsBelowRow /\ SessionNotAhead
    BY DEF Fences
  <1> QED
    BY <1>1, <1>2, <1>3, PTL DEF Spec

\* No session of any replica renews, anchors or releases under an epoch that
\* was not granted to its replica, though a renewal may have handed it the
\* epoch of another (service.py:5782).
THEOREM BridgeWritersGranted == Spec => []WritersGranted
  <1>1. Init => TypeOK /\ Fences /\ WritersGranted
    BY InitFenced DEF Fences, Init, WritersGranted, NoSession
  <1>2. TypeOK /\ Fences /\ WritersGranted /\ [Next]_vars => (TypeOK /\ Fences /\ WritersGranted)'
    BY StepFences, StepWritersGranted
  <1> QED
    BY <1>1, <1>2, PTL DEF Spec

\* The epoch of a row never goes back and grows with every change of owner.
THEOREM BridgeEpochFences == Spec => EpochFences
  <1>1. Init => TypeOK /\ Fences
    BY InitFenced DEF Fences
  <1>2. TypeOK /\ Fences /\ [Next]_vars => (TypeOK /\ Fences)'
    BY StepFences
  <1>3. TypeOK /\ Fences /\ [Next]_vars =>
           [row'.id = row.id =>
              /\ row'.epoch >= row.epoch
              /\ row'.owner \notin {row.owner, NoOne} => row'.epoch > row.epoch]_vars
    BY StepFences
  <1> QED
    BY <1>1, <1>2, <1>3, PTL DEF Spec, EpochFences

=============================================================================
