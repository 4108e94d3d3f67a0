--------------------------- MODULE AnalyticsProofs ---------------------------
(* Theorems about the analytics service and its workers: AnalyticsCache,   *)
(* IncidentAcks, DispatchAlerts and SchedulerLease.                        *)
EXTENDS AnalyticsCache, DispatchAlerts, IncidentAcks, SchedulerLease,
        FiniteSetTheorems, TLAPS

----------------------------------------------------------------------------
(* The cache *)

\* Nothing is owed or settled that was not committed, and a query that no
\* invalidation has overtaken holds at least what its process has settled.
KnownIsCommitted == \A p \in Procs : owed[p] <= version /\ settled[p] <= version

FreshUnlessRaced ==
    \A r \in Readers :
        reader[r].at = "fill" /\ ~reader[r].raced =>
            reader[r].seen >= settled[ReaderProc[r]]

CacheInv == CacheTypeOK /\ StaleOnlyByRace /\ KnownIsCommitted /\ FreshUnlessRaced

LEMMA CacheInvInit == CacheInit => CacheInv
  BY CacheAssumption DEF CacheAssumption, CacheInit, CacheInv, CacheTypeOK,
     StaleOnlyByRace, KnownIsCommitted, FreshUnlessRaced, NewReader

LEMMA CacheInvStep == CacheInv /\ [CacheNext]_cacheVars => CacheInv'
<1> SUFFICES ASSUME CacheInv, [CacheNext]_cacheVars PROVE CacheInv'
  OBVIOUS
<1>0. CacheTypeOK /\ StaleOnlyByRace /\ KnownIsCommitted /\ FreshUnlessRaced
  BY DEF CacheInv
<1> USE CacheAssumption DEF CacheAssumption
<1>1. CASE UNCHANGED cacheVars
  BY <1>0, <1>1 DEF cacheVars, CacheInv, CacheTypeOK, StaleOnlyByRace, KnownIsCommitted,
     FreshUnlessRaced
<1>2. ASSUME NEW p \in Procs, Commit(p) PROVE CacheInv'
  <2>1. CacheTypeOK'
    BY <1>0, <1>2 DEF Commit, CacheTypeOK, KnownIsCommitted
  <2>2. StaleOnlyByRace' /\ KnownIsCommitted' /\ FreshUnlessRaced'
    BY <1>0, <1>2 DEF Commit, CacheTypeOK, StaleOnlyByRace, KnownIsCommitted,
       FreshUnlessRaced
  <2> QED BY <2>1, <2>2 DEF CacheInv
<1>3. ASSUME NEW p \in Procs, Invalidate(p) PROVE CacheInv'
  <2>1. CacheTypeOK'
    <3>1. reader' \in [Readers -> [at : {"idle", "ask", "fill"}, seen : 0..MaxCommits,
                                   raced : BOOLEAN]]
      BY <1>0, <1>3 DEF Invalidate, Raced, CacheTypeOK
    <3>2. owed' \in [Procs -> 0..MaxCommits]
      BY <1>0, <1>3 DEF Invalidate, CacheTypeOK
    <3> QED BY <1>0, <1>3, <3>1, <3>2 DEF Invalidate, CacheTypeOK
  <2>2. StaleOnlyByRace' /\ KnownIsCommitted'
    BY <1>0, <1>3 DEF Invalidate, CacheTypeOK, StaleOnlyByRace, KnownIsCommitted
  <2>3. FreshUnlessRaced'
    BY <1>0, <1>3 DEF Invalidate, Raced, CacheTypeOK, FreshUnlessRaced
  <2> QED BY <2>1, <2>2, <2>3 DEF CacheInv
<1>4. ASSUME NEW p \in Procs, Outlive(p) PROVE CacheInv'
  BY <1>0, <1>4 DEF Outlive, CacheInv, CacheTypeOK, StaleOnlyByRace, KnownIsCommitted,
     FreshUnlessRaced
<1>5. ASSUME NEW r \in Readers, Look(r) PROVE CacheInv'
  BY <1>0, <1>5 DEF Look, CacheInv, CacheTypeOK, StaleOnlyByRace, KnownIsCommitted,
     FreshUnlessRaced
<1>6. ASSUME NEW r \in Readers, Query(r) PROVE CacheInv'
  BY <1>0, <1>6 DEF Query, CacheInv, CacheTypeOK, StaleOnlyByRace, KnownIsCommitted,
     FreshUnlessRaced
<1>7. ASSUME NEW r \in Readers, Fill(r) PROVE CacheInv'
  <2>1. CacheTypeOK'
    BY <1>0, <1>7 DEF Fill, CacheTypeOK, Entries, NewReader
  <2>2. StaleOnlyByRace'
    BY <1>0, <1>7 DEF Fill, CacheTypeOK, StaleOnlyByRace, FreshUnlessRaced
  <2>3. KnownIsCommitted' /\ FreshUnlessRaced'
    BY <1>0, <1>7 DEF Fill, NewReader, CacheTypeOK, KnownIsCommitted, FreshUnlessRaced
  <2> QED BY <2>1, <2>2, <2>3 DEF CacheInv
<1> QED BY <1>1, <1>2, <1>3, <1>4, <1>5, <1>6, <1>7 DEF CacheNext

\* The variables of the cache keep their types.
THEOREM CacheTypeCorrect == CacheSpec => []CacheTypeOK
<1>1. CacheInv => CacheTypeOK
  BY DEF CacheInv
<1> QED BY CacheInvInit, CacheInvStep, <1>1, PTL DEF CacheSpec

\* _get_cached serves nothing older than the last invalidate_tenant_cache of its
\* process, but for a result that was being computed while it ran.
THEOREM CacheStaleOnlyByRace == CacheSpec => []StaleOnlyByRace
<1>1. CacheInv => StaleOnlyByRace
  BY DEF CacheInv
<1> QED BY CacheInvInit, CacheInvStep, <1>1, PTL DEF CacheSpec

----------------------------------------------------------------------------
(* The acknowledgements *)

\* A request that will write a row has found it, and one that will insert or look
\* for a row knows its key.
ClerkIsInformed ==
    \A c \in Clerks :
        /\ clerk[c].at # "idle" => clerk[c].key \in Incidents
        /\ clerk[c].at \in {"update", "close"} => clerk[c].row \in Present

\* A resolved row says who resolved it.
ResolvedHasResolver ==
    \A i \in Present : ~rows[i].open => rows[i].resolver # NoRow

AckInv == AckTypeOK /\ ClerkIsInformed /\ ResolvedHasResolver

\* What becomes of the rows that are there.
RowsLast ==
    \A i \in 1..MaxRows :
        rows[i] # NoRow =>
            /\ rows'[i] # NoRow /\ rows'[i].key = rows[i].key
            /\ ~rows[i].open => ~rows'[i].open /\ rows'[i].resolver # NoRow

LEMMA AckInvInit == AckInit => AckInv
  BY AcksAssumption DEF AcksAssumption, AckInit, AckInv, AckTypeOK, AtDesk, Present,
     ClerkIsInformed, ResolvedHasResolver

\* A step that leaves the rows alone.
LEMMA QuietStep ==
  ASSUME AckInv, UNCHANGED rows
  PROVE  Present' = Present /\ ResolvedHasResolver' /\ RowsLast
  BY DEF AckInv, ResolvedHasResolver, Present, RowsLast

\* A request that moves on without writing, and knows what it has to.
Desks == [at : {"idle", "ack", "insert", "update", "resolve", "close"},
          key : Incidents \cup {NoRow}, row : 1..MaxRows \cup {NoRow}]

Informed(desk) ==
    /\ desk \in Desks
    /\ desk.at # "idle" => desk.key \in Incidents
    /\ desk.at \in {"update", "close"} => desk.row \in Present

LEMMA AtDeskIsInformed == Informed(AtDesk)
  BY DEF AtDesk, Informed, Desks

LEMMA ClerkMoves ==
  ASSUME AckInv, NEW c \in Clerks, NEW STATE desk, Informed(desk),
         clerk' = [clerk EXCEPT ![c] = desk], UNCHANGED <<incident, rows>>
  PROVE  AckInv' /\ RowsLast
<1>1. clerk' \in [Clerks -> Desks]
  BY DEF AckInv, AckTypeOK, Informed, Desks
<1>2. ClerkIsInformed'
  BY QuietStep DEF AckInv, AckTypeOK, ClerkIsInformed, Informed
<1> QED BY <1>1, <1>2, QuietStep DEF AckInv, AckTypeOK, Desks

LEMMA AckInvStep == AckInv /\ [AckNext]_ackVars => AckInv' /\ RowsLast
<1> SUFFICES ASSUME AckInv, [AckNext]_ackVars PROVE AckInv' /\ RowsLast
  OBVIOUS
<1>0. AckTypeOK /\ ClerkIsInformed /\ ResolvedHasResolver
  BY DEF AckInv
<1> USE AcksAssumption DEF AcksAssumption
<1>1. CASE UNCHANGED ackVars
  <2>1. UNCHANGED <<incident, rows, clerk>>
    BY <1>1 DEF ackVars
  <2> QED BY <1>0, <2>1, QuietStep DEF AckInv, AckTypeOK, ClerkIsInformed
<1>2. ASSUME NEW key \in Incidents \cup {NoRow}, AlertsChange(key) PROVE AckInv' /\ RowsLast
  BY <1>0, <1>2, QuietStep DEF AlertsChange, AckInv, AckTypeOK, ClerkIsInformed
<1>3. ASSUME NEW c \in Clerks, NEW what \in {"ack", "resolve"}, ReadIncident(c, what)
      PROVE  AckInv' /\ RowsLast
  BY <1>0, <1>3, QuietStep DEF ReadIncident, AckInv, AckTypeOK, ClerkIsInformed
<1>4. ASSUME NEW c \in Clerks, AckFinds(c) PROVE AckInv' /\ RowsLast
  <2>1. UNCHANGED <<incident, rows>> /\ clerk[c].at = "ack"
    BY <1>4 DEF AckFinds
  <2>2. CASE clerk' = [clerk EXCEPT ![c] = AtDesk]
    BY <2>1, <2>2, ClerkMoves, AtDeskIsInformed
  <2>3. CASE clerk' = [clerk EXCEPT ![c] = [clerk[c] EXCEPT !.at = "insert"]]
    <3>1. Informed([clerk[c] EXCEPT !.at = "insert"])
      BY <1>0, <2>1 DEF AckTypeOK, ClerkIsInformed, Informed, Desks
    <3> QED BY <2>1, <2>3, <3>1, ClerkMoves
  <2>4. CASE /\ OpenRows(clerk[c].key) # {}
             /\ clerk' = [clerk EXCEPT ![c] =
                    [clerk[c] EXCEPT !.at = "update",
                                     !.row = CHOOSE i \in OpenRows(clerk[c].key) : TRUE]]
    <3>1. PICK i \in Present :
             clerk' = [clerk EXCEPT ![c] = [clerk[c] EXCEPT !.at = "update", !.row = i]]
      BY <2>4 DEF OpenRows
    <3>2. Informed([clerk[c] EXCEPT !.at = "update", !.row = i])
      BY <1>0, <2>1 DEF AckTypeOK, ClerkIsInformed, Informed, Desks, Present
    <3> QED BY <2>1, <3>1, <3>2, ClerkMoves
  <2> QED BY <1>4, <2>2, <2>3, <2>4 DEF AckFinds
<1>5. ASSUME NEW c \in Clerks, ResolveFinds(c) PROVE AckInv' /\ RowsLast
  <2>1. UNCHANGED <<incident, rows>> /\ clerk[c].at = "resolve"
    BY <1>5 DEF ResolveFinds
  <2>2. CASE clerk' = [clerk EXCEPT ![c] = AtDesk]
    BY <2>1, <2>2, ClerkMoves, AtDeskIsInformed
  <2>3. CASE /\ OpenRows(clerk[c].key) # {}
             /\ clerk' = [clerk EXCEPT ![c] =
                    [clerk[c] EXCEPT !.at = "close",
                                     !.row = CHOOSE i \in OpenRows(clerk[c].key) : TRUE]]
    <3>1. PICK i \in Present :
             clerk' = [clerk EXCEPT ![c] = [clerk[c] EXCEPT !.at = "close", !.row = i]]
      BY <2>3 DEF OpenRows
    <3>2. Informed([clerk[c] EXCEPT !.at = "close", !.row = i])
      BY <1>0, <2>1 DEF AckTypeOK, ClerkIsInformed, Informed, Desks, Present
    <3> QED BY <2>1, <3>1, <3>2, ClerkMoves
  <2>4. Cardinality(OpenRows(clerk[c].key)) = 1 => OpenRows(clerk[c].key) # {}
    BY FS_EmptySet
  <2> QED BY <1>5, <2>2, <2>3, <2>4 DEF ResolveFinds
<1>6. ASSUME NEW c \in Clerks, AckInserts(c) PROVE AckInv' /\ RowsLast
  <2>1. PICK i \in 1..MaxRows :
           /\ Present = 1..(i - 1)
           /\ rows' = [rows EXCEPT ![i] =
                          [key |-> clerk[c].key, open |-> TRUE, owner |-> c, resolver |-> NoRow]]
    BY <1>6 DEF AckInserts
  <2>2. clerk' = [clerk EXCEPT ![c] = AtDesk] /\ incident' = incident
        /\ clerk[c].key \in Incidents
    BY <1>0, <1>6 DEF AckInserts, ClerkIsInformed
  <2>3. rows[i] = NoRow
    BY <2>1 DEF Present
  <2>4. AckTypeOK'
    BY <1>0, <2>1, <2>2 DEF AckTypeOK, AtDesk, Row
  <2>5. \A j \in Present : j # i /\ rows'[j] = rows[j]
    BY <1>0, <2>1, <2>3 DEF AckTypeOK, Present
  <2>6. RowsLast
    BY <1>0, <2>5 DEF RowsLast, ResolvedHasResolver, Present
  <2>7. Present \subseteq Present'
    BY <2>5 DEF Present
  <2>8. ClerkIsInformed'
    BY <1>0, <2>2, <2>7 DEF AckTypeOK, ClerkIsInformed, AtDesk
  <2>9. ResolvedHasResolver'
    BY <1>0, <2>1 DEF AckTypeOK, ResolvedHasResolver, Present
  <2> QED BY <2>4, <2>6, <2>8, <2>9 DEF AckInv
<1>7. ASSUME NEW c \in Clerks, AckUpdates(c) \/ Resolves(c) PROVE AckInv' /\ RowsLast
  <2>1. clerk[c].row \in Present /\ clerk' = [clerk EXCEPT ![c] = AtDesk]
        /\ incident' = incident
    BY <1>0, <1>7 DEF AckUpdates, Resolves, ClerkIsInformed
  <2>2. PICK i \in Present :
           \/ rows' = [rows EXCEPT ![i].owner = c]
           \/ rows' = [rows EXCEPT ![i].open = FALSE, ![i].resolver = c]
    BY <1>7, <2>1 DEF AckUpdates, Resolves
  <2>3. /\ i \in 1..MaxRows /\ rows[i] \in Row /\ rows' = [rows EXCEPT ![i] = rows'[i]]
        /\ \/ rows'[i] = [rows[i] EXCEPT !.owner = c]
           \/ rows'[i] = [rows[i] EXCEPT !.open = FALSE, !.resolver = c]
    BY <1>0, <2>2 DEF AckTypeOK, Present
  <2>4. /\ rows'[i] \in Row /\ rows'[i].key = rows[i].key
        /\ ~rows[i].open => ~rows'[i].open
        /\ \/ rows'[i].open = rows[i].open /\ rows'[i].resolver = rows[i].resolver
           \/ rows'[i].resolver = c
    BY <2>3 DEF Row
  <2>5. AckTypeOK'
    BY <1>0, <2>1, <2>3, <2>4 DEF AckTypeOK, AtDesk
  <2>6. RowsLast
    BY <1>0, <2>3, <2>4 DEF AckTypeOK, RowsLast, ResolvedHasResolver, Present
  <2>7. Present' = Present
    BY <1>0, <2>3, <2>4 DEF AckTypeOK, Present
  <2>8. ClerkIsInformed'
    BY <1>0, <2>1, <2>7 DEF AckTypeOK, ClerkIsInformed, AtDesk
  <2>9. ResolvedHasResolver'
    BY <1>0, <2>3, <2>4, <2>7 DEF AckTypeOK, ResolvedHasResolver, Present
  <2> QED BY <2>5, <2>6, <2>8, <2>9 DEF AckInv
<1>8. ASSUME NEW c \in Clerks, GivesUp(c) PROVE AckInv' /\ RowsLast
  BY <1>0, <1>8, QuietStep DEF GivesUp, AckInv, AckTypeOK, ClerkIsInformed, AtDesk
<1> QED BY <1>1, <1>2, <1>3, <1>4, <1>5, <1>6, <1>7, <1>8 DEF AckNext

\* The alerts, the rows and the requests keep their types.
THEOREM AcksTypeCorrect == AckSpec => []AckTypeOK
<1>1. AckInv => AckTypeOK
  BY DEF AckInv
<1> QED BY AckInvInit, AckInvStep, <1>1, PTL DEF AckSpec

\* No acknowledgement takes back what resolve_dispatch_incident has done.
THEOREM AcksStayResolved == AckSpec => ResolvedStaysResolved
<1>1. AckInv /\ [AckNext]_ackVars => [RowsLast]_ackVars
  BY AckInvStep
<1>2. AckInv /\ [AckNext]_ackVars => AckInv'
  BY AckInvStep
<1> QED BY AckInvInit, <1>1, <1>2, PTL DEF AckSpec, ResolvedStaysResolved, RowsLast

----------------------------------------------------------------------------
(* Alert delivery *)

AlertRecord == [at : {"idle", "tenant", "route", "post"}, tenant : Nat, last : Nat,
                on : SUBSET AlertTenants, alerts : SUBSET Codes, route : Nat,
                due : SUBSET Codes, own : SUBSET Notices]

AlertTypeOK ==
    /\ firing \in [AlertTenants -> SUBSET Codes] /\ enabled \subseteq AlertTenants
    /\ recent \subseteq Notices
    /\ posted \in [Notices -> Nat]
    /\ failures \in Nat
    /\ caller \in [Callers -> AlertRecord]

\* A caller at work is at one of its tenants, and at a route of it to post;
\* it begins a tenant with a new transaction.
Placed ==
    \A c \in Callers :
        /\ caller[c].at \in {"idle", "tenant"} => caller[c].own = {}
        /\ caller[c].at # "idle" => Here(c) \in 1..caller[c].last /\ caller[c].last \in AlertTenants
        /\ caller[c].at \in {"route", "post"} => caller[c].route \in Nat \ {0}
        /\ caller[c].at = "post" => caller[c].route <= Len(Routes[Here(c)])

\* The callers whose posts of a notice are not committed, and those who have
\* found it due and have not posted it.
Holders(n) == {c \in Callers : n \in caller[c].own}
Posters(n) == {c \in Callers : caller[c].at = "post" /\ n \in DueNotices(c)}

\* What a caller is about to post, it has not posted in this transaction.
DueIsNew(n) == Holders(n) \cap Posters(n) = {}

\* Outside the cooldown exactly the uncommitted posts count, inside it they
\* count too.
HeldAreCounted(n) ==
    /\ posted[n] >= Cardinality(Holders(n))
    /\ n \notin recent => posted[n] = Cardinality(Holders(n))

\* Every caller can be on its way to one post of a notice, and counts once.
RoomToPost(n) == posted[n] + Cardinality(Posters(n)) <= Cardinality(Callers)

NoticeSpaced(n) == DueIsNew(n) /\ HeldAreCounted(n) /\ RoomToPost(n)

AlertInv == AlertTypeOK /\ Placed /\ \A n \in Notices : NoticeSpaced(n)

LEMMA HoldersCount ==
  ASSUME NEW n
  PROVE /\ IsFiniteSet(Holders(n)) /\ IsFiniteSet(Posters(n))
        /\ Cardinality(Holders(n)) \in Nat /\ Cardinality(Posters(n)) \in Nat
        /\ Cardinality(Callers) \in Nat
        /\ Cardinality(Posters(n)) <= Cardinality(Callers)
        /\ DueIsNew(n) =>
              Cardinality(Holders(n)) + Cardinality(Posters(n)) <= Cardinality(Callers)
<1>1. IsFiniteSet(Callers) /\ Holders(n) \subseteq Callers /\ Posters(n) \subseteq Callers
  BY AlertsAssumption DEF AlertsAssumption, Holders, Posters
<1>2. /\ IsFiniteSet(Holders(n)) /\ IsFiniteSet(Posters(n))
      /\ Cardinality(Posters(n)) <= Cardinality(Callers)
  BY <1>1, FS_Subset
<1>3. /\ Cardinality(Holders(n)) \in Nat /\ Cardinality(Posters(n)) \in Nat
      /\ Cardinality(Callers) \in Nat
  BY <1>1, <1>2, FS_CardinalityType
<1>4. ASSUME DueIsNew(n)
      PROVE Cardinality(Holders(n)) + Cardinality(Posters(n)) <= Cardinality(Callers)
  <2>1. Cardinality(Holders(n) \cup Posters(n))
          = Cardinality(Holders(n)) + Cardinality(Posters(n)) - Cardinality({})
    BY <1>2, <1>4, FS_Union DEF DueIsNew
  <2>2. Cardinality(Holders(n) \cup Posters(n)) <= Cardinality(Callers)
    BY <1>1, FS_Subset, Holders(n) \cup Posters(n) \subseteq Callers
  <2>3. Cardinality({}) = 0
    BY FS_EmptySet
  <2> QED BY <1>3, <2>1, <2>2, <2>3
<1> QED BY <1>2, <1>3, <1>4

\* What a caller is about to post are notices of its tenant's policy.
LEMMA DueAreNotices ==
  ASSUME AlertTypeOK, Placed, NEW c \in Callers, caller[c].at = "post"
  PROVE DueNotices(c) \subseteq Notices
<1>1. Here(c) \in AlertTenants
  BY AlertsAssumption DEF AlertsAssumption, AlertTypeOK, AlertRecord, Placed, Here, AlertTenants
<1>2. Routes[Here(c)] \in Seq(Range(Routes[Here(c)]))
  BY <1>1, AlertsAssumption DEF AlertsAssumption
<1>3. caller[c].route \in 1..Len(Routes[Here(c)])
  BY <1>2 DEF AlertTypeOK, AlertRecord, Placed, Here
<1>4. Channel(c) \in Range(Routes[Here(c)])
  BY <1>2, <1>3 DEF Channel
<1>5. Channel(c) \in Channels
  BY <1>1, <1>4 DEF Channels
<1>6. caller[c].due \subseteq Codes
  BY DEF AlertTypeOK, AlertRecord
<1> QED BY <1>5, <1>6 DEF DueNotices, Notices

LEMMA CallerMoves ==
  ASSUME AlertTypeOK, NEW c \in Callers, NEW STATE to, Move(c, to), NEW n
  PROVE /\ Holders(n)' = IF n \in to.own THEN Holders(n) \cup {c} ELSE Holders(n) \ {c}
        /\ Posters(n)' = IF to.at = "post" /\ n \in {Routes[to.tenant][to.route]} \X to.due
                          THEN Posters(n) \cup {c} ELSE Posters(n) \ {c}
<1>1. /\ caller'[c] = to
      /\ \A d \in Callers \ {c} : caller'[d] = caller[d]
  BY DEF AlertTypeOK, Move
<1>2. /\ Holders(n)' = {d \in Callers : n \in caller'[d].own}
      /\ Posters(n)' = {d \in Callers :
            /\ caller'[d].at = "post"
            /\ n \in {Routes[caller'[d].tenant][caller'[d].route]} \X caller'[d].due}
  BY DEF Holders, Posters, DueNotices, Channel, Here
<1>3. Posters(n) = {d \in Callers :
            /\ caller[d].at = "post"
            /\ n \in {Routes[caller[d].tenant][caller[d].route]} \X caller[d].due}
  BY DEF Holders, Posters, DueNotices, Channel, Here
<1>4. Holders(n)' = IF n \in to.own THEN Holders(n) \cup {c} ELSE Holders(n) \ {c}
  BY <1>1, <1>2 DEF Holders
<1>5. Posters(n)' = IF to.at = "post" /\ n \in {Routes[to.tenant][to.route]} \X to.due
                    THEN Posters(n) \cup {c} ELSE Posters(n) \ {c}
  BY <1>1, <1>2, <1>3
<1> QED BY <1>4, <1>5

\* Where a caller goes without posting or finding anything due, nothing counts
\* otherwise.
LEMMA QuietMove ==
  ASSUME AlertInv, NEW c \in Callers, NEW STATE to, Move(c, to),
         to.own = caller[c].own, to.at # "post", caller[c].at # "post",
         UNCHANGED <<recent, posted>>
  PROVE \A n \in Notices : NoticeSpaced(n)'
<1> SUFFICES ASSUME NEW n \in Notices PROVE NoticeSpaced(n)'
  OBVIOUS
<1>1. Holders(n)' = Holders(n) /\ Posters(n)' = Posters(n)
  BY CallerMoves DEF AlertInv, Holders, Posters
<1>2. NoticeSpaced(n)
  BY DEF AlertInv
<1> QED BY <1>1, <1>2 DEF NoticeSpaced, DueIsNew, HeldAreCounted, RoomToPost

LEMMA ChecksSpaced ==
  ASSUME AlertInv, NEW c \in Callers, Checks(c), NEW n \in Notices
  PROVE NoticeSpaced(n)'
<1> DEFINE due == {code \in caller[c].alerts : ~CoolingDown(c, <<Channel(c), code>>)}
           to == [caller[c] EXCEPT !.at = "post", !.due = due]
<1>1. AlertTypeOK /\ NoticeSpaced(n)
  BY DEF AlertInv
<1>2. CASE due = {}
  <2>1. Move(c, [caller[c] EXCEPT !.route = @ + 1])
    BY <1>2 DEF Checks
  <2>2. /\ [caller[c] EXCEPT !.route = @ + 1].own = caller[c].own
        /\ [caller[c] EXCEPT !.route = @ + 1].at = "route" /\ caller[c].at = "route"
    BY <1>1 DEF AlertTypeOK, AlertRecord, Checks
  <2>3. UNCHANGED <<recent, posted>>
    BY DEF Checks
  <2> HIDE DEF due
  <2> QED BY <2>1, <2>2, <2>3, QuietMove
<1>3. CASE due # {}
  <2>1. Move(c, to) /\ UNCHANGED <<recent, posted>> /\ caller[c].at = "route"
    BY <1>3 DEF Checks
  <2>2. /\ to.at = "post" /\ to.due = due /\ to.own = caller[c].own
        /\ to.tenant = caller[c].tenant /\ to.route = caller[c].route
    BY <1>1 DEF AlertTypeOK, AlertRecord
  <2>3. Holders(n)' = Holders(n)
    <3>1. Holders(n)' = IF n \in caller[c].own THEN Holders(n) \cup {c} ELSE Holders(n) \ {c}
      BY <1>1, <2>1, <2>2, CallerMoves
    <3> QED BY <3>1 DEF Holders
  <2>4. Posters(n)' = IF n \in {Channel(c)} \X due THEN Posters(n) \cup {c} ELSE Posters(n)
    <3>1. Posters(n)' = IF n \in {Channel(c)} \X due
                        THEN Posters(n) \cup {c} ELSE Posters(n) \ {c}
      <4> HIDE DEF due, to
      <4> QED BY <1>1, <2>1, <2>2, CallerMoves DEF Channel, Here
    <3>2. c \notin Posters(n)
      BY <2>1 DEF Posters
    <3> QED BY <3>1, <3>2
  <2>5. CASE n \in {Channel(c)} \X due
    <3>1. n \notin recent /\ n \notin caller[c].own
      BY <2>5 DEF CoolingDown
    <3>2. DueIsNew(n)'
      BY <1>1, <2>3, <2>4, <2>5, <3>1 DEF NoticeSpaced, DueIsNew, Holders
    <3>3. HeldAreCounted(n)'
      BY <1>1, <2>1, <2>3 DEF NoticeSpaced, HeldAreCounted
    <3>4. Cardinality(Holders(n)') + Cardinality(Posters(n)') <= Cardinality(Callers)
      <4>1. IsFiniteSet(Callers) /\ Holders(n)' \subseteq Callers /\ Posters(n)' \subseteq Callers
        BY AlertsAssumption DEF AlertsAssumption, Holders, Posters
      <4>2. IsFiniteSet(Holders(n)') /\ IsFiniteSet(Posters(n)')
        BY <4>1, FS_Subset
      <4>3. Cardinality(Holders(n)' \cup Posters(n)')
              = Cardinality(Holders(n)') + Cardinality(Posters(n)') - Cardinality({})
        BY <3>2, <4>2, FS_Union DEF DueIsNew
      <4>4. Cardinality(Holders(n)' \cup Posters(n)') <= Cardinality(Callers)
        BY <4>1, FS_Subset, Holders(n)' \cup Posters(n)' \subseteq Callers
      <4>5. /\ Cardinality(Holders(n)') \in Nat /\ Cardinality(Posters(n)') \in Nat
            /\ Cardinality(Callers) \in Nat
        BY <4>1, <4>2, FS_CardinalityType
      <4>6. Cardinality({}) = 0
        BY FS_EmptySet
      <4> QED BY <4>3, <4>4, <4>5, <4>6
    <3>5. posted'[n] = Cardinality(Holders(n)')
      BY <1>1, <2>1, <2>3, <3>1 DEF NoticeSpaced, HeldAreCounted
    <3> QED BY <3>2, <3>3, <3>4, <3>5 DEF NoticeSpaced, RoomToPost
  <2>6. CASE n \notin {Channel(c)} \X due
    BY <1>1, <2>1, <2>3, <2>4, <2>6 DEF NoticeSpaced, DueIsNew, HeldAreCounted, RoomToPost
  <2> QED BY <2>5, <2>6
<1> QED BY <1>2, <1>3

LEMMA PostsSpaced ==
  ASSUME AlertInv, NEW c \in Callers, Posts(c), NEW n \in Notices
  PROVE NoticeSpaced(n)'
<1> DEFINE to == [caller[c] EXCEPT !.at = "route", !.route = @ + 1, !.due = {},
                                   !.own = @ \cup DueNotices(c)]
<1>1. AlertTypeOK /\ NoticeSpaced(n)
  BY DEF AlertInv
<1>2. /\ Move(c, to) /\ UNCHANGED recent /\ caller[c].at = "post"
      /\ posted' = [m \in Notices |-> posted[m] + IF m \in DueNotices(c) THEN 1 ELSE 0]
  BY DEF Posts
<1>3. to.at = "route" /\ to.own = caller[c].own \cup DueNotices(c)
  BY <1>1 DEF AlertTypeOK, AlertRecord
<1>4. /\ Holders(n)' = IF n \in caller[c].own \cup DueNotices(c)
                       THEN Holders(n) \cup {c} ELSE Holders(n) \ {c}
      /\ Posters(n)' = Posters(n) \ {c}
  <2> HIDE DEF to
  <2> QED BY <1>1, <1>2, <1>3, CallerMoves
<1>5. posted[n] \in Nat /\ posted'[n] = posted[n] + IF n \in DueNotices(c) THEN 1 ELSE 0
  BY <1>1, <1>2 DEF AlertTypeOK
<1>6. /\ IsFiniteSet(Holders(n)) /\ IsFiniteSet(Posters(n))
      /\ Cardinality(Holders(n)) \in Nat /\ Cardinality(Posters(n)) \in Nat
      /\ Cardinality(Callers) \in Nat
  BY HoldersCount
<1>7. CASE n \in DueNotices(c)
  <2>1. c \in Posters(n) /\ c \notin Holders(n)
    BY <1>1, <1>2, <1>7 DEF NoticeSpaced, DueIsNew, Posters
  <2>2. Holders(n)' = Holders(n) \cup {c} /\ Posters(n)' = Posters(n) \ {c}
    BY <1>4, <1>7
  <2>3. /\ Cardinality(Holders(n)') = Cardinality(Holders(n)) + 1
        /\ Cardinality(Posters(n)') = Cardinality(Posters(n)) - 1
    <3>1. Cardinality(Holders(n) \cup {c}) = Cardinality(Holders(n)) + 1
      BY <1>6, <2>1, FS_AddElement
    <3>2. Cardinality(Posters(n) \ {c}) = Cardinality(Posters(n)) - 1
      BY <1>6, <2>1, FS_RemoveElement
    <3> QED BY <2>2, <3>1, <3>2
  <2>4. posted'[n] = posted[n] + 1
    BY <1>5, <1>7
  <2>5. DueIsNew(n)'
    BY <1>1, <2>2 DEF NoticeSpaced, DueIsNew
  <2>6. HeldAreCounted(n)'
    BY <1>1, <1>2, <1>5, <1>6, <2>3, <2>4 DEF NoticeSpaced, HeldAreCounted
  <2>7. RoomToPost(n)'
    BY <1>1, <1>5, <1>6, <2>3, <2>4 DEF NoticeSpaced, RoomToPost
  <2> QED BY <2>5, <2>6, <2>7 DEF NoticeSpaced
<1>8. CASE n \notin DueNotices(c)
  <2>1. Holders(n)' = Holders(n) /\ Posters(n)' = Posters(n) /\ posted'[n] = posted[n]
    BY <1>4, <1>5, <1>8 DEF Holders, Posters
  <2> QED BY <1>1, <1>2, <2>1 DEF NoticeSpaced, DueIsNew, HeldAreCounted, RoomToPost
<1> QED BY <1>7, <1>8

LEMMA RollBackSpaced ==
  ASSUME AlertInv, NEW c \in Callers, RollBack(c), NEW n \in Notices
  PROVE NoticeSpaced(n)'
<1>1. AlertTypeOK /\ NoticeSpaced(n)
  BY DEF AlertInv
<1>2. /\ Move(c, Off) /\ UNCHANGED recent
      /\ posted' = [m \in Notices |-> IF m \in caller[c].own THEN posted[m] - 1 ELSE posted[m]]
  BY DEF RollBack
<1>3. Off.own = {} /\ Off.at = "idle"
  BY DEF Off
<1>4. Holders(n)' = Holders(n) \ {c} /\ Posters(n)' = Posters(n) \ {c}
  BY <1>1, <1>2, <1>3, CallerMoves
<1>5. /\ IsFiniteSet(Holders(n)) /\ IsFiniteSet(Posters(n))
      /\ Cardinality(Holders(n)) \in Nat /\ Cardinality(Posters(n)) \in Nat
      /\ Cardinality(Callers) \in Nat
  BY HoldersCount
<1>6. posted[n] \in Nat /\ posted'[n] = IF n \in caller[c].own THEN posted[n] - 1 ELSE posted[n]
  BY <1>1, <1>2 DEF AlertTypeOK
<1>7. DueIsNew(n)'
  BY <1>1, <1>4 DEF NoticeSpaced, DueIsNew
<1>8. /\ Cardinality(Posters(n)') <= Cardinality(Posters(n))
      /\ Cardinality(Posters(n)') \in Nat
  BY <1>4, <1>5, FS_Subset, FS_CardinalityType
<1>9. CASE n \in caller[c].own
  <2>1. c \in Holders(n)
    BY <1>9 DEF Holders
  <2>2. Cardinality(Holders(n)') = Cardinality(Holders(n)) - 1
    BY <1>4, <1>5, <2>1, FS_RemoveElement
  <2>3. posted'[n] = posted[n] - 1
    BY <1>6, <1>9
  <2>4. HeldAreCounted(n)'
    BY <1>1, <1>2, <1>5, <1>6, <2>2, <2>3 DEF NoticeSpaced, HeldAreCounted
  <2>5. RoomToPost(n)'
    BY <1>1, <1>5, <1>6, <1>8, <2>3 DEF NoticeSpaced, RoomToPost
  <2> QED BY <1>7, <2>4, <2>5 DEF NoticeSpaced
<1>10. CASE n \notin caller[c].own
  <2>1. Holders(n)' = Holders(n) /\ posted'[n] = posted[n]
    BY <1>4, <1>6, <1>10 DEF Holders
  <2>2. HeldAreCounted(n)'
    BY <1>1, <1>2, <2>1 DEF NoticeSpaced, HeldAreCounted
  <2>3. RoomToPost(n)'
    BY <1>1, <1>5, <1>6, <1>8, <2>1 DEF NoticeSpaced, RoomToPost
  <2> QED BY <1>7, <2>2, <2>3 DEF NoticeSpaced
<1> QED BY <1>9, <1>10

LEMMA CommitsSpaced ==
  ASSUME AlertInv, NEW c \in Callers, Commits(c), NEW n \in Notices
  PROVE NoticeSpaced(n)'
<1>1. AlertTypeOK /\ NoticeSpaced(n)
  BY DEF AlertInv
<1>2. /\ Move(c, Onward(c)) /\ UNCHANGED posted /\ recent' = recent \cup caller[c].own
      /\ caller[c].at = "route"
  BY DEF Commits, Routed
<1>3. Onward(c).own = {} /\ Onward(c).at # "post"
  BY DEF Onward, Off
<1>4. Holders(n)' = Holders(n) \ {c} /\ Posters(n)' = Posters(n)
  <2>1. Holders(n)' = Holders(n) \ {c} /\ Posters(n)' = Posters(n) \ {c}
    BY <1>1, <1>2, <1>3, CallerMoves
  <2>2. c \notin Posters(n)
    BY <1>2 DEF Posters
  <2> QED BY <2>1, <2>2
<1>5. /\ IsFiniteSet(Holders(n)) /\ Cardinality(Holders(n)) \in Nat
      /\ Cardinality(Holders(n)') <= Cardinality(Holders(n)) /\ Cardinality(Holders(n)') \in Nat
  BY <1>4, HoldersCount, FS_Subset, FS_CardinalityType
<1>6. posted[n] \in Nat
  BY <1>1 DEF AlertTypeOK
<1>7. n \notin recent' => n \notin recent /\ Holders(n)' = Holders(n)
  BY <1>2, <1>4 DEF Holders
<1>8. HeldAreCounted(n)'
  BY <1>1, <1>2, <1>5, <1>6, <1>7 DEF NoticeSpaced, HeldAreCounted
<1> QED BY <1>1, <1>2, <1>4, <1>8 DEF NoticeSpaced, DueIsNew, RoomToPost

LEMMA CooldownEndsSpaced ==
  ASSUME AlertInv, NEW m \in Notices, CooldownEnds(m), NEW n \in Notices
  PROVE NoticeSpaced(n)'
<1>1. AlertTypeOK /\ NoticeSpaced(n)
  BY DEF AlertInv
<1>2. Holders(n)' = Holders(n) /\ Posters(n)' = Posters(n)
  BY DEF CooldownEnds, Holders, Posters, DueNotices, Channel, Here
<1>3. CASE n = m
  <2>1. posted'[n] = Cardinality(Holders(n))
    BY <1>1, <1>3 DEF AlertTypeOK, CooldownEnds, Holders
  <2>2. RoomToPost(n)'
    BY <1>1, <1>2, <2>1, HoldersCount DEF NoticeSpaced, RoomToPost
  <2>3. HeldAreCounted(n)'
    BY <1>2, <2>1, HoldersCount DEF HeldAreCounted
  <2> QED BY <1>1, <1>2, <2>2, <2>3 DEF NoticeSpaced, DueIsNew
<1>4. CASE n # m
  BY <1>1, <1>2, <1>4 DEF AlertTypeOK, CooldownEnds, NoticeSpaced, DueIsNew, HeldAreCounted, RoomToPost
<1> QED BY <1>3, <1>4

LEMMA AlertTypesStep == AlertInv /\ [AlertNext]_alertVars => (AlertTypeOK /\ Placed)'
<1> SUFFICES ASSUME AlertInv, [AlertNext]_alertVars PROVE AlertTypeOK' /\ Placed'
  OBVIOUS
<1>0. AlertTypeOK /\ Placed /\ \A n \in Notices : HeldAreCounted(n)
  BY DEF AlertInv, NoticeSpaced
<1>t. /\ \A t \in AlertTenants : t \in Nat /\ t \in 1..t /\ 1 \in 1..t /\ 1..t \subseteq AlertTenants
      /\ (IF EvaluatorLimit < LastTenant THEN EvaluatorLimit ELSE LastTenant) \in AlertTenants
  BY AlertsAssumption DEF AlertsAssumption, AlertTenants
<1>n. /\ firing \in [AlertTenants -> SUBSET Codes] /\ enabled \subseteq AlertTenants
      /\ recent \subseteq Notices /\ posted \in [Notices -> Nat] /\ failures \in Nat
  BY <1>0 DEF AlertTypeOK
<1>c. \A c \in Callers :
        /\ caller[c] = [at |-> caller[c].at, tenant |-> caller[c].tenant, last |-> caller[c].last,
                       on |-> caller[c].on, alerts |-> caller[c].alerts,
                       route |-> caller[c].route, due |-> caller[c].due, own |-> caller[c].own]
        /\ caller[c].at \in {"idle", "tenant", "route", "post"}
        /\ caller[c].tenant \in Nat /\ caller[c].last \in Nat /\ caller[c].route \in Nat
        /\ caller[c].on \subseteq AlertTenants /\ caller[c].alerts \subseteq Codes
        /\ caller[c].due \subseteq Codes /\ caller[c].own \subseteq Notices
  BY <1>0 DEF AlertTypeOK, AlertRecord
<1>r. \A c \in Callers : caller[c] \in AlertRecord
  BY <1>0 DEF AlertTypeOK
<1>h. ASSUME NEW c \in Callers, caller[c].at # "idle"
      PROVE Here(c) \in 1..caller[c].last /\ caller[c].last \in AlertTenants /\ Here(c) \in AlertTenants
  BY <1>0, <1>h, <1>t DEF Placed
<1>1. CASE UNCHANGED alertVars
  BY <1>0, <1>1 DEF alertVars, AlertTypeOK, Placed, Here
<1>2. ASSUME NEW t \in AlertTenants, SetPolicy(t) \/ \E code \in Codes : Fires(t, code)
      PROVE AlertTypeOK' /\ Placed'
  <2>1. CASE SetPolicy(t)
    BY <1>0, <1>n, <2>1 DEF SetPolicy, AlertTypeOK, Placed, Here
  <2>2. CASE \E code \in Codes : Fires(t, code)
    <3>1. firing' \in [AlertTenants -> SUBSET Codes]
      BY <1>n, <2>2 DEF Fires
    <3>2. UNCHANGED <<enabled, recent, posted, caller, failures>>
      BY <2>2 DEF Fires
    <3> QED BY <1>0, <3>1, <3>2 DEF AlertTypeOK, Placed, Here
  <2> QED BY <1>2, <2>1, <2>2
<1>3. ASSUME NEW n \in Notices, CooldownEnds(n) PROVE AlertTypeOK' /\ Placed'
  <2>1. Cardinality({c \in Callers : n \in caller[c].own}) \in Nat
    BY HoldersCount DEF Holders
  <2> QED BY <1>0, <1>3, <2>1 DEF CooldownEnds, AlertTypeOK, Placed, Here
<1>4. ASSUME NEW c \in Callers, NEW STATE to, Move(c, to), to \in AlertRecord,
             to.at \in {"idle", "tenant"} => to.own = {},
             to.at # "idle" => to.tenant \in 1..to.last /\ to.last \in AlertTenants,
             to.at \in {"route", "post"} => to.route \in Nat \ {0},
             to.at = "post" => to.route <= Len(Routes[to.tenant])
      PROVE Placed' /\ caller' \in [Callers -> AlertRecord]
  BY <1>0, <1>4 DEF Move, AlertTypeOK, Placed, Here
<1>5. Off \in AlertRecord /\ Off.at = "idle" /\ Off.own = {}
  BY DEF Off, AlertRecord
<1>6. ASSUME NEW c \in Callers, Evaluation(c) PROVE AlertTypeOK' /\ Placed'
  <2> DEFINE to == [Off EXCEPT !.at = "tenant", !.tenant = 1, !.on = enabled,
                               !.last = IF EvaluatorLimit < LastTenant THEN EvaluatorLimit
                                        ELSE LastTenant]
  <2>1. /\ to \in AlertRecord /\ to.at = "tenant" /\ to.own = {}
        /\ to.tenant \in 1..to.last /\ to.last \in AlertTenants
    BY <1>n, <1>t DEF Off, AlertRecord
  <2>2. Move(c, to) /\ UNCHANGED <<broken, firing, enabled, recent, posted, failures>>
    BY <1>6 DEF Evaluation
  <2>3. Placed' /\ caller' \in [Callers -> AlertRecord]
    <3> HIDE DEF to
    <3> QED BY <1>4, <2>1, <2>2
  <2> QED BY <1>0, <2>2, <2>3 DEF AlertTypeOK
<1>7. ASSUME NEW c \in Callers, NEW t \in AlertTenants, Delivery(c, t) PROVE AlertTypeOK' /\ Placed'
  <2> DEFINE to == [Off EXCEPT !.at = "tenant", !.tenant = t, !.on = enabled \cap {t},
                               !.last = t]
  <2>1. /\ to \in AlertRecord /\ to.at = "tenant" /\ to.own = {}
        /\ to.tenant \in 1..to.last /\ to.last \in AlertTenants
    BY <1>n, <1>t DEF Off, AlertRecord
  <2>2. Move(c, to) /\ UNCHANGED <<broken, firing, enabled, recent, posted, failures>>
    BY <1>7 DEF Delivery
  <2>3. Placed' /\ caller' \in [Callers -> AlertRecord]
    <3> HIDE DEF to
    <3> QED BY <1>4, <2>1, <2>2
  <2> QED BY <1>0, <2>2, <2>3 DEF AlertTypeOK
<1>8. ASSUME NEW c \in Callers, caller[c].at # "idle"
      PROVE /\ Onward(c) \in AlertRecord /\ Onward(c).at \in {"idle", "tenant"}
            /\ Onward(c).own = {}
            /\ Onward(c).at # "idle" => /\ Onward(c).tenant \in 1..Onward(c).last
                                       /\ Onward(c).last \in AlertTenants
  <2>1. CASE Here(c) = caller[c].last
    BY <1>5, <2>1 DEF Onward
  <2>2. CASE Here(c) # caller[c].last
    <3>0. \A h, l \in Nat : h \in 1..l /\ h # l => h + 1 \in 1..l /\ h + 1 \in Nat
      OBVIOUS
    <3>1. Here(c) + 1 \in 1..caller[c].last /\ Here(c) + 1 \in Nat
      <4>1. Here(c) \in Nat /\ caller[c].last \in Nat
        BY <1>c DEF Here
      <4>2. Here(c) \in 1..caller[c].last
        BY <1>8, <1>h
      <4> QED BY <2>2, <3>0, <4>1, <4>2
    <3>2. Onward(c) = [Off EXCEPT !.at = "tenant", !.tenant = Here(c) + 1,
                                  !.last = caller[c].last, !.on = caller[c].on \ {Here(c)}]
      BY <2>2 DEF Onward
    <3>3. /\ caller[c].last \in Nat /\ caller[c].last \in AlertTenants
          /\ caller[c].on \ {Here(c)} \subseteq AlertTenants
      BY <1>8, <1>h, <1>c
    <3>4. Onward(c) = [at |-> "tenant", tenant |-> Here(c) + 1, last |-> caller[c].last,
                       on |-> caller[c].on \ {Here(c)}, alerts |-> {}, route |-> 0,
                       due |-> {}, own |-> {}]
      BY <3>2 DEF Off
    <3> QED BY <3>1, <3>3, <3>4 DEF AlertRecord
  <2> QED BY <2>1, <2>2
<1>9. ASSUME NEW c \in Callers, Passes(c) PROVE AlertTypeOK' /\ Placed'
  <2>1. /\ Move(c, Onward(c)) /\ caller[c].at = "tenant"
        /\ UNCHANGED <<broken, firing, enabled, recent, posted, failures>>
    BY <1>9 DEF Passes
  <2>2. Placed' /\ caller' \in [Callers -> AlertRecord]
    BY <1>4, <1>8, <2>1
  <2> QED BY <1>0, <2>1, <2>2 DEF AlertTypeOK
<1>10. ASSUME NEW c \in Callers, Previews(c) PROVE AlertTypeOK' /\ Placed'
  <2> DEFINE to == [caller[c] EXCEPT !.at = "route", !.alerts = firing[Here(c)], !.route = 1,
                                     !.on = @ \ {Here(c)}]
  <2>1. /\ Move(c, to) /\ caller[c].at = "tenant"
        /\ UNCHANGED <<broken, firing, enabled, recent, posted, failures>>
    BY <1>10 DEF Previews
  <2>2. /\ to \in AlertRecord /\ to.at = "route" /\ to.route = 1
        /\ to.tenant \in 1..to.last /\ to.last \in AlertTenants
    <3>1. firing[Here(c)] \subseteq Codes
      BY <1>h, <1>n, <2>1
    <3>2. /\ to \in AlertRecord /\ to.at = "route" /\ to.route = 1
          /\ to.tenant = Here(c) /\ to.last = caller[c].last
      BY <1>r, <3>1 DEF AlertRecord, Here
    <3>3. Here(c) \in Nat /\ Here(c) \in 1..caller[c].last /\ caller[c].last \in AlertTenants
      BY <1>c, <1>h, <2>1 DEF Here
    <3> HIDE DEF to
    <3> QED BY <3>2, <3>3
  <2>3. Placed' /\ caller' \in [Callers -> AlertRecord]
    <3> HIDE DEF to
    <3> QED BY <1>4, <2>1, <2>2
  <2> QED BY <1>0, <2>1, <2>3 DEF AlertTypeOK
<1>11. ASSUME NEW c \in Callers, Checks(c) PROVE AlertTypeOK' /\ Placed'
  <2> DEFINE due == {code \in caller[c].alerts : ~CoolingDown(c, <<Channel(c), code>>)}
             to == IF due = {} THEN [caller[c] EXCEPT !.route = @ + 1]
                   ELSE [caller[c] EXCEPT !.at = "post", !.due = due]
  <2>1. /\ Move(c, to) /\ caller[c].at = "route" /\ caller[c].route <= Len(Routes[Here(c)])
        /\ UNCHANGED <<broken, firing, enabled, recent, posted, failures>>
    BY <1>11 DEF Checks
  <2>2. due \subseteq Codes
    BY <1>c
  <2>3. /\ to \in AlertRecord /\ to.at \in {"route", "post"} /\ to.route \in Nat \ {0}
        /\ to.at = "post" => to.route <= Len(Routes[to.tenant])
        /\ to.tenant \in 1..to.last /\ to.last \in AlertTenants
    <3> HIDE DEF due
    <3>1. /\ to \in AlertRecord /\ to.at \in {caller[c].at, "post"}
          /\ to.tenant = Here(c) /\ to.last = caller[c].last
          /\ to.route \in {caller[c].route, caller[c].route + 1}
          /\ to.at = "post" => to.route = caller[c].route
      <4>1. CASE due = {}
        BY <1>r, <2>1, <4>1 DEF AlertRecord, Here
      <4>2. CASE due # {}
        BY <1>r, <2>1, <2>2, <4>2 DEF AlertRecord, Here
      <4> QED BY <4>1, <4>2
    <3>2. /\ Here(c) \in Nat /\ Here(c) \in 1..caller[c].last /\ caller[c].last \in AlertTenants
          /\ caller[c].route \in Nat \ {0} /\ caller[c].route + 1 \in Nat \ {0}
      BY <1>0, <1>c, <1>h, <2>1 DEF Placed, Here
    <3> HIDE DEF to
    <3> QED BY <2>1, <3>1, <3>2
  <2>4. Placed' /\ caller' \in [Callers -> AlertRecord]
    <3> HIDE DEF to
    <3> QED BY <1>4, <2>1, <2>3
  <2> QED BY <1>0, <2>1, <2>4 DEF AlertTypeOK
<1>12. ASSUME NEW c \in Callers, Posts(c) PROVE AlertTypeOK' /\ Placed'
  <2> DEFINE to == [caller[c] EXCEPT !.at = "route", !.route = @ + 1, !.due = {},
                                     !.own = @ \cup DueNotices(c)]
  <2>1. /\ Move(c, to) /\ caller[c].at = "post"
        /\ UNCHANGED <<broken, firing, enabled, recent, failures>>
        /\ posted' = [n \in Notices |-> posted[n] + IF n \in DueNotices(c) THEN 1 ELSE 0]
    BY <1>12 DEF Posts
  <2>2. DueNotices(c) \subseteq Notices
    BY <1>0, <2>1, DueAreNotices
  <2>3. /\ to \in AlertRecord /\ to.at = "route" /\ to.route \in Nat \ {0}
        /\ to.tenant \in 1..to.last /\ to.last \in AlertTenants
    <3>2. /\ Here(c) \in Nat /\ Here(c) \in 1..caller[c].last /\ caller[c].last \in AlertTenants
          /\ caller[c].route + 1 \in Nat \ {0}
      <4>1. Here(c) \in Nat /\ caller[c].route \in Nat
        BY <1>c DEF Here
      <4>2. Here(c) \in 1..caller[c].last /\ caller[c].last \in AlertTenants
        BY <1>h, <2>1
      <4> QED BY <4>1, <4>2
    <3>3. caller[c].own \cup DueNotices(c) \subseteq Notices
      BY <1>c, <2>2
    <3>4. /\ to \in AlertRecord /\ to.at = "route" /\ to.route = caller[c].route + 1
          /\ to.tenant = Here(c) /\ to.last = caller[c].last
      BY <1>r, <3>2, <3>3 DEF AlertRecord, Here
    <3> HIDE DEF to
    <3> QED BY <3>2, <3>4
  <2>4. Placed' /\ caller' \in [Callers -> AlertRecord]
    <3> HIDE DEF to
    <3> QED BY <1>4, <2>1, <2>3
  <2> QED BY <1>0, <2>1, <2>4 DEF AlertTypeOK
<1>13. ASSUME NEW c \in Callers, RollBack(c), failures' \in Nat, UNCHANGED <<broken>>
       PROVE AlertTypeOK' /\ Placed'
  <2>1. /\ Move(c, Off) /\ UNCHANGED <<firing, enabled, recent>>
        /\ posted' = [n \in Notices |->
                         IF n \in caller[c].own THEN posted[n] - 1 ELSE posted[n]]
    BY <1>13 DEF RollBack
  <2>2. ASSUME NEW n \in Notices, n \in caller[c].own PROVE posted[n] - 1 \in Nat
    <3>1. c \in Holders(n)
      BY <2>2 DEF Holders
    <3>2. Cardinality(Holders(n)) # 0
      BY <3>1, HoldersCount, FS_EmptySet
    <3>3. posted[n] \in Nat /\ posted[n] >= Cardinality(Holders(n))
      BY <1>0 DEF AlertTypeOK, HeldAreCounted
    <3> QED BY <3>2, <3>3, HoldersCount
  <2>3. Placed' /\ caller' \in [Callers -> AlertRecord]
    BY <1>4, <1>5, <2>1
  <2>4. posted' \in [Notices -> Nat]
    BY <1>n, <2>1, <2>2
  <2> QED BY <1>0, <1>13, <2>1, <2>3, <2>4 DEF AlertTypeOK
<1>14. ASSUME NEW c \in Callers, Chokes(c) \/ Breaks(c) PROVE AlertTypeOK' /\ Placed'
  <2>1. RollBack(c) /\ failures' \in Nat
    BY <1>0, <1>14 DEF Chokes, Breaks, AlertTypeOK
  <2> QED BY <1>13, <2>1 DEF RollBack
<1>15. ASSUME NEW c \in Callers, Commits(c) PROVE AlertTypeOK' /\ Placed'
  <2>1. /\ Move(c, Onward(c)) /\ caller[c].at = "route"
        /\ UNCHANGED <<broken, firing, enabled, posted, failures>>
        /\ recent' = recent \cup caller[c].own
    BY <1>15 DEF Commits, Routed
  <2>2. Placed' /\ caller' \in [Callers -> AlertRecord]
    BY <1>4, <1>8, <2>1
  <2>3. recent' \subseteq Notices
    BY <1>c, <1>n, <2>1
  <2> QED BY <1>n, <2>1, <2>2, <2>3 DEF AlertTypeOK
<1> QED BY <1>1, <1>2, <1>3, <1>6, <1>7, <1>9, <1>10, <1>11, <1>12, <1>14, <1>15
        DEF AlertNext, Works

LEMMA NoticesSpacedStep == AlertInv /\ [AlertNext]_alertVars => \A n \in Notices : NoticeSpaced(n)'
<1> SUFFICES ASSUME AlertInv, [AlertNext]_alertVars PROVE \A n \in Notices : NoticeSpaced(n)'
  OBVIOUS
<1>0. AlertTypeOK /\ Placed /\ \A n \in Notices : NoticeSpaced(n)
  BY DEF AlertInv
<1>1. CASE UNCHANGED <<recent, posted, caller>>
  BY <1>0, <1>1 DEF NoticeSpaced, DueIsNew, HeldAreCounted, RoomToPost, Holders, Posters, DueNotices,
     Channel, Here
<1>2. ASSUME NEW t \in AlertTenants, SetPolicy(t) \/ \E code \in Codes : Fires(t, code)
      PROVE UNCHANGED <<recent, posted, caller>>
  BY <1>2 DEF SetPolicy, Fires
<1>3. ASSUME NEW c \in Callers, Evaluation(c) \/ \E t \in AlertTenants : Delivery(c, t)
      PROVE \A n \in Notices : NoticeSpaced(n)'
  <2>1. \E to :
          /\ Move(c, to) /\ to.own = {} /\ to.at = "tenant"
          /\ caller[c].at = "idle" /\ UNCHANGED <<recent, posted>>
    <3>1. CASE Evaluation(c)
      BY <3>1 DEF Evaluation, Off
    <3>2. CASE \E t \in AlertTenants : Delivery(c, t)
      BY <3>2 DEF Delivery, Off
    <3> QED BY <1>3, <3>1, <3>2
  <2>2. caller[c].own = {}
    BY <1>0, <2>1 DEF Placed
  <2> QED BY <2>1, <2>2, QuietMove
<1>4. ASSUME NEW c \in Callers, Passes(c) PROVE \A n \in Notices : NoticeSpaced(n)'
  <2>1. Move(c, Onward(c)) /\ caller[c].at = "tenant" /\ UNCHANGED <<recent, posted>>
    BY <1>4 DEF Passes
  <2>2. Onward(c).own = {} /\ Onward(c).at # "post"
    BY DEF Onward, Off
  <2>3. caller[c].own = {}
    BY <1>0, <2>1 DEF Placed
  <2> QED BY <2>1, <2>2, <2>3, QuietMove
<1>5. ASSUME NEW c \in Callers, Previews(c) PROVE \A n \in Notices : NoticeSpaced(n)'
  <2> DEFINE to == [caller[c] EXCEPT !.at = "route", !.alerts = firing[Here(c)], !.route = 1,
                                     !.on = @ \ {Here(c)}]
  <2>1. Move(c, to) /\ caller[c].at = "tenant" /\ UNCHANGED <<recent, posted>>
    BY <1>5 DEF Previews
  <2>2. to.own = caller[c].own /\ to.at = "route"
    BY <1>0 DEF AlertTypeOK, AlertRecord
  <2> HIDE DEF to
  <2> QED BY <2>1, <2>2, QuietMove
<1>6. ASSUME NEW c \in Callers, Chokes(c) \/ Breaks(c) PROVE RollBack(c)
  BY <1>6 DEF Chokes, Breaks
<1> QED BY <1>1, <1>2, <1>3, <1>4, <1>5, <1>6, ChecksSpaced, PostsSpaced, RollBackSpaced,
           CommitsSpaced, CooldownEndsSpaced DEF AlertNext, Works, alertVars

LEMMA AlertInvInit == AlertInit => AlertInv
<1> SUFFICES ASSUME AlertInit PROVE AlertInv
  OBVIOUS
<1>1. AlertTypeOK /\ Placed
  BY AlertsAssumption DEF AlertsAssumption, AlertInit, AlertTypeOK, AlertRecord, Placed, Off
<1>2. ASSUME NEW n \in Notices PROVE NoticeSpaced(n)
  <2>1. Holders(n) = {} /\ Posters(n) = {} /\ posted[n] = 0
    BY <1>2 DEF AlertInit, Off, Holders, Posters
  <2>2. Cardinality({}) = 0
    BY FS_EmptySet
  <2> QED BY <2>1, <2>2, HoldersCount DEF NoticeSpaced, DueIsNew, HeldAreCounted, RoomToPost
<1> QED BY <1>1, <1>2 DEF AlertInv

LEMMA AlertInvStep == AlertInv /\ [AlertNext]_alertVars => AlertInv'
<1> SUFFICES ASSUME AlertInv, [AlertNext]_alertVars PROVE AlertInv'
  OBVIOUS
<1>1. AlertTypeOK' /\ Placed'
  BY AlertTypesStep
<1>2. Notices' = Notices
  OBVIOUS
<1> QED BY <1>1, <1>2, NoticesSpacedStep DEF AlertInv

\* The alerts, the audit rows and the callers keep their types.
THEOREM AlertsTypeCorrect == AlertSpec => []AlertTypeOK
<1>1. AlertInv => AlertTypeOK
  BY DEF AlertInv
<1> QED BY AlertInvInit, AlertInvStep, <1>1, PTL DEF AlertSpec

\* Within a cooldown the posts of a notice by deliver_dispatch_alerts that left a
\* row, or still may, are no more than its callers, whatever these commit or lose.
THEOREM PostsAlwaysSpaced == AlertSpec => []PostsAreSpaced
<1>1. AlertInv => PostsAreSpaced
  <2> SUFFICES ASSUME AlertInv, NEW n \in Notices
               PROVE posted[n] <= Cardinality(Callers)
    BY DEF PostsAreSpaced
  <2>1. posted[n] \in Nat /\ RoomToPost(n)
    BY DEF AlertInv, AlertTypeOK, NoticeSpaced
  <2> QED BY <2>1, HoldersCount DEF RoomToPost
<1> QED BY AlertInvInit, AlertInvStep, <1>1, PTL DEF AlertSpec

----------------------------------------------------------------------------
(* The scheduler of dispatch automation *)

\* A session that has loaded nothing has the configurations of a tenant's type.
LEMMA UnreadType == Unread \in [Tenants -> Configs]
<1>1. \E cfg : cfg \in Configs
  <2>1. PICK i : i \in Intervals
    BY LeaseAssumption DEF LeaseAssumption
  <2>2. [enabled |-> TRUE, interval |-> i] \in Configs
    BY <2>1 DEF Configs
  <2> QED BY <2>2
<1> QED BY <1>1 DEF Unread

\* A connection that goes back to the pool leaves the lock where it is, unless it
\* is lost with it.
LEMMA ReturnKeepsLock ==
  ASSUME NEW STATE c, Return(c), lost \in BOOLEAN, depth \in Nat,
         holder \in Conns \cup {NoConn}, LockCounted
  PROVE  /\ lost' \in BOOLEAN /\ depth' \in Nat /\ holder' \in Conns \cup {NoConn}
         /\ LockCounted'
         /\ lost' \/ (~lost /\ holder' = holder)
<1>1. CASE UNCHANGED lockVars
  BY <1>1 DEF lockVars, LockCounted
<1>2. CASE holder = c /\ holder' = NoConn /\ depth' = 0 /\ lost' = TRUE
  BY <1>2 DEF LockCounted
<1> QED BY <1>1, <1>2 DEF Return

\* An unlock frees the lock or leaves it with its connection.
LEMMA UnlockKeepsLock ==
  ASSUME NEW STATE c, c \in Conns, Unlock(c), lost \in BOOLEAN, depth \in Nat,
         holder \in Conns \cup {NoConn}, LockCounted
  PROVE  /\ lost' = lost /\ depth' \in Nat /\ holder' \in Conns \cup {NoConn}
         /\ LockCounted'
         /\ holder' = holder \/ (holder = c /\ holder' = NoConn)
<1>1. CASE holder = c
  <2>1. depth # 0
    BY <1>1, LeaseAssumption DEF LockCounted, LeaseAssumption
  <2> QED BY <1>1, <2>1 DEF Unlock, LockCounted
<1>2. CASE holder # c
  BY <1>2 DEF Unlock, lockVars, LockCounted
<1> QED BY <1>1, <1>2

THEOREM InvInit == Init => IInv
<1> SUFFICES ASSUME Init PROVE IInv
  OBVIOUS
<1>1. TypeOK
  BY UnreadType DEF Init, TypeOK, Working
<1>2. LeaderHasLock /\ LockCounted
  BY DEF Init, LeaderHasLock, LockCounted, Evaluating
<1> QED BY <1>1, <1>2 DEF IInv

\* Every step keeps the types, and the lock where an evaluation needs it.
THEOREM InvStep == IInv /\ [Next]_vars => IInv'
<1> SUFFICES ASSUME IInv, [Next]_vars PROVE IInv'
  OBVIOUS
<1>0. TypeOK /\ LeaderHasLock /\ LockCounted
  BY DEF IInv
<1> USE LeaseAssumption DEF LeaseAssumption
<1>1. CASE UNCHANGED vars
  BY <1>0, <1>1 DEF vars, tenantVars, lockVars, evalVars, IInv, TypeOK, LeaderHasLock,
     LockCounted, Evaluating
<1>2. ASSUME NEW p \in Processes, NEW c \in Conns, TryLock(p, c)
      PROVE  IInv'
  <2>1. TypeOK'
    BY <1>0, <1>2 DEF TryLock, Lock, TypeOK, Goto, tenantVars, Working
  <2>2. LockCounted'
    BY <1>0, <1>2 DEF TryLock, Lock, TypeOK, LockCounted
  <2>3. \A q \in Processes : ~lost /\ Evaluating(q) => q = p
    BY <1>0, <1>2 DEF TryLock, Lock, LeaderHasLock, Evaluating
  <2>4. /\ lost' = lost /\ holder' = c /\ c \in ConnsOf[p]
        /\ \A q \in Processes : q # p => pc'[q] = pc[q]
    BY <1>0, <1>2 DEF TryLock, Lock, TypeOK, Goto
  <2>5. LeaderHasLock'
    BY <2>3, <2>4 DEF LeaderHasLock, Evaluating
  <2> QED BY <2>1, <2>2, <2>5 DEF IInv
<1>3. ASSUME NEW p \in Processes, NEW t \in Tenants, NextTenant(p, t)
      PROVE  IInv'
  <2>1. TypeOK'
    BY <1>0, <1>3 DEF NextTenant, TypeOK, Goto, tenantVars, lockVars, Working
  <2>2. LockCounted' /\ LeaderHasLock'
    BY <1>0, <1>3 DEF NextTenant, TypeOK, Goto, lockVars, LockCounted, LeaderHasLock,
       Evaluating
  <2> QED BY <2>1, <2>2 DEF IInv
<1>4. ASSUME NEW p \in Processes, NEW c \in Conns \cup {NoConn}, RunCommits(p, c)
      PROVE  IInv'
  <2>1. Return(conn[p])
    BY <1>4 DEF RunCommits
  <2>2. /\ lost' \in BOOLEAN /\ depth' \in Nat /\ holder' \in Conns \cup {NoConn}
        /\ LockCounted'
        /\ lost' \/ (~lost /\ holder' = holder)
    BY <1>0, <2>1, ReturnKeepsLock DEF TypeOK
  <2>3. TypeOK'
    BY <1>0, <1>4, <2>2 DEF RunCommits, TypeOK, Goto, tenantVars, Working
  <2>4. \A q \in Processes : Evaluating(q)' => Evaluating(q)
    BY <1>0, <1>4 DEF RunCommits, TypeOK, Goto, Evaluating
  <2> QED BY <1>0, <2>2, <2>3, <2>4 DEF IInv, LeaderHasLock
<1>5. ASSUME NEW p \in Processes, NEW c \in Conns, Record(p, c)
      PROVE  IInv'
  <2>1. Return(conn[p]) \/ UNCHANGED lockVars
    BY <1>5 DEF Record
  <2>2. /\ lost' \in BOOLEAN /\ depth' \in Nat /\ holder' \in Conns \cup {NoConn}
        /\ LockCounted'
        /\ lost' \/ (~lost /\ holder' = holder)
    BY <1>0, <2>1, ReturnKeepsLock DEF TypeOK, Return
  <2>3. TypeOK'
    BY <1>0, <1>5, <2>2 DEF Record, TypeOK, Goto, Working
  <2>4. \A q \in Processes : Evaluating(q)' => Evaluating(q)
    BY <1>0, <1>5 DEF Record, TypeOK, Goto, Evaluating
  <2> QED BY <1>0, <2>2, <2>3, <2>4 DEF IInv, LeaderHasLock
<1>6. ASSUME NEW p \in Processes, RecordFails(p)
      PROVE  IInv'
  <2>1. Return(conn[p]) \/ UNCHANGED lockVars
    BY <1>6 DEF RecordFails
  <2>2. /\ lost' \in BOOLEAN /\ depth' \in Nat /\ holder' \in Conns \cup {NoConn}
        /\ LockCounted'
        /\ lost' \/ (~lost /\ holder' = holder)
    BY <1>0, <2>1, ReturnKeepsLock DEF TypeOK, Return
  <2>3. TypeOK'
    BY <1>0, <1>6, <2>2 DEF RecordFails, TypeOK, Goto, tenantVars, Working
  <2>4. \A q \in Processes : Evaluating(q)' => Evaluating(q)
    BY <1>0, <1>6 DEF RecordFails, TypeOK, Goto, Evaluating
  <2> QED BY <1>0, <2>2, <2>3, <2>4 DEF IInv, LeaderHasLock
<1>7. ASSUME NEW p \in Processes, NEW c \in Conns, Release(p, c)
      PROVE  IInv'
  <2>1. Unlock(c) /\ c \in ConnsOf[p]
    BY <1>0, <1>7 DEF Release, TypeOK
  <2>2. /\ lost' = lost /\ depth' \in Nat /\ holder' \in Conns \cup {NoConn}
        /\ LockCounted'
        /\ holder' = holder \/ (holder = c /\ holder' = NoConn)
    BY <1>0, <2>1, UnlockKeepsLock DEF TypeOK
  <2>3. Evaluating(p) /\ ~Evaluating(p)'
    BY <1>0, <1>7 DEF Release, Close, Goto, Evaluating, TypeOK
  <2>4. TypeOK'
    BY <1>0, <1>7, <2>2, UnreadType DEF Release, Close, TypeOK, Goto, tenantVars, Working
  <2>5. \A q \in Processes : Evaluating(q)' => Evaluating(q) /\ q # p
    BY <1>0, <1>7, <2>3 DEF Release, Close, TypeOK, Goto, Evaluating
  <2>6. ASSUME ~lost' PROVE \A q \in Processes : ~Evaluating(q)'
    BY <1>0, <2>2, <2>3, <2>5, <2>6 DEF LeaderHasLock
  <2> QED BY <2>2, <2>4, <2>6 DEF IInv, LeaderHasLock
<1>8. ASSUME NEW p \in Processes, Abandon(p)
      PROVE  IInv'
  <2>1. Return(conn[p]) \/ UNCHANGED lockVars
    BY <1>8 DEF Abandon
  <2>2. /\ lost' \in BOOLEAN /\ depth' \in Nat /\ holder' \in Conns \cup {NoConn}
        /\ LockCounted'
        /\ lost' \/ (~lost /\ holder' = holder)
    BY <1>0, <2>1, ReturnKeepsLock DEF TypeOK, Return
  <2>3. TypeOK'
    BY <1>0, <1>8, <2>2, UnreadType DEF Abandon, Close, TypeOK, Goto, tenantVars, Working
  <2>4. \A q \in Processes : Evaluating(q)' => Evaluating(q)
    BY <1>0, <1>8 DEF Abandon, Close, TypeOK, Goto, Evaluating
  <2> QED BY <1>0, <2>2, <2>3, <2>4 DEF IInv, LeaderHasLock
<1>9. ASSUME NEW p \in Processes, Die(p)
      PROVE  IInv'
  <2>1. TypeOK'
    BY <1>0, <1>9, UnreadType DEF Die, Close, TypeOK, Goto, tenantVars, Working
  <2>2. LockCounted'
    BY <1>0, <1>9 DEF Die, LockCounted
  <2>3. /\ lost' = lost
        /\ holder' = holder \/ holder \in ConnsOf[p]
        /\ \A q \in Processes : Evaluating(q)' => Evaluating(q) /\ q # p
    BY <1>0, <1>9 DEF Die, Close, TypeOK, Goto, Evaluating
  <2>4. LeaderHasLock'
    BY <1>0, <2>3 DEF LeaderHasLock
  <2> QED BY <2>1, <2>2, <2>4 DEF IInv
<1>10. ASSUME NEW t \in Tenants, NEW cfg \in Configs, SetConfig(t, cfg)
       PROVE  IInv'
  BY <1>0, <1>10 DEF SetConfig, lockVars, evalVars, IInv, TypeOK, LeaderHasLock,
     LockCounted, Evaluating
<1>11. CASE Advance
  <2>1. age' \in [Tenants -> Nat]
    BY <1>0, <1>11 DEF Advance, TypeOK
  <2>2. since' \in [Processes -> Nat]
    BY <1>0, <1>11 DEF Advance, TypeOK
  <2> QED BY <1>0, <1>11, <2>1, <2>2 DEF Advance, lockVars, IInv, TypeOK, LeaderHasLock,
         LockCounted, Evaluating
<1> QED BY <1>1, <1>2, <1>3, <1>4, <1>5, <1>6, <1>7, <1>8, <1>9, <1>10, <1>11
       DEF Next, Evaluate

\* Two processes that evaluate both have the lock: the pools share no connection.
LEMMA OneLeader == IInv => OneEvaluation
BY LeaseAssumption DEF IInv, LeaderHasLock, OneEvaluation, LeaseAssumption

\* The database and the sessions keep their types in every behaviour.
THEOREM LeaseTypeCorrect == Spec => []TypeOK
<1>1. IInv => TypeOK
  BY DEF IInv
<1> QED BY <1>1, InvInit, InvStep, PTL DEF Spec

\* However many processes run the scheduler, and whatever fails, two never evaluate
\* at once before the pool has closed the connection that has the lock.
THEOREM OneEvaluationHolds == Spec => []OneEvaluation
BY InvInit, InvStep, OneLeader, PTL DEF Spec

\* A step leaves alone what is spaced, except that a tenant is found due or recorded.
LEMMA SpacedStep ==
  ASSUME IInv, RunsAreSpaced, [Next]_vars
  PROVE  RunsAreSpaced'
<1> SUFFICES ASSUME ~lost', NEW q \in Processes PROVE Spaced(q)'
  BY DEF RunsAreSpaced
<1>0. TypeOK
  BY DEF IInv
<1>1. OneEvaluation
  BY OneLeader
<1> USE LeaseAssumption DEF LeaseAssumption
<1>2. CASE UNCHANGED vars
  BY <1>2 DEF vars, tenantVars, lockVars, evalVars, RunsAreSpaced, Spaced
<1>3. ASSUME NEW p \in Processes, NEW c \in Conns, TryLock(p, c)
      PROVE  Spaced(q)'
  BY <1>0, <1>3 DEF TryLock, Lock, TypeOK, Goto, tenantVars, RunsAreSpaced, Spaced, Working
<1>4. ASSUME NEW p \in Processes, NEW t \in Tenants, NextTenant(p, t)
      PROVE  Spaced(q)'
  <2>1. CASE q = p /\ Due(p, t)
    <3>1. cur'[p] = t /\ latest' = latest /\ age' = age /\ read' = read
      BY <1>0, <1>4 DEF NextTenant, TypeOK, tenantVars
    <3>2. read[p][t] \in Configs /\ age[t] \in Nat /\ since[p] \in Nat
      BY <1>0 DEF TypeOK
    <3>3. read[p][t].interval \in Nat /\ FailedBackoff \in Nat
      BY <3>2 DEF Configs, Waits
    <3>4. latest[t] = "none" \/ /\ age[t] - since[p] >= read[p][t].interval
                                /\ latest[t] = "failed" => age[t] - since[p] >= FailedBackoff
      BY <2>1, <3>2, <3>3 DEF Due, SkipReason
    <3> QED BY <2>1, <3>1, <3>2, <3>3, <3>4 DEF Spaced
  <2>2. CASE q = p /\ ~Due(p, t)
    BY <1>0, <1>4, <2>2 DEF NextTenant, TypeOK, Spaced, Working
  <2>3. CASE q # p
    BY <1>0, <1>4, <2>3 DEF NextTenant, TypeOK, Goto, tenantVars, lockVars, RunsAreSpaced,
       Spaced, Working
  <2> QED BY <2>1, <2>2, <2>3
<1>5. ASSUME NEW p \in Processes, NEW c \in Conns \cup {NoConn}, RunCommits(p, c)
      PROVE  Spaced(q)'
  <2>1. ~lost
    BY <1>5 DEF RunCommits, Return, lockVars
  <2>2. Spaced(q)
    BY <2>1 DEF RunsAreSpaced
  <2> QED BY <1>0, <1>5, <2>2 DEF RunCommits, TypeOK, Goto, tenantVars, Spaced, Working
<1>6. ASSUME NEW p \in Processes, NEW c \in Conns, Record(p, c)
      PROVE  Spaced(q)'
  <2>1. ~lost
    BY <1>6 DEF Record, Return, lockVars
  <2>2. Evaluating(p) /\ pc'[p] = "scan"
    BY <1>0, <1>6 DEF Record, TypeOK, Goto, Evaluating
  <2>3. CASE q # p
    <3>1. ~Evaluating(q)
      BY <1>1, <2>1, <2>2, <2>3 DEF OneEvaluation
    <3> QED BY <1>0, <1>6, <2>3, <3>1 DEF Record, TypeOK, Goto, Evaluating, Spaced, Working
  <2> QED BY <2>2, <2>3 DEF Spaced, Working
<1>7. ASSUME NEW p \in Processes, RecordFails(p)
      PROVE  Spaced(q)'
  <2>1. ~lost
    BY <1>7 DEF RecordFails, Return, lockVars
  <2>2. Spaced(q)
    BY <2>1 DEF RunsAreSpaced
  <2> QED BY <1>0, <1>7, <2>2 DEF RecordFails, TypeOK, Goto, tenantVars, Spaced, Working
<1>8. ASSUME NEW p \in Processes, UNCHANGED tenantVars, Close(p), lost => lost'
      PROVE  Spaced(q)'
  <2>1. Spaced(q)
    BY <1>8 DEF RunsAreSpaced
  <2> QED BY <1>0, <1>8, <2>1 DEF Close, TypeOK, Goto, tenantVars, Spaced, Working
<1>9. ASSUME NEW p \in Processes, NEW c \in Conns, Release(p, c)
      PROVE  Spaced(q)'
  BY <1>8, <1>9 DEF Release, Unlock, lockVars
<1>10. ASSUME NEW p \in Processes, Abandon(p)
       PROVE  Spaced(q)'
  BY <1>8, <1>10 DEF Abandon, Return, lockVars
<1>11. ASSUME NEW p \in Processes, Die(p)
       PROVE  Spaced(q)'
  BY <1>8, <1>11 DEF Die
<1>12. ASSUME NEW t \in Tenants, NEW cfg \in Configs, SetConfig(t, cfg)
       PROVE  Spaced(q)'
  BY <1>12 DEF SetConfig, lockVars, evalVars, RunsAreSpaced, Spaced
<1>13. CASE Advance
  <2>1. Spaced(q) /\ UNCHANGED <<latest, pc, read, cur>>
    BY <1>13 DEF Advance, lockVars, RunsAreSpaced
  <2>2. pc[q] \in Working =>
          /\ cur[q] \in Tenants
          /\ age[cur[q]] \in Nat /\ age'[cur[q]] \in Nat /\ age'[cur[q]] >= age[cur[q]]
          /\ read[q][cur[q]].interval \in Nat /\ FailedBackoff \in Nat
    BY <1>0, <1>13 DEF Advance, TypeOK, Configs, Waits
  <2> QED BY <2>1, <2>2 DEF Spaced
<1> QED BY <1>2, <1>3, <1>4, <1>5, <1>6, <1>7, <1>9, <1>10, <1>11, <1>12, <1>13
       DEF Next, Evaluate

\* No tenant is run by the scheduler before its interval or back-off has passed since
\* the last scheduled run, whichever process made that.
THEOREM RunsAreSpacedHolds == Spec => []RunsAreSpaced
<1>1. Init => RunsAreSpaced
  BY DEF Init, RunsAreSpaced, Spaced, Working
<1> QED BY <1>1, InvInit, InvStep, SpacedStep, PTL DEF Spec

\* The rule of the scheduler and the rule of the diagnostics are one function of
\* the configuration, the last run and the time since.
LEMMA OneRule ==
  ASSUME NEW cfg \in Configs, NEW run \in {"none", "completed", "failed"},
         NEW elapsed \in Nat
  PROVE  SkipReason(cfg, run, elapsed) = DiagnosedReason(cfg, run, elapsed)
<1>1. cfg.enabled \in BOOLEAN /\ cfg.interval \in Nat /\ FailedBackoff \in Nat
  BY LeaseAssumption DEF LeaseAssumption, Configs, Waits
<1>2. CASE ~cfg.enabled
  BY <1>2 DEF SkipReason, DiagnosedReason
<1>3. CASE cfg.enabled /\ run = "none"
  BY <1>3 DEF SkipReason, DiagnosedReason
<1>4. CASE cfg.enabled /\ run = "completed"
  BY <1>1, <1>4 DEF SkipReason, DiagnosedReason
<1>5. CASE cfg.enabled /\ run = "failed"
  BY <1>1, <1>5 DEF SkipReason, DiagnosedReason
<1> QED BY <1>1, <1>2, <1>3, <1>4, <1>5

\* The owner is told of every tenant what the scheduler will do with it, for every
\* interval and back-off and at any time.
THEOREM DiagnosticsAlwaysAgree == Spec => []DiagnosticsAgree
<1>1. IInv => DiagnosticsAgree
  <2> SUFFICES ASSUME IInv, NEW t \in Tenants
               PROVE  SkipReason(config[t], latest[t], age[t])
                        = DiagnosedReason(config[t], latest[t], age[t])
    BY DEF DiagnosticsAgree, Fleet
  <2>1. /\ config[t] \in Configs /\ age[t] \in Nat
        /\ latest[t] \in {"none", "completed", "failed"}
    BY DEF IInv, TypeOK
  <2> QED BY <2>1, OneRule
<1> QED BY <1>1, InvInit, InvStep, PTL DEF Spec
=============================================================================
