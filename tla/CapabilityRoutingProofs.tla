---------------------- MODULE CapabilityRoutingProofs -----------------------
(***************************************************************************)
(* A local-only plan is proven local, only two sources together spoil a    *)
(* snapshot, and a plan is the best there is, for all sources, reports and *)
(* requests.  What a report's own check establishes outlives the probe     *)
(* because a report is never replaced and a plan is made when no report is *)
(* missing any more.  That the plan of the pinned request is the plan      *)
(* itself takes the router apart: the checks of a request do not look at   *)
(* where its route comes from, a pinned request passes no gate it did not  *)
(* pass before, and it gets a voice of the same id.  Of the reports only   *)
(* what their types say is assumed.                                        *)
(***************************************************************************)
EXTENDS CapabilityRouting, FiniteSetTheorems, TLAPS

ReportsChecked ==
  \A s \in DOMAIN snapshot \ {HostSource} :
    snapshot[s].status = "Succeeded" => ReportValid(s, snapshot[s].backends)

(* The plan is one of this snapshot, to which nothing is added any more.   *)
PlanIsCurrent ==
  plan # NoPlan => Probed /\ plan \in Plans(request, snapshot)

Routed == ReportsChecked /\ PlanIsCurrent

(* A report that counts as successful was checked by source_report.        *)
LEMMA SourceReportsAreChecked ==
  ASSUME NEW source, NEW backends, SourceReport(source, backends).status = "Succeeded"
  PROVE  ReportValid(source, SourceReport(source, backends).backends)
BY DEF SourceReport

(* Routed is inductive.                                                    *)
LEMMA RoutedInvariant == Spec => []Routed
<1>1. Init => Routed
  BY DEF Init, Routed, ReportsChecked, PlanIsCurrent
<1>2. Routed /\ [Next]_vars => Routed'
  <2> SUFFICES ASSUME Routed, [Next]_vars PROVE Routed'
    OBVIOUS
  <2>1. ASSUME NEW source, NEW report, AddReport(source, report),
               report.status = "Succeeded" => ReportValid(source, report.backends)
        PROVE  Routed'
    <3>1. plan = NoPlan /\ plan' = NoPlan
      BY <2>1 DEF Routed, PlanIsCurrent, Probed, AddReport
    <3>2. ReportsChecked'
      BY <2>1 DEF Routed, ReportsChecked, AddReport
    <3> QED BY <3>1, <3>2 DEF Routed, PlanIsCurrent
  <2>2. ASSUME NEW source \in Sources, Report(source) PROVE Routed'
    <3>1. PICK backends : AddReport(source, SourceReport(source, backends))
      BY <2>2 DEF Report
    <3> QED BY <3>1, <2>1, SourceReportsAreChecked
  <2>3. ASSUME NEW source \in Sources, ReportsNothing(source) PROVE Routed'
    <3>1. PICK status \in {"Failed", "TimedOut"} :
            AddReport(source, [status |-> status, backends |-> << >>])
      BY <2>3 DEF ReportsNothing
    <3> DEFINE report == [status |-> status, backends |-> << >>]
    <3>2. report.status # "Succeeded"
      OBVIOUS
    <3> HIDE DEF report
    <3> QED BY <3>1, <3>2, <2>1 DEF report
  <2>4. ASSUME NEW source \in Sources, Register(source) PROVE Routed'
    BY <2>4 DEF Routed, ReportsChecked, PlanIsCurrent, Register, Probed
  <2>5. CASE StartProbe
    BY <2>5 DEF Routed, ReportsChecked, PlanIsCurrent, StartProbe, Probed
  <2>6. CASE SystemChanges
    BY <2>6 DEF Routed, ReportsChecked, PlanIsCurrent, SystemChanges, Probed, Pending
  <2>10. CASE HostSnapshot
    <3>1. plan = NoPlan /\ plan' = NoPlan
      BY <2>10 DEF Routed, PlanIsCurrent, Probed, HostSnapshot
    <3>2. ReportsChecked'
      BY <2>10 DEF ReportsChecked, HostSnapshot
    <3> QED BY <3>1, <3>2 DEF Routed, PlanIsCurrent
  <2>7. CASE PlanRoute
    <3>1. Probed' /\ ReportsChecked'
      BY <2>7 DEF Routed, ReportsChecked, PlanRoute, Probed, Pending
    <3>2. plan' \in Plans(request', snapshot')
      BY <2>7 DEF PlanRoute
    <3> QED BY <3>1, <3>2 DEF Routed, PlanIsCurrent
  <2>8. CASE Speak
    BY <2>8 DEF Routed, ReportsChecked, PlanIsCurrent, Speak, Probed, Pending
  <2>9. CASE UNCHANGED vars
    BY <2>9 DEF Routed, ReportsChecked, PlanIsCurrent, vars, Probed, Pending
  <2> QED BY <2>2, <2>3, <2>4, <2>5, <2>6, <2>7, <2>8, <2>9, <2>10 DEF Next
<1> QED BY <1>1, <1>2, PTL DEF Spec

(* What is planned passed the gates: the selected route is that of a       *)
(* capability of the snapshot that every gate let through.                 *)
LEMMA SelectedIsAdmissible ==
  ASSUME NEW req, NEW snap, NEW p \in Plans(req, snap), p.result = "Planned"
  PROVE  \E at \in AdmissibleAt(req, snap) : p.selected = Selection(req, snap, at)
<1>1. p \in Finalize(Candidates(req, snap), Rejections(req, snap))
  BY DEF Plans
<1>2. p.selected \in Candidates(req, snap)
  BY <1>1 DEF Finalize, Least
<1> QED BY <1>2 DEF Candidates

(* The gates on privacy, from the list of all the gates.                   *)
LEMMA LocalOnlyGates ==
  ASSUME NEW req, NEW backend, NEW capability, req.privacy = "LocalOnly",
         Passes(CommonGates(req, backend, capability))
  PROVE  /\ backend.readiness = "Ready" /\ backend.kind # "Hosted"
         /\ EligibleForLocalOnly(capability)
<1> DEFINE gates == CommonGates(req, backend, capability)
<1>1. DOMAIN gates = 1..8
  BY DEF CommonGates
<1>2. ~gates[1][1] /\ ~gates[3][1] /\ ~gates[4][1]
  BY <1>1 DEF Passes
<1>3. /\ gates[1][1] = (backend.readiness # "Ready")
      /\ gates[3][1] = (req.privacy = "LocalOnly" /\ backend.kind = "Hosted")
      /\ gates[4][1] = (req.privacy = "LocalOnly" /\ ~EligibleForLocalOnly(capability))
  BY DEF CommonGates
<1> QED BY <1>2, <1>3

(* A successful report's backends, by their places.                        *)
LEMMA PlacesAreReported ==
  ASSUME NEW at \in SuccessfulBackends(snapshot)
  PROVE  /\ at[1] \in DOMAIN snapshot
         /\ snapshot[at[1]].status = "Succeeded"
         /\ at[2] \in DOMAIN snapshot[at[1]].backends
         /\ at = <<at[1], at[2]>>
         /\ BackendAt(snapshot, at) \in ReportedBy(at[1])
BY DEF SuccessfulBackends, BackendAt, ReportedBy

LEMMA CapabilitiesHaveBackends ==
  ASSUME NEW at \in CapabilitiesOf(snapshot)
  PROVE  /\ at[1] \in SuccessfulBackends(snapshot)
         /\ at[2] \in DOMAIN BackendAt(snapshot, at[1]).capabilities
         /\ at = <<at[1], at[2]>>
BY DEF CapabilitiesOf

(* LocalOnlyCapabilities from the inside.                                  *)
LEMMA LocalOnlyCapabilitiesContain ==
  ASSUME NEW s \in DOMAIN snapshot, snapshot[s].status = "Succeeded",
         NEW i \in DOMAIN snapshot[s].backends,
         NEW k \in DOMAIN snapshot[s].backends[i].capabilities,
         snapshot[s].backends[i].readiness = "Ready",
         snapshot[s].backends[i].kind # "Hosted",
         EligibleForLocalOnly(snapshot[s].backends[i].capabilities[k])
  PROVE  snapshot[s].backends[i].capabilities[k] \in LocalOnlyCapabilities(snapshot)
<1> DEFINE b == snapshot[s].backends[i]
           reported == UNION {{snapshot[x].backends[j] : j \in DOMAIN snapshot[x].backends} :
                              x \in {x \in DOMAIN snapshot : snapshot[x].status = "Succeeded"}}
<1>1. b \in reported
  OBVIOUS
<1>2. b \in {c \in reported : c.readiness = "Ready" /\ c.kind # "Hosted"}
  BY <1>1
<1>3. b.capabilities[k] \in
        {b.capabilities[j] : j \in {j \in DOMAIN b.capabilities :
                                      EligibleForLocalOnly(b.capabilities[j])}}
  OBVIOUS
<1> HIDE DEF b, reported
<1>4. b.capabilities[k] \in
        UNION {{c.capabilities[j] : j \in {j \in DOMAIN c.capabilities :
                                              EligibleForLocalOnly(c.capabilities[j])}} :
               c \in {c \in reported : c.readiness = "Ready" /\ c.kind # "Hosted"}}
  BY <1>2, <1>3
<1> QED BY <1>4 DEF LocalOnlyCapabilities, b, reported

(* The part of a report's check on evidence.                               *)
LEMMA ObservationsAreOwned ==
  ASSUME NEW source, NEW backends, ReportValid(source, backends),
         NEW i \in DOMAIN backends, NEW k \in DOMAIN backends[i].capabilities,
         NEW e \in backends[i].capabilities[k].evidence, e.kind \in OwnedKinds
  PROVE  e.source_id = source
<1> DEFINE places == UNION {{<<x, y>> : y \in DOMAIN backends[x].capabilities} :
                            x \in DOMAIN backends}
           owned(at) == \A evidence \in backends[at[1]].capabilities[at[2]].evidence :
                          evidence.kind \in OwnedKinds => evidence.source_id = source
<1>1. \A at \in places : owned(at)
  BY DEF ReportValid
<1>2. <<i, k>> \in places
  OBVIOUS
<1>3. owned(<<i, k>>)
  <2> HIDE DEF places, owned
  <2> QED BY <1>1, <1>2
<1> QED BY <1>3

(* The part on capability ids.                                             *)
LEMMA CapabilityIdsAreUnique ==
  ASSUME NEW source, NEW backends, ReportValid(source, backends),
         NEW i \in DOMAIN backends, NEW k \in DOMAIN backends[i].capabilities,
         NEW j \in DOMAIN backends, NEW m \in DOMAIN backends[j].capabilities,
         <<i, k>> # <<j, m>>
  PROVE  backends[i].capabilities[k].id # backends[j].capabilities[m].id
<1> DEFINE places == UNION {{<<x, y>> : y \in DOMAIN backends[x].capabilities} :
                            x \in DOMAIN backends}
           id(at) == backends[at[1]].capabilities[at[2]].id
<1>1. \A at \in places : \A other \in places \ {at} : id(other) # id(at)
  BY DEF ReportValid
<1>2. <<i, k>> \in places /\ <<j, m>> \in places
  OBVIOUS
<1>3. id(<<i, k>>) # id(<<j, m>>)
  <2> HIDE DEF places, id
  <2> QED BY <1>1, <1>2
<1> QED BY <1>3

(* Whatever is reported and whatever is asked: a route planned for a       *)
(* local-only request is proven local, on a probed snapshot by the source  *)
(* that reported it.                                                       *)
THEOREM LocalOnlyHolds == Spec => []LocalOnlyIsProven
<1>1. Routed => LocalOnlyIsProven
  <2> SUFFICES ASSUME Routed, plan.result = "Planned", request.privacy = "LocalOnly"
               PROVE  \E source \in DOMAIN snapshot : \E backend \in ReportedBy(source) :
                        /\ backend.id = plan.selected.backend_id
                        /\ backend.readiness = "Ready" /\ backend.kind # "Hosted"
                        /\ \E k \in DOMAIN backend.capabilities :
                             LET capability == backend.capabilities[k] IN
                             /\ capability.id = plan.selected.capability_id
                             /\ capability \in LocalOnlyCapabilities(snapshot)
                             /\ \E evidence \in capability.evidence :
                                  /\ ProvesRuntime(evidence)
                                  /\ source # HostSource => evidence.source_id = source
    BY DEF LocalOnlyIsProven
  <2>1. plan \in Plans(request, snapshot)
    BY DEF Routed, PlanIsCurrent, NoPlan
  <2>2. PICK at \in AdmissibleAt(request, snapshot) :
          plan.selected = Selection(request, snapshot, at)
    BY <2>1, SelectedIsAdmissible
  <2> DEFINE source == at[1][1]
             backend == BackendAt(snapshot, at[1])
             k == at[2]
             capability == backend.capabilities[k]
  <2>3. at \in CapabilitiesOf(snapshot) /\ Admissible(request, backend, capability)
    BY <2>2 DEF AdmissibleAt, CapabilityAt
  <2>4. k \in DOMAIN backend.capabilities /\ at[1] \in SuccessfulBackends(snapshot)
    BY <2>3, CapabilitiesHaveBackends
  <2>5. /\ source \in DOMAIN snapshot
        /\ snapshot[source].status = "Succeeded"
        /\ at[1][2] \in DOMAIN snapshot[source].backends
        /\ backend \in ReportedBy(source)
        /\ backend = snapshot[source].backends[at[1][2]]
    BY <2>4, PlacesAreReported DEF BackendAt
  <2>6. /\ backend.readiness = "Ready" /\ backend.kind # "Hosted"
        /\ EligibleForLocalOnly(capability)
    BY <2>3, LocalOnlyGates DEF Admissible
  <2>7. capability \in LocalOnlyCapabilities(snapshot)
    BY <2>4, <2>5, <2>6, LocalOnlyCapabilitiesContain
  <2>8. PICK evidence \in capability.evidence : ProvesRuntime(evidence)
    BY <2>6 DEF EligibleForLocalOnly
  <2>9. ASSUME source # HostSource PROVE evidence.source_id = source
    <3>1. ReportValid(source, snapshot[source].backends)
      BY <2>5, <2>9 DEF Routed, ReportsChecked
    <3>2. evidence.kind \in OwnedKinds
      BY <2>8 DEF ProvesRuntime, OwnedKinds
    <3> QED BY <2>4, <2>5, <2>8, <3>1, <3>2, ObservationsAreOwned
  <2>10. backend.id = plan.selected.backend_id /\ capability.id = plan.selected.capability_id
    BY <2>2 DEF Selection, CapabilityAt
  <2> QED BY <2>4, <2>5, <2>6, <2>7, <2>8, <2>9, <2>10
<1> QED BY <1>1, RoutedInvariant, PTL

(* Whatever the sources report: a probed snapshot, of checked reports, is  *)
(* refused only when two sources claim one id.                             *)
THEOREM SpoiledOnlyTogetherHolds == Spec => []SpoiledOnlyTogether
<1>1. Routed => SpoiledOnlyTogether
  <2> SUFFICES ASSUME Routed, plan.result = "SnapshotInvalid",
                      HostSource \notin DOMAIN snapshot
               PROVE  \E s, t \in DOMAIN snapshot : \E a \in ReportedBy(s), b \in ReportedBy(t) :
                        /\ s # t
                        /\ \/ a.id = b.id
                           \/ \E i \in DOMAIN a.capabilities, j \in DOMAIN b.capabilities :
                                a.capabilities[i].id = b.capabilities[j].id
    BY DEF SpoiledOnlyTogether
  <2>1. ~SnapshotValid(snapshot)
    BY DEF Routed, PlanIsCurrent, NoPlan, Plans, Finalize
  <2>2. \A s \in DOMAIN snapshot : snapshot[s].status = "Succeeded" =>
          ReportValid(s, snapshot[s].backends)
    BY DEF Routed, ReportsChecked
  <2>3. \A at \in SuccessfulBackends(snapshot) : BackendValid(BackendAt(snapshot, at))
    BY <2>2, PlacesAreReported DEF ReportValid, BackendAt
  <2>4. CASE \E at, other \in SuccessfulBackends(snapshot) :
               at # other /\ BackendAt(snapshot, other).id = BackendAt(snapshot, at).id
    <3>1. PICK at \in SuccessfulBackends(snapshot), other \in SuccessfulBackends(snapshot) :
            at # other /\ BackendAt(snapshot, other).id = BackendAt(snapshot, at).id
      BY <2>4
    <3>2. at[1] # other[1]
      <4> SUFFICES ASSUME at[1] = other[1] PROVE FALSE
        OBVIOUS
      <4>1. at[2] # other[2]
        BY <3>1, PlacesAreReported
      <4> QED BY <2>2, <3>1, <4>1, PlacesAreReported DEF ReportValid, BackendAt
    <3> QED BY <3>1, <3>2, PlacesAreReported
  <2>5. CASE \E at, other \in CapabilitiesOf(snapshot) :
               at # other /\ CapabilityAt(snapshot, other).id = CapabilityAt(snapshot, at).id
    <3>1. PICK at \in CapabilitiesOf(snapshot), other \in CapabilitiesOf(snapshot) :
            at # other /\ CapabilityAt(snapshot, other).id = CapabilityAt(snapshot, at).id
      BY <2>5
    <3> DEFINE s == at[1][1]
               t == other[1][1]
               a == BackendAt(snapshot, at[1])
               b == BackendAt(snapshot, other[1])
    <3>2. /\ at[1] \in SuccessfulBackends(snapshot) /\ other[1] \in SuccessfulBackends(snapshot)
          /\ at[2] \in DOMAIN a.capabilities /\ other[2] \in DOMAIN b.capabilities
          /\ at = <<at[1], at[2]>> /\ other = <<other[1], other[2]>>
      BY CapabilitiesHaveBackends
    <3>3. /\ s \in DOMAIN snapshot /\ t \in DOMAIN snapshot
          /\ a \in ReportedBy(s) /\ b \in ReportedBy(t)
      BY <3>2, PlacesAreReported
    <3>4. a.capabilities[at[2]].id = b.capabilities[other[2]].id
      BY <3>1 DEF CapabilityAt
    <3>5. s # t
      <4> SUFFICES ASSUME s = t PROVE FALSE
        OBVIOUS
      <4> DEFINE backends == snapshot[s].backends
                 here == <<at[1][2], at[2]>>
                 there == <<other[1][2], other[2]>>
      <4>1. at[1] = <<s, at[1][2]>> /\ other[1] = <<s, other[1][2]>>
        BY <3>2, PlacesAreReported
      <4>2. here # there
        BY <3>1, <3>2, <4>1
      <4>3. /\ at[1][2] \in DOMAIN backends /\ other[1][2] \in DOMAIN backends
            /\ a = backends[at[1][2]] /\ b = backends[other[1][2]]
            /\ ReportValid(s, backends)
        BY <2>2, <3>2, PlacesAreReported DEF BackendAt
      <4> HIDE DEF a, b, backends
      <4> QED BY <3>2, <3>4, <4>2, <4>3, CapabilityIdsAreUnique
    <3> QED BY <3>2, <3>3, <3>4, <3>5
  <2> QED BY <2>1, <2>3, <2>4, <2>5 DEF SnapshotValid
<1> QED BY <1>1, RoutedInvariant, PTL
-----------------------------------------------------------------------------
(* Lists of checks.                                                        *)

IsList(checks) == checks \in Seq({checks[i] : i \in DOMAIN checks})

LEMMA SequencesAreLists ==
  ASSUME NEW S, NEW checks \in Seq(S)
  PROVE  IsList(checks)
<1>1. /\ Len(checks) \in Nat /\ DOMAIN checks = 1..Len(checks)
      /\ checks = [i \in 1..Len(checks) |-> checks[i]]
  OBVIOUS
<1>2. checks \in [1..Len(checks) -> {checks[i] : i \in DOMAIN checks}]
  BY <1>1
<1> QED BY <1>1, <1>2 DEF IsList

LEMMA PassesBoth ==
  ASSUME NEW a, NEW b, IsList(a), IsList(b)
  PROVE  /\ IsList(a \o b)
         /\ Passes(a \o b) <=> Passes(a) /\ Passes(b)
<1> DEFINE S == {a[i] : i \in DOMAIN a} \cup {b[i] : i \in DOMAIN b}
<1>0. a \in Seq(S) /\ b \in Seq(S)
  BY DEF IsList
<1> HIDE DEF S
<1>1. /\ a \o b \in Seq(S)
      /\ DOMAIN a = 1..Len(a) /\ DOMAIN b = 1..Len(b)
      /\ DOMAIN (a \o b) = 1..(Len(a) + Len(b))
      /\ Len(a) \in Nat /\ Len(b) \in Nat
  BY <1>0
<1>2. \A i \in 1..Len(a) : (a \o b)[i] = a[i] /\ i \in DOMAIN (a \o b)
  BY <1>0, <1>1
<1>3. \A i \in 1..Len(b) : (a \o b)[Len(a) + i] = b[i] /\ Len(a) + i \in DOMAIN (a \o b)
  BY <1>0, <1>1
<1>4. \A i \in DOMAIN (a \o b) :
        \/ i \in 1..Len(a) /\ (a \o b)[i] = a[i]
        \/ \E j \in 1..Len(b) : (a \o b)[i] = b[j]
  <2>1. ASSUME NEW i \in DOMAIN (a \o b), i \notin 1..Len(a)
        PROVE  i - Len(a) \in 1..Len(b) /\ (a \o b)[i] = b[i - Len(a)]
    BY <1>0, <1>1, <2>1
  <2> QED BY <1>2, <2>1
<1>5. Passes(a \o b) => Passes(a)
  BY <1>1, <1>2 DEF Passes
<1>6. Passes(a \o b) => Passes(b)
  BY <1>1, <1>3 DEF Passes
<1>7. Passes(a) /\ Passes(b) => Passes(a \o b)
  BY <1>1, <1>4 DEF Passes
<1>8. IsList(a \o b)
  BY <1>1, SequencesAreLists
<1> QED BY <1>5, <1>6, <1>7, <1>8

LEMMA DefectsAreLists ==
  ASSUME NEW req, NEW S, NEW codes \in Seq(S)
  PROVE  IsList(Defects(req, codes))
<1> DEFINE check(i) == <<codes[i] \in req.defects, codes[i]>>
           list == [i \in 1..Len(codes) |-> check(i)]
<1>1. Defects(req, codes) = list
  BY DEF Defects
<1> HIDE DEF check
<1>2. list \in Seq({check(i) : i \in 1..Len(codes)})
  OBVIOUS
<1> HIDE DEF list
<1>3. IsList(list)
  BY <1>2, SequencesAreLists
<1> QED BY <1>1, <1>3

LEMMA LiteralsAreLists ==
  ASSUME NEW a, NEW b, NEW c, NEW d, NEW e
  PROVE  /\ IsList(<< >>)
         /\ <<a>> \in Seq({a}) /\ IsList(<<a>>)
         /\ <<a, b>> \in Seq({a, b})
         /\ <<a, b, c>> \in Seq({a, b, c}) /\ IsList(<<a, b, c>>)
         /\ <<a, b, c, d, e>> \in Seq({a, b, c, d, e}) /\ IsList(<<a, b, c, d, e>>)
<1>1. << >> \in Seq({a})
  OBVIOUS
<1>2. <<a>> \in Seq({a})
  OBVIOUS
<1>3. <<a, b>> \in Seq({a, b})
  OBVIOUS
<1>4. <<a, b, c>> \in Seq({a, b, c})
  OBVIOUS
<1>5. <<a, b, c, d, e>> \in Seq({a, b, c, d, e})
  OBVIOUS
<1>6. IsList(<< >>)
  BY <1>1, SequencesAreLists
<1>7. IsList(<<a>>)
  BY <1>2, SequencesAreLists
<1>8. IsList(<<a, b, c>>)
  BY <1>4, SequencesAreLists
<1>9. IsList(<<a, b, c, d, e>>)
  BY <1>5, SequencesAreLists
<1> QED BY <1>2, <1>3, <1>4, <1>5, <1>6, <1>7, <1>8, <1>9

(* Two requests with the same defects fail the same of these checks.       *)
LEMMA SameDefects ==
  ASSUME NEW req, NEW other, req.defects = other.defects, NEW codes
  PROVE  Defects(req, codes) = Defects(other, codes)
BY DEF Defects
-----------------------------------------------------------------------------
(* The order of plans.                                                     *)

LEMMA BeforeTriples ==
  ASSUME NEW a1 \in Nat, NEW a2 \in Nat, NEW a3 \in Nat,
         NEW b1 \in Nat, NEW b2 \in Nat, NEW b3 \in Nat
  PROVE  Before(<<a1, a2, a3>>, <<b1, b2, b3>>) <=>
           \/ a1 < b1
           \/ a1 = b1 /\ a2 < b2
           \/ a1 = b1 /\ a2 = b2 /\ a3 < b3
<1> DEFINE a == <<a1, a2, a3>>
           b == <<b1, b2, b3>>
<1>1. /\ DOMAIN a = {1, 2, 3}
      /\ a[1] = a1 /\ a[2] = a2 /\ a[3] = a3 /\ b[1] = b1 /\ b[2] = b2 /\ b[3] = b3
  OBVIOUS
<1>2. 1..1 - 1 = {} /\ 1..2 - 1 = {1} /\ 1..3 - 1 = {1, 2}
  OBVIOUS
<1> HIDE DEF a, b
<1>3. Before(a, b) <=>
        \/ a[1] < b[1] /\ \A j \in 1..1 - 1 : a[j] = b[j]
        \/ a[2] < b[2] /\ \A j \in 1..2 - 1 : a[j] = b[j]
        \/ a[3] < b[3] /\ \A j \in 1..3 - 1 : a[j] = b[j]
  BY <1>1 DEF Before
<1>4. Before(a, b) <=>
        \/ a1 < b1
        \/ a1 = b1 /\ a2 < b2
        \/ a1 = b1 /\ a2 = b2 /\ a3 < b3
  BY <1>1, <1>2, <1>3
<1> QED BY <1>4 DEF a, b

LEMMA EqualTriples ==
  ASSUME NEW a1 \in Nat, NEW a2 \in Nat, NEW a3 \in Nat,
         NEW b1 \in Nat, NEW b2 \in Nat, NEW b3 \in Nat,
         ~Before(<<a1, a2, a3>>, <<b1, b2, b3>>), ~Before(<<b1, b2, b3>>, <<a1, a2, a3>>)
  PROVE  a1 = b1 /\ a2 = b2 /\ a3 = b3
<1>1. /\ ~(a1 < b1) /\ ~(b1 < a1)
      /\ a1 = b1 => ~(a2 < b2) /\ ~(b2 < a2)
      /\ a1 = b1 /\ a2 = b2 => ~(a3 < b3) /\ ~(b3 < a3)
  BY BeforeTriples
<1> QED BY <1>1

LEMMA RanksAreBounded ==
  ASSUME NEW profile \in Profiles, NEW kind \in BackendKinds
  PROVE  PolicyRank(profile, kind) \in 0..4
<1>1. \E i \in 1..5 : Preference(profile)[i] = kind
  <2>1. \/ profile \in {"PrivateBalanced", "QualityLocal"} \/ profile = "NativePreferred"
        \/ profile = "ConsistentLocal" \/ profile = "HostedEnabled"
    BY DEF Profiles
  <2>2. CASE profile \in {"PrivateBalanced", "QualityLocal"}
    <3>1. Preference(profile) = <<"PlatformOnDevice", "EmbeddedModel",
            "ResidentMultimodalModel", "PlatformService", "Hosted">>
      BY <2>2 DEF Preference
    <3> QED BY <3>1 DEF BackendKinds
  <2>3. CASE profile = "NativePreferred"
    <3>1. Preference(profile) = <<"PlatformOnDevice", "PlatformService", "EmbeddedModel",
            "ResidentMultimodalModel", "Hosted">>
      BY <2>3 DEF Preference
    <3> QED BY <3>1 DEF BackendKinds
  <2>4. CASE profile = "ConsistentLocal"
    <3>1. Preference(profile) = <<"EmbeddedModel", "ResidentMultimodalModel",
            "PlatformOnDevice", "PlatformService", "Hosted">>
      BY <2>4 DEF Preference
    <3> QED BY <3>1 DEF BackendKinds
  <2>5. CASE profile = "HostedEnabled"
    <3>1. Preference(profile) = <<"Hosted", "PlatformOnDevice", "EmbeddedModel",
            "ResidentMultimodalModel", "PlatformService">>
      BY <2>5 DEF Preference
    <3> QED BY <3>1 DEF BackendKinds
  <2> QED BY <2>1, <2>2, <2>3, <2>4, <2>5
<1>2. (CHOOSE i \in 1..5 : Preference(profile)[i] = kind) \in 1..5
  BY <1>1
<1> QED BY <1>2 DEF PolicyRank
-----------------------------------------------------------------------------
(* A request with its plan pinned into it differs in its route alone.      *)

PinnedRoute(selected) ==
  [kind |-> "ExactBackend", backend_id |-> selected.backend_id,
   model_id |-> selected.model_id, voice_id |-> selected.voice_id]

LEMMA PinnedTranscription ==
  ASSUME NEW req \in TranscriptionRequests, NEW selected
  PROVE  LET pinned == Pinned(req, selected) IN
         /\ pinned.route = PinnedRoute(selected)
         /\ pinned.operation = req.operation /\ pinned.defects = req.defects
         /\ pinned.privacy = req.privacy /\ pinned.profile = req.profile
         /\ pinned.language = req.language /\ pinned.input = req.input
         /\ pinned.partial_results = req.partial_results /\ pinned.timestamps = req.timestamps
         /\ pinned.diarization = req.diarization /\ pinned.translate = req.translate
         /\ pinned.hotwords = req.hotwords
BY DEF TranscriptionRequests, Pinned, PinnedRoute

LEMMA PinnedSynthesis ==
  ASSUME NEW req \in SynthesisRequests, NEW selected
  PROVE  LET pinned == Pinned(req, selected) IN
         /\ pinned.route = PinnedRoute(selected)
         /\ pinned.operation = req.operation /\ pinned.defects = req.defects
         /\ pinned.privacy = req.privacy /\ pinned.profile = req.profile
         /\ pinned.language = req.language /\ pinned.voice = req.voice
         /\ pinned.ssml = req.ssml /\ pinned.stream = req.stream
         /\ pinned.output = req.output /\ pinned.alignment = req.alignment
         /\ pinned.pitch_in_range = req.pitch_in_range
         /\ pinned.rate_in_range = req.rate_in_range
BY DEF SynthesisRequests, Pinned, PinnedRoute

LEMMA PinnedCommon ==
  ASSUME NEW req \in TranscriptionRequests \cup SynthesisRequests, NEW selected
  PROVE  LET pinned == Pinned(req, selected) IN
         /\ pinned.route = PinnedRoute(selected)
         /\ pinned.operation = req.operation /\ pinned.defects = req.defects
         /\ pinned.privacy = req.privacy /\ pinned.profile = req.profile
         /\ pinned.language = req.language
BY PinnedTranscription, PinnedSynthesis

(* What the rest of validate checks does not depend on the route.          *)
RouteChecks(req) ==
  CASE req.route.kind = "ExactBackend" -> ExactRouteChecks(req.route)
    [] req.route.kind = "Profile" -> Defects(req, <<"route_profile_empty">>)
    [] OTHER -> << >>

LEMMA RouteChecksAreLists ==
  ASSUME NEW req
  PROVE  IsList(RouteChecks(req))
<1>1. IsList(ExactRouteChecks(req.route)) /\ IsList(Defects(req, <<"route_profile_empty">>))
  BY LiteralsAreLists, DefectsAreLists DEF ExactRouteChecks
<1> QED BY <1>1, LiteralsAreLists DEF RouteChecks

LEMMA ContextIsTwoChecks ==
  ASSUME NEW req
  PROVE  LET first == Defects(req, <<"request_id_empty", "client_id_empty", "deadline_invalid">>) IN
         /\ ContextChecks(req) = first \o RouteChecks(req)
         /\ IsList(first)
         /\ IsList(ContextChecks(req))
         /\ Passes(ContextChecks(req)) <=> Passes(first) /\ Passes(RouteChecks(req))
<1> DEFINE codes == <<"request_id_empty", "client_id_empty", "deadline_invalid">>
           first == Defects(req, codes)
<1>1. ContextChecks(req) = first \o RouteChecks(req)
  BY DEF ContextChecks, RouteChecks
<1>3. IsList(first)
  BY LiteralsAreLists, DefectsAreLists
<1> HIDE DEF first
<1>4. /\ IsList(first \o RouteChecks(req))
      /\ Passes(first \o RouteChecks(req)) <=> Passes(first) /\ Passes(RouteChecks(req))
  BY <1>3, RouteChecksAreLists, PassesBoth
<1> QED BY <1>1, <1>3, <1>4 DEF first

(* What a plan names, a request can ask for.                               *)
Nameable(selected) == Empty \notin {selected.backend_id, selected.model_id, selected.voice_id}

(* The context of a valid request stays valid when such a plan is pinned   *)
(* into it, and no other.                                                  *)
LEMMA PinnedContext ==
  ASSUME NEW req \in Requests, NEW selected, Passes(ContextChecks(req))
  PROVE  Passes(ContextChecks(Pinned(req, selected))) <=> Nameable(selected)
<1> DEFINE pinned == Pinned(req, selected)
           codes == <<"request_id_empty", "client_id_empty", "deadline_invalid">>
           checks == ExactRouteChecks(PinnedRoute(selected))
<1>1. pinned.defects = req.defects /\ pinned.route = PinnedRoute(selected)
  BY RequestAssumption, PinnedCommon
<1> HIDE DEF pinned
<1>2. Passes(Defects(req, codes))
  BY ContextIsTwoChecks
<1>3. Defects(pinned, codes) = Defects(req, codes)
  BY <1>1, SameDefects
<1>4. PinnedRoute(selected).kind = "ExactBackend"
  BY DEF PinnedRoute
<1>5. RouteChecks(pinned) = checks
  BY <1>1, <1>4 DEF RouteChecks
<1>6. Passes(checks) <=> Nameable(selected)
  <2>1. /\ DOMAIN checks = {1, 2, 3}
        /\ checks[1][1] = (selected.backend_id = Empty)
        /\ checks[2][1] = (selected.model_id = Empty)
        /\ checks[3][1] = (selected.voice_id = Empty)
    BY DEF ExactRouteChecks, PinnedRoute
  <2> HIDE DEF checks
  <2>2. Passes(checks) <=> ~checks[1][1] /\ ~checks[2][1] /\ ~checks[3][1]
    BY <2>1 DEF Passes
  <2> QED BY <2>1, <2>2 DEF Nameable
<1> HIDE DEF checks
<1>7. Passes(ContextChecks(pinned)) <=> Nameable(selected)
  BY <1>2, <1>3, <1>5, <1>6, ContextIsTwoChecks
<1> QED BY <1>7 DEF pinned

LEMMA AudioChecksAreLists ==
  ASSUME NEW req
  PROVE  /\ IsList(PcmFormatChecks(req))
         /\ req.input.kind \in {"Encoded", "Pcm", "Asset"} => IsList(AudioInputChecks(req))
         /\ IsList(OutputChecks(req))
<1>2. IsList(PcmFormatChecks(req))
  BY LiteralsAreLists, DefectsAreLists DEF PcmFormatChecks
<1>3. /\ IsList(Defects(req, <<"audio_data_empty">>))
      /\ IsList(Defects(req, <<"audio_data_empty", "pcm_frame_incomplete">>))
      /\ IsList(Defects(req, <<"audio_asset_id_empty">>))
      /\ IsList(Defects(req, <<"audio_bitrate_invalid">>))
  BY LiteralsAreLists, DefectsAreLists
<1>4. IsList(PcmFormatChecks(req)
             \o Defects(req, <<"audio_data_empty", "pcm_frame_incomplete">>))
  BY <1>2, <1>3, PassesBoth
<1>5. req.input.kind \in {"Encoded", "Pcm", "Asset"} => IsList(AudioInputChecks(req))
  BY <1>3, <1>4 DEF AudioInputChecks
<1>7. IsList(OutputChecks(req))
  BY <1>2, <1>3, LiteralsAreLists DEF OutputChecks
<1> QED BY <1>2, <1>5, <1>7

(* A list of four parts passes when each part does.                        *)
LEMMA FourParts ==
  ASSUME NEW a, NEW b, NEW c, NEW d, IsList(a), IsList(b), IsList(c), IsList(d)
  PROVE  /\ IsList(a \o b \o c \o d)
         /\ Passes(a \o b \o c \o d) <=> Passes(a) /\ Passes(b) /\ Passes(c) /\ Passes(d)
<1>1. IsList(a \o b) /\ (Passes(a \o b) <=> Passes(a) /\ Passes(b))
  BY PassesBoth
<1> DEFINE ab == a \o b
<1>2. IsList(ab)
  BY <1>1
<1> HIDE DEF ab
<1>3. IsList(ab \o c) /\ (Passes(ab \o c) <=> Passes(ab) /\ Passes(c))
  BY <1>2, PassesBoth
<1> DEFINE abc == ab \o c
<1>4. IsList(abc)
  BY <1>3
<1> HIDE DEF abc
<1>5. IsList(abc \o d) /\ (Passes(abc \o d) <=> Passes(abc) /\ Passes(d))
  BY <1>4, PassesBoth
<1> QED BY <1>1, <1>3, <1>5 DEF ab, abc

LEMMA PinnedTranscriptionIsValid ==
  ASSUME NEW req \in Requests, req \in TranscriptionRequests, NEW selected,
         Passes(TranscriptionChecks(req))
  PROVE  Passes(TranscriptionChecks(Pinned(req, selected))) <=> Nameable(selected)
<1> DEFINE pinned == Pinned(req, selected)
           input(r) == IF r.input.kind = "Stream"
                         THEN Defects(r, <<"audio_stream_id_empty">>) \o PcmFormatChecks(r)
                         ELSE AudioInputChecks(r)
           text(r) == Defects(r, <<"language_tag_invalid", "hotword_empty">>)
           speakers(r) == <<<<r.diarization = "BoundedToNobody",
                              "diarization_speaker_limit_invalid">>>>
<1>1. /\ pinned.defects = req.defects /\ pinned.input = req.input
      /\ pinned.diarization = req.diarization
  BY PinnedTranscription
<1>2. \A r : TranscriptionChecks(r) = ContextChecks(r) \o input(r) \o text(r) \o speakers(r)
  BY DEF TranscriptionChecks
<1>3. IsList(input(req)) /\ IsList(text(req)) /\ IsList(speakers(req))
  <2>2. IsList(Defects(req, <<"audio_stream_id_empty">>)) /\ IsList(text(req))
    BY LiteralsAreLists, DefectsAreLists
  <2>3. IsList(Defects(req, <<"audio_stream_id_empty">>) \o PcmFormatChecks(req))
    BY <2>2, AudioChecksAreLists, PassesBoth
  <2>4. req.input.kind \in {"Encoded", "Pcm", "Asset", "Stream"}
    BY DEF TranscriptionRequests
  <2>5. IsList(input(req))
    BY <2>3, <2>4, AudioChecksAreLists
  <2>6. IsList(speakers(req))
    BY LiteralsAreLists
  <2> QED BY <2>2, <2>5, <2>6
<1>4. input(pinned) = input(req) /\ text(pinned) = text(req) /\ speakers(pinned) = speakers(req)
  <2>1. \A codes : Defects(pinned, codes) = Defects(req, codes)
    BY <1>1, SameDefects
  <2> HIDE DEF pinned
  <2>2. PcmFormatChecks(pinned) = PcmFormatChecks(req)
    BY <2>1 DEF PcmFormatChecks
  <2>3. req.input.kind \in {"Encoded", "Pcm", "Asset", "Stream"}
    BY DEF TranscriptionRequests
  <2>4. req.input.kind # "Stream" => AudioInputChecks(pinned) = AudioInputChecks(req)
    BY <1>1, <2>1, <2>2, <2>3 DEF AudioInputChecks
  <2>5. text(pinned) = text(req) /\ speakers(pinned) = speakers(req)
    BY <1>1, <2>1
  <2> QED BY <1>1, <2>1, <2>2, <2>4, <2>5
<1>5. IsList(ContextChecks(req)) /\ IsList(ContextChecks(pinned))
  BY ContextIsTwoChecks
<1> HIDE DEF input, text, speakers, pinned
<1>6. /\ Passes(ContextChecks(req)) /\ Passes(input(req)) /\ Passes(text(req))
      /\ Passes(speakers(req))
  BY <1>2, <1>3, <1>5, FourParts
<1>7. Passes(ContextChecks(pinned)) <=> Nameable(selected)
  BY <1>6, PinnedContext DEF pinned
<1>8. Passes(TranscriptionChecks(pinned)) <=> Nameable(selected)
  BY <1>2, <1>3, <1>4, <1>5, <1>6, <1>7, FourParts
<1> QED BY <1>8 DEF pinned

LEMMA PinnedSynthesisIsValid ==
  ASSUME NEW req \in Requests, req \in SynthesisRequests, NEW selected,
         Passes(SynthesisChecks(req))
  PROVE  /\ Passes(SynthesisChecks(Pinned(req, selected))) <=> Nameable(selected)
         /\ IsList(SynthesisChecks(Pinned(req, selected)))
<1> DEFINE pinned == Pinned(req, selected)
           codes == <<"synthesis_input_empty", "language_tag_invalid", "speech_rate_invalid",
                      "speech_pitch_invalid", "speech_volume_invalid">>
           text(r) == Defects(r, codes)
           voice(r) == CASE r.voice.kind = "Exact" -> <<<<r.voice.id = Empty, "voice_id_empty">>>>
                         [] r.voice.kind = "Profile" -> Defects(r, <<"voice_profile_empty">>)
                         [] OTHER -> << >>
<1>1. /\ pinned.defects = req.defects /\ pinned.voice = req.voice
      /\ pinned.output = req.output
  BY PinnedSynthesis
<1>2. \A r : SynthesisChecks(r) = ContextChecks(r) \o text(r) \o voice(r) \o OutputChecks(r)
  BY DEF SynthesisChecks
<1>3. IsList(text(req)) /\ IsList(voice(req)) /\ IsList(OutputChecks(req))
  <2>2. /\ IsList(text(req)) /\ IsList(<<<<req.voice.id = Empty, "voice_id_empty">>>>)
        /\ IsList(Defects(req, <<"voice_profile_empty">>))
    BY LiteralsAreLists, DefectsAreLists
  <2>4. IsList(voice(req))
    BY <2>2, LiteralsAreLists
  <2> QED BY <2>2, <2>4, AudioChecksAreLists
<1>4. /\ text(pinned) = text(req) /\ voice(pinned) = voice(req)
      /\ OutputChecks(pinned) = OutputChecks(req)
  <2>1. \A list : Defects(pinned, list) = Defects(req, list)
    BY <1>1, SameDefects
  <2> HIDE DEF pinned
  <2> QED BY <1>1, <2>1 DEF OutputChecks, PcmFormatChecks
<1>5. IsList(ContextChecks(req)) /\ IsList(ContextChecks(pinned))
  BY ContextIsTwoChecks
<1> HIDE DEF text, voice, pinned
<1>6. /\ Passes(ContextChecks(req)) /\ Passes(text(req)) /\ Passes(voice(req))
      /\ Passes(OutputChecks(req))
  BY <1>2, <1>3, <1>5, FourParts
<1>7. Passes(ContextChecks(pinned)) <=> Nameable(selected)
  BY <1>6, PinnedContext DEF pinned
<1>8. /\ Passes(SynthesisChecks(pinned)) <=> Nameable(selected)
      /\ IsList(SynthesisChecks(pinned))
  BY <1>2, <1>3, <1>4, <1>5, <1>6, <1>7, FourParts
<1> QED BY <1>8 DEF pinned

(* A valid request is valid with its plan pinned into it, if all that the  *)
(* plan names has a text.                                                  *)
LEMMA PinnedIsValid ==
  ASSUME NEW req \in Requests, NEW selected, Passes(RequestChecks(req))
  PROVE  Passes(RequestChecks(Pinned(req, selected))) <=> Nameable(selected)
<1>1. CASE req \in TranscriptionRequests
  <2>1. req.operation = "Transcription" /\ Pinned(req, selected).operation = "Transcription"
    BY <1>1, PinnedTranscription DEF TranscriptionRequests
  <2> QED BY <1>1, <2>1, PinnedTranscriptionIsValid DEF RequestChecks
<1>2. CASE req \in SynthesisRequests
  <2>1. req.operation = "Synthesis" /\ Pinned(req, selected).operation = "Synthesis"
    BY <1>2, PinnedSynthesis DEF SynthesisRequests
  <2> QED BY <1>2, <2>1, PinnedSynthesisIsValid DEF RequestChecks
<1> QED BY <1>1, <1>2, RequestAssumption
-----------------------------------------------------------------------------
(* What passing the gates says.                                            *)

LEMMA CommonGatesSay ==
  ASSUME NEW req, NEW backend, NEW capability
  PROVE  Passes(CommonGates(req, backend, capability)) <=>
           /\ backend.readiness = "Ready"
           /\ capability.availability = "Available"
           /\ ~(req.privacy = "LocalOnly" /\ backend.kind = "Hosted")
           /\ ~(req.privacy = "LocalOnly" /\ ~EligibleForLocalOnly(capability))
           /\ ~(req.privacy = "HostedOnly" /\ backend.kind # "Hosted")
           /\ ~(req.route.kind = "ExactBackend" /\ req.route.backend_id # backend.id)
           /\ ~(/\ req.route.kind = "ExactBackend"
                /\ req.route.model_id \notin {None, capability.model_id})
           /\ req.route.kind # "Profile"
<1> DEFINE gates == CommonGates(req, backend, capability)
           exact == req.route.kind = "ExactBackend"
<1>1. DOMAIN gates = {1, 2, 3, 4, 5, 6, 7, 8}
  BY DEF CommonGates
<1>2. /\ gates[1][1] = (backend.readiness # "Ready")
      /\ gates[2][1] = (capability.availability # "Available")
      /\ gates[3][1] = (req.privacy = "LocalOnly" /\ backend.kind = "Hosted")
      /\ gates[4][1] = (req.privacy = "LocalOnly" /\ ~EligibleForLocalOnly(capability))
      /\ gates[5][1] = (req.privacy = "HostedOnly" /\ backend.kind # "Hosted")
      /\ gates[6][1] = (exact /\ req.route.backend_id # backend.id)
      /\ gates[7][1] = (exact /\ req.route.model_id \notin {None, capability.model_id})
      /\ gates[8][1] = (req.route.kind = "Profile")
  BY DEF CommonGates
<1> HIDE DEF gates
<1>3. Passes(gates) <=>
        /\ ~gates[1][1] /\ ~gates[2][1] /\ ~gates[3][1] /\ ~gates[4][1]
        /\ ~gates[5][1] /\ ~gates[6][1] /\ ~gates[7][1] /\ ~gates[8][1]
  BY <1>1 DEF Passes
<1> QED BY <1>2, <1>3 DEF gates

LEMMA VoiceGatesSay ==
  ASSUME NEW req, NEW backend
  PROVE  Passes(VoiceGates(req, backend)) <=>
           /\ req.voice.kind # "Profile"
           /\ req.voice.kind = "Exact" => req.voice.id = ExactVoice(req)
           /\ ExactVoice(req) # None =>
                \E voice \in InstalledVoices(backend) : voice.id = ExactVoice(req)
<1> DEFINE gates == VoiceGates(req, backend)
<1>1. DOMAIN gates = {1, 2, 3}
  BY DEF VoiceGates
<1>2. /\ gates[1][1] = (req.voice.kind = "Profile")
      /\ gates[2][1] = (req.voice.kind = "Exact" /\ req.voice.id # ExactVoice(req))
      /\ gates[3][1] = (ExactVoice(req) # None /\
           \A voice \in InstalledVoices(backend) : voice.id # ExactVoice(req))
  BY DEF VoiceGates
<1> HIDE DEF gates
<1>3. Passes(gates) <=> ~gates[1][1] /\ ~gates[2][1] /\ ~gates[3][1]
  BY <1>1 DEF Passes
<1> QED BY <1>2, <1>3 DEF gates

(* The gates of synthesis that do not look at the route or the voices.     *)
PlainSynthesisGates(req, capability) ==
  LET lacks(feature) == feature \notin capability.features IN <<
    <<~LanguageSupported(req.language, capability), "LanguageUnsupported">>,
    <<req.ssml /\ lacks("ssml"), "SsmlUnsupported">>,
    <<req.stream /\ lacks("streaming_audio"), "StreamingUnsupported">>,
    <<req.output \notin capability.audio, "OutputFormatUnsupported">>,
    <<\/ req.alignment = "Word" /\ lacks("word_alignment")
      \/ req.alignment = "Phoneme" /\ lacks("phoneme_alignment"), "AlignmentUnsupported">>
    >>

LEMMA SynthesisGatesSay ==
  ASSUME NEW req, NEW backend, NEW capability
  PROVE  Passes(SynthesisGates(req, backend, capability)) <=>
           /\ Passes(PlainSynthesisGates(req, capability))
           /\ Passes(VoiceGates(req, backend))
<1>1. SynthesisGates(req, backend, capability) =
        PlainSynthesisGates(req, capability) \o VoiceGates(req, backend)
  BY DEF SynthesisGates, PlainSynthesisGates
<1>2. IsList(PlainSynthesisGates(req, capability)) /\ IsList(VoiceGates(req, backend))
  BY LiteralsAreLists DEF PlainSynthesisGates, VoiceGates
<1> QED BY <1>1, <1>2, PassesBoth

LEMMA OperationGatesSay ==
  ASSUME NEW req, NEW backend, NEW capability
  PROVE  Passes(OperationGates(req, backend, capability)) <=>
           /\ capability.operation = req.operation
           /\ req.operation = "Transcription" => Passes(TranscriptionGates(req, capability))
           /\ req.operation # "Transcription" => Passes(SynthesisGates(req, backend, capability))
<1> DEFINE mismatch == <<<<TRUE, "OperationMismatch">>>>
<1>1. ~Passes(mismatch)
  <2>1. 1 \in DOMAIN mismatch /\ mismatch[1][1] = TRUE
    OBVIOUS
  <2> HIDE DEF mismatch
  <2> QED BY <2>1 DEF Passes
<1> QED BY <1>1 DEF OperationGates
-----------------------------------------------------------------------------
(* The voice of a plan is the voice of the request with the plan pinned    *)
(* into it.                                                                *)

BestVoices(req, backend) ==
  {x \in LanguageVoices(req, backend) :
     \A y \in LanguageVoices(req, backend) : ~Before(VoiceKey(req, y), VoiceKey(req, x))}

VoiceChoice(req, backend) ==
  IF ExactVoice(req) # None
    THEN {v \in InstalledVoices(backend) : v.id = ExactVoice(req)}
    ELSE IF req.language = Blank THEN {} ELSE BestVoices(req, backend)

LEMMA LeastExists ==
  ASSUME NEW T, T \subseteq Nat, T # {}
  PROVE  \E x \in T : \A y \in T : x <= y
<1>1. \E R : IsWellFoundedOn(R, Nat) /\ \A x, y \in Nat : x < y => <<x, y>> \in R
  <2> DEFINE R == OpToRel(<, Nat)
  <2>1. IsWellFoundedOn(R, Nat)
    BY NatLessThanWellFounded
  <2>2. \A x, y \in Nat : x < y => <<x, y>> \in R
    BY DEF OpToRel
  <2> HIDE DEF R
  <2> QED BY <2>1, <2>2
<1>2. PICK R : IsWellFoundedOn(R, Nat) /\ \A x, y \in Nat : x < y => <<x, y>> \in R
  BY <1>1
<1>3. IsWellFoundedOn(R, Nat)
  BY <1>2
<1>4. \E x \in T : \A y \in T : ~(<<y, x>> \in R)
  BY <1>3, WFMin
<1>5. PICK x \in T : \A y \in T : ~(<<y, x>> \in R)
  BY <1>4
<1>6. \A y \in T : ~(y < x)
  BY <1>2, <1>5
<1>7. \A y \in T : x <= y
  BY <1>6
<1> QED BY <1>7

LEMMA FirstIsChosen ==
  ASSUME NEW S, NEW voices \in Seq(S), NEW chosen, chosen \subseteq Range(voices), chosen # {}
  PROVE  FirstOf(voices, chosen) \in chosen
<1> DEFINE places == {i \in DOMAIN voices : voices[i] \in chosen}
<1>1. places \subseteq Nat /\ places # {}
  BY DEF Range
<1>2. \E i \in places : \A j \in places : i <= j
  <2> HIDE DEF places
  <2> QED BY <1>1, LeastExists
<1>3. \E i \in DOMAIN voices :
        /\ voices[i] \in chosen
        /\ \A j \in DOMAIN voices : voices[j] \in chosen => i <= j
  BY <1>2
<1> QED BY <1>3 DEF FirstOf

LEMMA VoiceIsChosen ==
  ASSUME NEW req, NEW backend, req.operation # "Transcription"
  PROVE  SelectVoice(req, backend) =
           IF VoiceChoice(req, backend) = {} THEN NoVoice
           ELSE FirstOf(backend.voices, VoiceChoice(req, backend))
BY DEF SelectVoice, VoiceChoice, BestVoices, Least

LEMMA SelectedVoiceIsInstalled ==
  ASSUME NEW req, NEW backend, BackendDescribed(backend), Passes(VoiceGates(req, backend)),
         req.operation # "Transcription"
  PROVE  \/ /\ SelectVoice(req, backend) = NoVoice
            /\ ExactVoice(req) = None
         \/ /\ SelectVoice(req, backend) \in InstalledVoices(backend)
            /\ ExactVoice(req) # None => SelectVoice(req, backend).id = ExactVoice(req)
<1> DEFINE choice == VoiceChoice(req, backend)
<1>1. SelectVoice(req, backend) = IF choice = {} THEN NoVoice ELSE FirstOf(backend.voices, choice)
  BY VoiceIsChosen
<1>2. ExactVoice(req) # None =>
        choice # {} /\ \A voice \in choice : voice.id = ExactVoice(req)
  BY VoiceGatesSay DEF VoiceChoice
<1>3. choice \subseteq InstalledVoices(backend)
  BY DEF VoiceChoice, BestVoices, LanguageVoices
<1>4. choice # {} => FirstOf(backend.voices, choice) \in choice
  <2>1. backend.voices \in Seq(Range(backend.voices))
    BY DEF BackendDescribed, VoicesDescribed
  <2>2. InstalledVoices(backend) \subseteq Range(backend.voices)
    BY DEF InstalledVoices
  <2> HIDE DEF choice
  <2> QED BY <1>3, <2>1, <2>2, FirstIsChosen
<1> HIDE DEF choice
<1> QED BY <1>1, <1>2, <1>3, <1>4

LEMMA PinnedVoice ==
  ASSUME NEW req \in SynthesisRequests, NEW backend, BackendDescribed(backend),
         Passes(VoiceGates(req, backend)),
         NEW selected, selected.voice_id = SelectVoice(req, backend).id
  PROVE  LET pinned == Pinned(req, selected) IN
         /\ Passes(VoiceGates(pinned, backend))
         /\ SelectVoice(pinned, backend).id = SelectVoice(req, backend).id
<1> DEFINE pinned == Pinned(req, selected)
           v == SelectVoice(req, backend)
<1>1. /\ pinned.route.kind = "ExactBackend" /\ pinned.route.voice_id = v.id
      /\ pinned.voice = req.voice /\ pinned.language = req.language
      /\ pinned.operation = req.operation /\ req.operation # "Transcription"
  <2>1. pinned.route = PinnedRoute(selected)
    BY PinnedSynthesis
  <2>2. req.operation = "Synthesis"
    BY DEF SynthesisRequests
  <2> HIDE DEF pinned
  <2>3. pinned.route.kind = "ExactBackend" /\ pinned.route.voice_id = v.id
    BY <2>1 DEF PinnedRoute
  <2> QED BY <2>2, <2>3, PinnedSynthesis DEF pinned
<1> HIDE DEF pinned
<1>2. \/ v = NoVoice /\ ExactVoice(req) = None
      \/ v \in InstalledVoices(backend) /\ (ExactVoice(req) # None => v.id = ExactVoice(req))
  BY <1>1, SelectedVoiceIsInstalled
<1>3. /\ req.voice.kind # "Profile"
      /\ req.voice.kind = "Exact" => req.voice.id = ExactVoice(req) /\ req.voice.id # None
  BY VoiceGatesSay DEF SynthesisRequests, VoiceSelectors, None
<1>4. CASE v = NoVoice /\ ExactVoice(req) = None
  <2>1. ExactVoice(pinned) = None
    BY <1>1, <1>3, <1>4 DEF ExactVoice, NoVoice
  <2>2. Passes(VoiceGates(pinned, backend))
    BY <1>1, <1>3, <1>4, <2>1, VoiceGatesSay
  <2>3. /\ LanguageVoices(pinned, backend) = LanguageVoices(req, backend)
        /\ \A voice : VoiceKey(pinned, voice) = VoiceKey(req, voice)
    BY <1>1 DEF LanguageVoices, VoiceKey
  <2>4. BestVoices(pinned, backend) = BestVoices(req, backend)
    BY <2>3 DEF BestVoices
  <2>5. VoiceChoice(pinned, backend) = VoiceChoice(req, backend)
    BY <1>1, <1>4, <2>1, <2>4 DEF VoiceChoice
  <2>7. SelectVoice(pinned, backend) = SelectVoice(req, backend)
    BY <1>1, <2>5, VoiceIsChosen
  <2> QED BY <2>2, <2>7 DEF pinned
<1>5. CASE v \in InstalledVoices(backend) /\ (ExactVoice(req) # None => v.id = ExactVoice(req))
  <2>1. v.id # None
    BY <1>5 DEF BackendDescribed, VoicesDescribed, InstalledVoices, None
  <2>2. ExactVoice(pinned) = v.id
    <3> HIDE DEF v
    <3> QED BY <1>1, <2>1 DEF ExactVoice
  <2>4. req.voice.kind = "Exact" => req.voice.id = v.id
    BY <1>3, <1>5
  <2>5. Passes(VoiceGates(pinned, backend))
    BY <1>1, <1>3, <1>5, <2>2, <2>4, VoiceGatesSay
  <2>6. SelectVoice(pinned, backend).id = ExactVoice(pinned)
    BY <1>1, <2>1, <2>2, <2>5, SelectedVoiceIsInstalled
  <2> QED BY <2>2, <2>5, <2>6 DEF pinned
<1> QED BY <1>2, <1>4, <1>5
-----------------------------------------------------------------------------
(* What the snapshot describes.                                            *)

ReportDescribed(backends) == \A i \in DOMAIN backends : BackendDescribed(backends[i])

Described ==
  /\ system \in Systems
  /\ \A s \in DOMAIN snapshot :
       snapshot[s].status = "Succeeded" => ReportDescribed(snapshot[s].backends)
  /\ NativeReported => \E sys \in Systems : snapshot[AppleSource].backends = ProbeMacos(sys)
  /\ plan # NoPlan => request \in Requests

LEMMA AppleIsDescribed ==
  ASSUME NEW sys \in Systems
  PROVE  ReportDescribed(ProbeMacos(sys))
<1>0. VoicesDescribed(sys.voices) /\ VoicesDescribed(<< >>)
  <2>1. VoicesDescribed(sys.voices)
    BY SystemAssumption
  <2>2. Range(<< >>) = {} /\ << >> \in Seq({})
    BY DEF Range
  <2>3. VoicesDescribed(<< >>)
    BY <2>2 DEF VoicesDescribed
  <2> QED BY <2>1, <2>3
<1>1. \A id \in Nat : BackendDescribed(Unavailable(id))
  BY <1>0 DEF BackendDescribed, Unavailable, BackendKinds
<1>2. BackendDescribed(ProbeSynthesis(sys.voices))
  BY <1>0, <1>1, IdAssumption DEF BackendDescribed, ProbeSynthesis, BackendKinds, OptionalIds
<1>3. BackendDescribed(ProbeRecognition(sys.authorization, sys.recognizer))
  BY <1>0, <1>1, IdAssumption DEF BackendDescribed, ProbeRecognition, BackendKinds, OptionalIds
<1>4. \A i \in DOMAIN ProbeMacos(sys) :
        \/ ProbeMacos(sys)[i] = ProbeSynthesis(sys.voices)
        \/ ProbeMacos(sys)[i] = ProbeRecognition(sys.authorization, sys.recognizer)
  BY DEF ProbeMacos
<1> QED BY <1>2, <1>3, <1>4 DEF ReportDescribed

LEMMA DescribedInvariant == Spec => []Described
<1>1. Init => Described
  BY DEF Init, Described, NativeReported
<1>2. Described /\ [Next]_vars => Described'
  <2> SUFFICES ASSUME Described, [Next]_vars PROVE Described'
    OBVIOUS
  <2>1. ASSUME NEW source, NEW report, AddReport(source, report),
               report.status = "Succeeded" =>
                 /\ ReportDescribed(report.backends)
                 /\ source = AppleSource =>
                      \E sys \in Systems : report.backends = ProbeMacos(sys)
        PROVE  Described'
    <3>1. /\ system' = system /\ plan' = plan /\ request' = request
          /\ snapshot' = [s \in DOMAIN snapshot \cup {source} |->
                            IF s = source THEN report ELSE snapshot[s]]
      BY <2>1 DEF AddReport
    <3>2. \A s \in DOMAIN snapshot' :
            snapshot'[s].status = "Succeeded" => ReportDescribed(snapshot'[s].backends)
      BY <2>1, <3>1 DEF Described
    <3>3. NativeReported' => \E sys \in Systems : snapshot'[AppleSource].backends = ProbeMacos(sys)
      <4>1. CASE source = AppleSource
        BY <2>1, <3>1, <4>1 DEF NativeReported
      <4>2. CASE source # AppleSource
        BY <3>1, <4>2 DEF NativeReported, Described
      <4> QED BY <4>1, <4>2
    <3> QED BY <3>1, <3>2, <3>3 DEF Described
  <2>2. ASSUME NEW source \in Sources, Report(source) PROVE Described'
    <3>1. PICK backends \in IF source = AppleSource THEN {ProbeMacos(system)} ELSE Offers[source] :
            AddReport(source, SourceReport(source, backends))
      BY <2>2 DEF Report
    <3>2. ReportDescribed(backends)
      BY <2>2, <3>1, AppleIsDescribed, OfferAssumption DEF Described, ReportDescribed
    <3>3. SourceReport(source, backends).status = "Succeeded" =>
            /\ ReportDescribed(SourceReport(source, backends).backends)
            /\ source = AppleSource =>
                 \E sys \in Systems : SourceReport(source, backends).backends = ProbeMacos(sys)
      BY <3>1, <3>2 DEF SourceReport, Described
    <3> QED BY <3>1, <3>3, <2>1
  <2>3. ASSUME NEW source \in Sources, ReportsNothing(source) PROVE Described'
    <3>1. PICK status \in {"Failed", "TimedOut"} :
            AddReport(source, [status |-> status, backends |-> << >>])
      BY <2>3 DEF ReportsNothing
    <3> DEFINE report == [status |-> status, backends |-> << >>]
    <3>2. report.status # "Succeeded"
      OBVIOUS
    <3> HIDE DEF report
    <3> QED BY <3>1, <3>2, <2>1 DEF report
  <2>4. ASSUME NEW source \in Sources, Register(source) PROVE Described'
    BY <2>4 DEF Described, NativeReported, Register
  <2>5. CASE StartProbe
    BY <2>5 DEF Described, NativeReported, StartProbe
  <2>6. CASE SystemChanges
    BY <2>6 DEF Described, NativeReported, SystemChanges
  <2>10. CASE HostSnapshot
    <3>1. PICK backends \in Offers[HostSource] :
            snapshot' = [s \in {HostSource} |-> [status |-> "Succeeded", backends |-> backends]]
      BY <2>10 DEF HostSnapshot
    <3>2. ReportDescribed(backends)
      BY OfferAssumption DEF ReportDescribed
    <3>3. DOMAIN snapshot' = {HostSource} /\ snapshot'[HostSource].backends = backends
      BY <3>1
    <3>4. AppleSource # HostSource
      BY RoutingAssumption
    <3> QED BY <2>10, <3>2, <3>3, <3>4 DEF Described, NativeReported, HostSnapshot
  <2>7. CASE PlanRoute
    BY <2>7 DEF Described, NativeReported, PlanRoute
  <2>8. CASE Speak
    BY <2>8 DEF Described, NativeReported, Speak
  <2>9. CASE UNCHANGED vars
    BY <2>9 DEF Described, NativeReported, vars
  <2> QED BY <2>2, <2>3, <2>4, <2>5, <2>6, <2>7, <2>8, <2>9, <2>10 DEF Next
<1> QED BY <1>1, <1>2, PTL DEF Spec
-----------------------------------------------------------------------------
(* Selections of one snapshot.                                             *)

LEMMA PlacesAreDescribed ==
  ASSUME Described, NEW at \in CapabilitiesOf(snapshot)
  PROVE  LET backend == BackendAt(snapshot, at[1])
             capability == CapabilityAt(snapshot, at)
         IN /\ BackendDescribed(backend)
            /\ at[1] \in SuccessfulBackends(snapshot)
            /\ backend.id \in Nat /\ backend.kind \in BackendKinds
            /\ capability.id \in Nat /\ capability.model_id \in OptionalIds
<1> DEFINE backend == BackendAt(snapshot, at[1])
<1>1. at[1] \in SuccessfulBackends(snapshot) /\ at[2] \in DOMAIN backend.capabilities
  BY CapabilitiesHaveBackends
<1>2. BackendDescribed(backend)
  BY <1>1, PlacesAreReported DEF Described, ReportDescribed, BackendAt
<1>3. CapabilityAt(snapshot, at) = backend.capabilities[at[2]]
  BY DEF CapabilityAt
<1> HIDE DEF backend
<1>4. /\ backend.id \in Nat /\ backend.kind \in BackendKinds
      /\ backend.capabilities[at[2]].id \in Nat
      /\ backend.capabilities[at[2]].model_id \in OptionalIds
  BY <1>1, <1>2 DEF BackendDescribed
<1> QED BY <1>1, <1>2, <1>3, <1>4 DEF backend

(* Distinct places have distinct ids, and a backend's id has a text.       *)
LEMMA ValidIdsAreOwn ==
  ASSUME SnapshotValid(snapshot), NEW at \in CapabilitiesOf(snapshot)
  PROVE  /\ BackendAt(snapshot, at[1]).id # Empty
         /\ \A other \in CapabilitiesOf(snapshot) :
              /\ CapabilityAt(snapshot, other).id = CapabilityAt(snapshot, at).id => other = at
              /\ BackendAt(snapshot, other[1]).id = BackendAt(snapshot, at[1]).id =>
                   other[1] = at[1]
<1>1. \A other \in CapabilitiesOf(snapshot) :
        other[1] \in SuccessfulBackends(snapshot)
        /\ other[2] \in DOMAIN BackendAt(snapshot, other[1]).capabilities
  BY CapabilitiesHaveBackends
<1>3. BackendAt(snapshot, at[1]).id # Empty
  BY <1>1 DEF SnapshotValid, BackendValid
<1>4. \A other \in CapabilitiesOf(snapshot) :
        CapabilityAt(snapshot, other).id = CapabilityAt(snapshot, at).id => other = at
  BY DEF SnapshotValid
<1>5. \A other \in CapabilitiesOf(snapshot) :
        BackendAt(snapshot, other[1]).id = BackendAt(snapshot, at[1]).id => other[1] = at[1]
  BY <1>1 DEF SnapshotValid
<1> QED BY <1>3, <1>4, <1>5

(* A rank is the place of the kind, then at most four for the voice.       *)
LEMMA SelectionIsRanked ==
  ASSUME Described, NEW req, req.profile \in Profiles, NEW at \in AdmissibleAt(req, snapshot)
  PROVE  LET s == Selection(req, snapshot, at) IN
         /\ s.backend_id = BackendAt(snapshot, at[1]).id /\ s.backend_id \in Nat
         /\ s.capability_id = CapabilityAt(snapshot, at).id /\ s.capability_id \in Nat
         /\ s.backend_kind = BackendAt(snapshot, at[1]).kind
         /\ PolicyRank(req.profile, s.backend_kind) \in 0..4
         /\ s.policy_rank \in Nat
         /\ \E cost \in 0..4 : s.policy_rank = 10 * PolicyRank(req.profile, s.backend_kind) + cost
<1> DEFINE backend == BackendAt(snapshot, at[1])
           capability == CapabilityAt(snapshot, at)
           voice == SelectVoice(req, backend)
           rank == PolicyRank(req.profile, backend.kind)
           cost == IF voice.id = None THEN 0 ELSE 4 - voice.quality
           s == Selection(req, snapshot, at)
<1>1. at \in CapabilitiesOf(snapshot) /\ Admissible(req, backend, capability)
  BY DEF AdmissibleAt
<1>2. /\ BackendDescribed(backend) /\ backend.id \in Nat /\ backend.kind \in BackendKinds
      /\ capability.id \in Nat
  BY <1>1, PlacesAreDescribed
<1>3. rank \in 0..4
  BY <1>2, RanksAreBounded
<1>4. cost \in 0..4
  <2>1. CASE req.operation = "Transcription"
    <3>1. voice = NoVoice
      BY <2>1 DEF SelectVoice
    <3> QED BY <3>1 DEF NoVoice
  <2>2. CASE req.operation # "Transcription"
    <3>1. Passes(VoiceGates(req, backend))
      BY <1>1, <2>2, OperationGatesSay, SynthesisGatesSay DEF Admissible
    <3>2. voice = NoVoice \/ voice \in InstalledVoices(backend)
      BY <1>2, <2>2, <3>1, SelectedVoiceIsInstalled
    <3>3. voice \in InstalledVoices(backend) => voice.quality \in 0..4
      BY <1>2 DEF InstalledVoices, BackendDescribed, VoicesDescribed
    <3> HIDE DEF voice
    <3> QED BY <3>2, <3>3 DEF NoVoice
  <2> QED BY <2>1, <2>2
<1>5. /\ s.backend_id = backend.id /\ s.capability_id = capability.id
      /\ s.backend_kind = backend.kind /\ s.policy_rank = 10 * rank + cost
  BY DEF Selection
<1> HIDE DEF backend, capability, rank, cost, s
<1>6. s.policy_rank \in Nat
  BY <1>3, <1>4, <1>5
<1>7. rank = PolicyRank(req.profile, s.backend_kind)
  BY <1>5 DEF rank
<1> QED BY <1>2, <1>3, <1>4, <1>5, <1>6, <1>7 DEF backend, capability, s

(* A selection that no other beats is the only one.                        *)
LEMMA LeastSelectionIsOne ==
  ASSUME Described, SnapshotValid(snapshot), NEW req, req.profile \in Profiles,
         NEW a \in AdmissibleAt(req, snapshot), NEW b \in AdmissibleAt(req, snapshot),
         ~Before(SelectionKey(Selection(req, snapshot, a)),
                 SelectionKey(Selection(req, snapshot, b))),
         ~Before(SelectionKey(Selection(req, snapshot, b)),
                 SelectionKey(Selection(req, snapshot, a)))
  PROVE  a = b
<1> DEFINE s == Selection(req, snapshot, a)
           t == Selection(req, snapshot, b)
<1>1. /\ s.policy_rank \in Nat /\ s.backend_id \in Nat /\ s.capability_id \in Nat
      /\ t.policy_rank \in Nat /\ t.backend_id \in Nat /\ t.capability_id \in Nat
      /\ s.capability_id = CapabilityAt(snapshot, a).id
      /\ t.capability_id = CapabilityAt(snapshot, b).id
  BY SelectionIsRanked
<1> HIDE DEF s, t
<1>2. s.capability_id = t.capability_id
  <2> DEFINE x == <<s.policy_rank, s.backend_id, s.capability_id>>
             y == <<t.policy_rank, t.backend_id, t.capability_id>>
  <2>1. ~Before(x, y) /\ ~Before(y, x)
    BY DEF s, t, SelectionKey
  <2> HIDE DEF x, y
  <2> QED BY <1>1, <2>1, EqualTriples DEF x, y
<1>3. a \in CapabilitiesOf(snapshot) /\ b \in CapabilitiesOf(snapshot)
  BY DEF AdmissibleAt
<1> QED BY <1>1, <1>2, <1>3, ValidIdsAreOwn

(* Of one backend's capabilities the one whose id comes first is selected. *)
LEMMA WithinOneBackend ==
  ASSUME Described, NEW req, req.profile \in Profiles,
         NEW a \in AdmissibleAt(req, snapshot), NEW b \in AdmissibleAt(req, snapshot),
         a[1] = b[1]
  PROVE  Before(SelectionKey(Selection(req, snapshot, a)),
                SelectionKey(Selection(req, snapshot, b))) <=>
           CapabilityAt(snapshot, a).id < CapabilityAt(snapshot, b).id
<1> DEFINE s == Selection(req, snapshot, a)
           t == Selection(req, snapshot, b)
<1>1. /\ s.policy_rank \in Nat /\ s.backend_id \in Nat /\ s.capability_id \in Nat
      /\ t.policy_rank \in Nat /\ t.backend_id \in Nat /\ t.capability_id \in Nat
      /\ s.capability_id = CapabilityAt(snapshot, a).id
      /\ t.capability_id = CapabilityAt(snapshot, b).id
  BY SelectionIsRanked
<1>2. s.policy_rank = t.policy_rank /\ s.backend_id = t.backend_id
  BY DEF Selection
<1> HIDE DEF s, t
<1>3. Before(SelectionKey(s), SelectionKey(t)) <=> s.capability_id < t.capability_id
  BY <1>1, <1>2, BeforeTriples DEF SelectionKey
<1> QED BY <1>1, <1>3 DEF s, t

(* With a plan pinned into it a request has the plan among its candidates, *)
(* but for its rank, and no other candidates than of the plan's backend    *)
(* that it had before.                                                     *)
LEMMA PinnedCandidates ==
  ASSUME Described, SnapshotValid(snapshot), NEW req \in Requests,
         Passes(RequestChecks(req)), NEW at \in AdmissibleAt(req, snapshot)
  PROVE  LET pinned == Pinned(req, Selection(req, snapshot, at)) IN
         /\ at \in AdmissibleAt(pinned, snapshot)
         /\ \A other \in AdmissibleAt(pinned, snapshot) :
              other[1] = at[1] /\ other \in AdmissibleAt(req, snapshot)
         /\ Unranked(Selection(pinned, snapshot, at)) = Unranked(Selection(req, snapshot, at))
         /\ pinned.profile = req.profile
<1> DEFINE selected == Selection(req, snapshot, at)
           pinned == Pinned(req, selected)
           backend == BackendAt(snapshot, at[1])
           capability == CapabilityAt(snapshot, at)
<1>1. /\ at \in CapabilitiesOf(snapshot)
      /\ Passes(OperationGates(req, backend, capability))
      /\ Passes(CommonGates(req, backend, capability))
  BY DEF AdmissibleAt, Admissible
<1>2. BackendDescribed(backend)
  BY <1>1, PlacesAreDescribed
<1>3. /\ selected.backend_id = backend.id /\ selected.model_id = capability.model_id
      /\ selected.voice_id = SelectVoice(req, backend).id
  BY DEF Selection
<1>4. req \in TranscriptionRequests \cup SynthesisRequests
  BY RequestAssumption
<1>5. /\ pinned.operation = req.operation /\ pinned.profile = req.profile
      /\ pinned.privacy = req.privacy
      /\ pinned.route.kind = "ExactBackend" /\ pinned.route.backend_id = backend.id
      /\ pinned.route.model_id = capability.model_id
  <2>1. pinned.route = PinnedRoute(selected)
    BY <1>4, PinnedCommon
  <2>2. /\ pinned.operation = req.operation /\ pinned.profile = req.profile
        /\ pinned.privacy = req.privacy
    BY <1>4, PinnedCommon
  <2> HIDE DEF pinned, selected
  <2> QED BY <1>3, <2>1, <2>2 DEF PinnedRoute
<1> HIDE DEF pinned, selected, backend, capability
(* In this backend the gates of the operation stay as they were.           *)
<1>6. /\ \A c : Passes(OperationGates(pinned, backend, c)) <=>
                Passes(OperationGates(req, backend, c))
      /\ SelectVoice(pinned, backend).id = SelectVoice(req, backend).id
  <2>1. CASE req \in TranscriptionRequests
    <3>1. req.operation = "Transcription"
      BY <2>1 DEF TranscriptionRequests
    <3>2. \A c : TranscriptionGates(pinned, c) = TranscriptionGates(req, c)
      <4>1. /\ pinned.language = req.language /\ pinned.input = req.input
            /\ pinned.partial_results = req.partial_results
            /\ pinned.timestamps = req.timestamps /\ pinned.diarization = req.diarization
            /\ pinned.translate = req.translate /\ pinned.hotwords = req.hotwords
        BY <2>1, PinnedTranscription DEF pinned
      <4> QED BY <4>1 DEF TranscriptionGates
    <3>3. SelectVoice(pinned, backend) = NoVoice /\ SelectVoice(req, backend) = NoVoice
      BY <1>5, <3>1 DEF SelectVoice
    <3>4. \A c : Passes(OperationGates(pinned, backend, c)) <=>
                 Passes(OperationGates(req, backend, c))
      BY <1>5, <3>1, <3>2, OperationGatesSay
    <3> QED BY <3>3, <3>4
  <2>2. CASE req \in SynthesisRequests
    <3>1. req.operation = "Synthesis"
      BY <2>2 DEF SynthesisRequests
    <3>2. \A c : PlainSynthesisGates(pinned, c) = PlainSynthesisGates(req, c)
      <4>1. /\ pinned.language = req.language /\ pinned.ssml = req.ssml
            /\ pinned.stream = req.stream /\ pinned.output = req.output
            /\ pinned.alignment = req.alignment
        BY <2>2, PinnedSynthesis DEF pinned
      <4> QED BY <4>1 DEF PlainSynthesisGates
    <3>3. Passes(VoiceGates(req, backend))
      BY <1>1, <3>1, OperationGatesSay, SynthesisGatesSay
    <3>5. /\ Passes(VoiceGates(pinned, backend))
          /\ SelectVoice(pinned, backend).id = SelectVoice(req, backend).id
      BY <1>2, <1>3, <2>2, <3>3, PinnedVoice DEF pinned
    <3>6. \A c : Passes(OperationGates(pinned, backend, c)) <=>
                 Passes(OperationGates(req, backend, c))
      BY <1>5, <3>1, <3>2, <3>3, <3>5, OperationGatesSay, SynthesisGatesSay
    <3> QED BY <3>5, <3>6
  <2> QED BY <1>4, <2>1, <2>2
(* What is admissible now was, and is in this backend.                     *)
<1>7. ASSUME NEW other \in AdmissibleAt(pinned, snapshot)
      PROVE  other[1] = at[1] /\ other \in AdmissibleAt(req, snapshot)
  <2> DEFINE there == BackendAt(snapshot, other[1])
             c == CapabilityAt(snapshot, other)
  <2>1. /\ other \in CapabilitiesOf(snapshot)
        /\ Passes(OperationGates(pinned, there, c)) /\ Passes(CommonGates(pinned, there, c))
    BY DEF AdmissibleAt, Admissible
  <2>2. /\ there.id = backend.id
        /\ capability.model_id \in {None, c.model_id}
        /\ there.readiness = "Ready" /\ c.availability = "Available"
        /\ ~(pinned.privacy = "LocalOnly" /\ there.kind = "Hosted")
        /\ ~(pinned.privacy = "LocalOnly" /\ ~EligibleForLocalOnly(c))
        /\ ~(pinned.privacy = "HostedOnly" /\ there.kind # "Hosted")
    BY <1>5, <2>1, CommonGatesSay
  <2>3. other[1] = at[1] /\ there = backend
    BY <1>1, <2>1, <2>2, ValidIdsAreOwn DEF backend
  <2>4. /\ req.route.kind = "ExactBackend" =>
             /\ req.route.backend_id = backend.id
             /\ req.route.model_id \in {None, capability.model_id}
        /\ req.route.kind # "Profile"
    BY <1>1, CommonGatesSay
  <2>5. Passes(OperationGates(req, there, c))
    BY <1>6, <2>1, <2>3
  <2> HIDE DEF there, c
  <2>6. Passes(CommonGates(req, there, c))
    BY <1>5, <2>2, <2>3, <2>4, CommonGatesSay
  <2> QED BY <2>1, <2>3, <2>5, <2>6 DEF AdmissibleAt, Admissible, there, c
<1>8. at \in AdmissibleAt(pinned, snapshot)
  <2>1. Passes(OperationGates(pinned, backend, capability))
    BY <1>1, <1>6
  <2>2. Passes(CommonGates(pinned, backend, capability))
    BY <1>1, <1>5, CommonGatesSay
  <2> QED BY <1>1, <2>1, <2>2 DEF AdmissibleAt, Admissible, backend, capability
<1>9. Unranked(Selection(pinned, snapshot, at)) = Unranked(Selection(req, snapshot, at))
  BY <1>6 DEF Selection, Unranked, backend
<1> QED BY <1>5, <1>7, <1>8, <1>9 DEF pinned, selected
-----------------------------------------------------------------------------
(* The plans of a valid request: there is one as soon as a capability is   *)
(* admissible, it is that of an admissible place, and nothing beats it.    *)
LEMMA PlansAreLeast ==
  ASSUME NEW req, Passes(RequestChecks(req)), SnapshotValid(snapshot), NEW p
  PROVE  /\ p \in Plans(req, snapshot) =>
              /\ p.rejections = Rejections(req, snapshot)
              /\ p.result = "Planned" <=> AdmissibleAt(req, snapshot) # {}
              /\ p.result = "Planned" =>
                   \E at \in AdmissibleAt(req, snapshot) :
                     /\ p.selected = Selection(req, snapshot, at)
                     /\ \A other \in AdmissibleAt(req, snapshot) :
                          ~Before(SelectionKey(Selection(req, snapshot, other)),
                                  SelectionKey(Selection(req, snapshot, at)))
         /\ \A at \in AdmissibleAt(req, snapshot) :
              (\A other \in AdmissibleAt(req, snapshot) :
                 ~Before(SelectionKey(Selection(req, snapshot, other)),
                         SelectionKey(Selection(req, snapshot, at)))) =>
                [result |-> "Planned", selected |-> Selection(req, snapshot, at),
                 rejections |-> Rejections(req, snapshot)] \in Plans(req, snapshot)
<1> DEFINE least == {s \in Candidates(req, snapshot) :
                       \A t \in Candidates(req, snapshot) :
                         ~Before(SelectionKey(t), SelectionKey(s))}
           rejections == Rejections(req, snapshot)
<1>1. Plans(req, snapshot) =
        IF Candidates(req, snapshot) = {}
          THEN {[result |-> "NoEligibleRoute", rejections |-> rejections]}
          ELSE {[result |-> "Planned", selected |-> s, rejections |-> rejections] : s \in least}
  BY DEF Plans, Finalize, Least
<1>2. Candidates(req, snapshot) =
        {Selection(req, snapshot, at) : at \in AdmissibleAt(req, snapshot)}
  BY DEF Candidates
<1>3. Candidates(req, snapshot) = {} <=> AdmissibleAt(req, snapshot) = {}
  BY <1>2
<1>4. \A s \in least : \E at \in AdmissibleAt(req, snapshot) :
        /\ s = Selection(req, snapshot, at)
        /\ \A other \in AdmissibleAt(req, snapshot) :
             ~Before(SelectionKey(Selection(req, snapshot, other)),
                     SelectionKey(Selection(req, snapshot, at)))
  BY <1>2
<1>5. \A at \in AdmissibleAt(req, snapshot) :
        (\A other \in AdmissibleAt(req, snapshot) :
           ~Before(SelectionKey(Selection(req, snapshot, other)),
                   SelectionKey(Selection(req, snapshot, at)))) =>
          Selection(req, snapshot, at) \in least
  BY <1>2
<1> HIDE DEF least, rejections
<1>6. p \in Plans(req, snapshot) =>
        /\ p.rejections = rejections
        /\ p.result = "Planned" <=> AdmissibleAt(req, snapshot) # {}
        /\ p.result = "Planned" => p.selected \in least
  BY <1>1, <1>3
<1>7. \A s \in least :
        [result |-> "Planned", selected |-> s, rejections |-> rejections] \in Plans(req, snapshot)
  BY <1>1, <1>2, <1>3 DEF least
<1> QED BY <1>4, <1>5, <1>6, <1>7 DEF rejections

(* Of the reasons in a receipt at most one is about a capability: its own. *)
LEMMA RefusedOnce ==
  ASSUME Described, SnapshotValid(snapshot), NEW req, NEW c \in CapabilitiesOf(snapshot)
  PROVE  LET refused == {r \in Rejections(req, snapshot) :
                           r.capability_id = CapabilityAt(snapshot, c).id}
         IN /\ Cardinality(refused) <= 1
            /\ c \notin AdmissibleAt(req, snapshot) => refused # {}
<1> DEFINE id == CapabilityAt(snapshot, c).id
           rejection(at) == CapabilityRejection(req, BackendAt(snapshot, at[1]),
                                                CapabilityAt(snapshot, at))
           refused == {r \in Rejections(req, snapshot) : r.capability_id = id}
           ofBackends == UNION {BackendRejections(req, BackendAt(snapshot, at)) :
                                at \in SuccessfulBackends(snapshot)}
           ofCapabilities == {rejection(at) : at \in CapabilitiesOf(snapshot)
                                                       \ AdmissibleAt(req, snapshot)}
<1>1. Rejections(req, snapshot) = ofBackends \cup ofCapabilities
  BY DEF Rejections
<1>2. \A r \in ofBackends : r.capability_id = None
  BY DEF BackendRejections, Rejection
<1>3. \A at : rejection(at).capability_id = CapabilityAt(snapshot, at).id
  BY DEF CapabilityRejection, Rejection
<1>4. id # None /\ \A at \in CapabilitiesOf(snapshot) :
        CapabilityAt(snapshot, at).id = id => at = c
  BY ValidIdsAreOwn, PlacesAreDescribed DEF None
<1> HIDE DEF rejection, id
<1>5. refused \subseteq {rejection(c)}
  BY <1>1, <1>2, <1>3, <1>4
<1>6. c \notin AdmissibleAt(req, snapshot) => rejection(c) \in refused
  BY <1>1, <1>3 DEF id
<1> HIDE DEF refused, ofBackends, ofCapabilities
<1>7. Cardinality({}) = 0 /\ Cardinality({rejection(c)}) = 1
  BY FS_EmptySet, FS_Singleton
<1>8. refused = {} \/ refused = {rejection(c)}
  BY <1>5
<1>9. Cardinality(refused) <= 1
  BY <1>7, <1>8
<1> QED BY <1>6, <1>9 DEF refused, id

(* Whatever is reported, by sources or by the host's backends, and         *)
(* whatever is asked: every capability of the snapshot is refused once or  *)
(* preferred no more than the planned one, there is one plan, and it is    *)
(* but for its rank the plan of the request it is pinned into, unless an   *)
(* id in it is blank: that request is refused.                             *)
THEOREM PlansAreBest == Spec => []PlanIsBest
<1>1. Routed /\ Described => PlanIsBest
  <2> SUFFICES ASSUME Routed, Described, plan.result \in {"Planned", "NoEligibleRoute"}
               PROVE  PlanIsBest
    BY DEF PlanIsBest
  <2> DEFINE planned == plan.result = "Planned"
             key(at) == SelectionKey(Selection(request, snapshot, at))
             place(kind) == PolicyRank(request.profile, kind)
             refused(c) == {r \in plan.rejections :
                              r.capability_id = CapabilityAt(snapshot, c).id}
  <2>1. plan \in Plans(request, snapshot) /\ request \in Requests
    BY DEF Routed, PlanIsCurrent, Described, NoPlan
  <2>2. Passes(RequestChecks(request)) /\ SnapshotValid(snapshot)
    BY <2>1 DEF Plans
  <2>3. /\ plan.rejections = Rejections(request, snapshot)
        /\ planned <=> AdmissibleAt(request, snapshot) # {}
    BY <2>1, <2>2, PlansAreLeast
  <2>4. \A c \in CapabilitiesOf(snapshot) :
          /\ Cardinality(refused(c)) <= 1
          /\ c \notin AdmissibleAt(request, snapshot) => refused(c) # {}
    BY <2>2, <2>3, RefusedOnce
  <2>7. request.profile \in Profiles
    BY <2>1, RequestAssumption DEF TranscriptionRequests, SynthesisRequests
  <2>5. ASSUME planned
        PROVE  /\ \A c \in AdmissibleAt(request, snapshot) :
                    place(plan.selected.backend_kind) <= place(BackendAt(snapshot, c[1]).kind)
               /\ {p.selected : p \in Plans(request, snapshot)} = {plan.selected}
               /\ LET again == Plans(Pinned(request, plan.selected), snapshot) IN
                  IF Empty \in {plan.selected.model_id, plan.selected.voice_id}
                    THEN \A p \in again : p.result = "RequestInvalid"
                    ELSE {Unranked(p.selected) : p \in again} = {Unranked(plan.selected)}
    <3>1. PICK at \in AdmissibleAt(request, snapshot) :
            /\ plan.selected = Selection(request, snapshot, at)
            /\ \A other \in AdmissibleAt(request, snapshot) : ~Before(key(other), key(at))
      BY <2>1, <2>2, <2>5, PlansAreLeast
    <3>2. ASSUME NEW c \in AdmissibleAt(request, snapshot)
          PROVE  place(plan.selected.backend_kind) <= place(BackendAt(snapshot, c[1]).kind)
      <4> DEFINE s == Selection(request, snapshot, at)
                 t == Selection(request, snapshot, c)
      <4>1. /\ s.backend_id \in Nat /\ s.capability_id \in Nat /\ s.policy_rank \in Nat
            /\ t.backend_id \in Nat /\ t.capability_id \in Nat /\ t.policy_rank \in Nat
            /\ place(s.backend_kind) \in 0..4 /\ place(t.backend_kind) \in 0..4
            /\ \E cost \in 0..4 : s.policy_rank = 10 * place(s.backend_kind) + cost
            /\ \E cost \in 0..4 : t.policy_rank = 10 * place(t.backend_kind) + cost
            /\ t.backend_kind = BackendAt(snapshot, c[1]).kind
        BY <2>7, SelectionIsRanked
      <4>2. ~Before(SelectionKey(t), SelectionKey(s))
        BY <3>1
      <4> HIDE DEF s, t, place
      <4>3. ~(t.policy_rank < s.policy_rank)
        BY <4>1, <4>2, BeforeTriples DEF SelectionKey
      <4>4. place(s.backend_kind) <= place(t.backend_kind)
        BY <4>1, <4>3
      <4> QED BY <3>1, <4>1, <4>4 DEF s
    <3>3. {p.selected : p \in Plans(request, snapshot)} = {plan.selected}
      <4>1. ASSUME NEW p \in Plans(request, snapshot) PROVE p.selected = plan.selected
        <5>1. PICK b \in AdmissibleAt(request, snapshot) :
                /\ p.selected = Selection(request, snapshot, b)
                /\ \A other \in AdmissibleAt(request, snapshot) : ~Before(key(other), key(b))
          BY <2>2, <2>3, <2>5, PlansAreLeast
        <5>2. ~Before(key(at), key(b)) /\ ~Before(key(b), key(at))
          BY <3>1, <5>1
        <5>3. at = b
          BY <2>2, <2>7, <5>2, LeastSelectionIsOne
        <5> QED BY <3>1, <5>1, <5>3
      <4> QED BY <2>1, <4>1
    <3> DEFINE pinned == Pinned(request, Selection(request, snapshot, at))
               again == Plans(pinned, snapshot)
               pinnedKey(o) == SelectionKey(Selection(pinned, snapshot, o))
               id(o) == CapabilityAt(snapshot, o).id
    <3>4. /\ at \in AdmissibleAt(pinned, snapshot)
          /\ \A other \in AdmissibleAt(pinned, snapshot) :
               other[1] = at[1] /\ other \in AdmissibleAt(request, snapshot)
          /\ Unranked(Selection(pinned, snapshot, at)) = Unranked(Selection(request, snapshot, at))
          /\ pinned.profile = request.profile
      BY <2>1, <2>2, PinnedCandidates
    <3>5. Passes(RequestChecks(pinned)) <=> Nameable(plan.selected)
      BY <2>1, <2>2, <3>1, PinnedIsValid
    <3>6. plan.selected.backend_id # Empty
      BY <2>2, <3>1, ValidIdsAreOwn DEF Selection, AdmissibleAt
    <3>7. pinned = Pinned(request, plan.selected)
      BY <3>1
    <3> HIDE DEF pinned
    <3>8. CASE Empty \in {plan.selected.model_id, plan.selected.voice_id}
      <4>1. again = {[result |-> "RequestInvalid", code |-> Refusal(RequestChecks(pinned))]}
        BY <3>5, <3>8 DEF Plans, Nameable
      <4>2. \A p \in again : p.result = "RequestInvalid"
        BY <4>1
      <4> QED BY <3>2, <3>3, <3>7, <3>8, <4>2
    <3>9. CASE Empty \notin {plan.selected.model_id, plan.selected.voice_id}
      <4>1. Passes(RequestChecks(pinned))
        BY <3>5, <3>6, <3>9 DEF Nameable
(* No other capability of the backend beat it, and the voice that may      *)
(* differ is the same for them all.                                        *)
      <4>2. \A other \in AdmissibleAt(pinned, snapshot) :
              ~(id(other) < id(at)) /\ ~Before(pinnedKey(other), pinnedKey(at))
        <5> SUFFICES ASSUME NEW other \in AdmissibleAt(pinned, snapshot)
                     PROVE  ~(id(other) < id(at)) /\ ~Before(pinnedKey(other), pinnedKey(at))
          OBVIOUS
        <5>1. Before(key(other), key(at)) <=> id(other) < id(at)
          BY <2>7, <3>4, WithinOneBackend
        <5>2. Before(pinnedKey(other), pinnedKey(at)) <=> id(other) < id(at)
          BY <2>7, <3>4, WithinOneBackend
        <5> QED BY <3>1, <3>4, <5>1, <5>2
      <4>3. \E p \in again : Unranked(p.selected) = Unranked(plan.selected)
        <5> DEFINE p == [result |-> "Planned", selected |-> Selection(pinned, snapshot, at),
                         rejections |-> Rejections(pinned, snapshot)]
        <5>1. p \in again
          BY <2>2, <3>4, <4>1, <4>2, PlansAreLeast
        <5>2. p.selected = Selection(pinned, snapshot, at)
          OBVIOUS
        <5> HIDE DEF p, again
        <5> QED BY <3>1, <3>4, <5>1, <5>2
      <4>4. ASSUME NEW p \in again PROVE Unranked(p.selected) = Unranked(plan.selected)
        <5>1. PICK b \in AdmissibleAt(pinned, snapshot) :
                /\ p.selected = Selection(pinned, snapshot, b)
                /\ \A other \in AdmissibleAt(pinned, snapshot) :
                     ~Before(pinnedKey(other), pinnedKey(b))
          BY <2>2, <3>4, <4>1, PlansAreLeast
        <5>2. ~Before(pinnedKey(at), pinnedKey(b)) /\ ~Before(pinnedKey(b), pinnedKey(at))
          BY <3>4, <4>2, <5>1
        <5>3. at = b
          BY <2>2, <2>7, <3>4, <5>2, LeastSelectionIsOne
        <5> QED BY <3>1, <3>4, <5>1, <5>3
      <4> HIDE DEF again
      <4>5. {Unranked(p.selected) : p \in again} = {Unranked(plan.selected)}
        BY <4>3, <4>4
      <4> QED BY <3>2, <3>3, <3>7, <3>9, <4>5 DEF again
    <3> QED BY <3>8, <3>9
  <2>6. \A c \in CapabilitiesOf(snapshot) : refused(c) = {} =>
          planned /\ place(plan.selected.backend_kind) <= place(BackendAt(snapshot, c[1]).kind)
    BY <2>3, <2>4, <2>5
  <2> HIDE DEF place
  <2> QED BY <2>4, <2>5, <2>6 DEF PlanIsBest, place
<1> QED BY <1>1, RoutedInvariant, DescribedInvariant, PTL
-----------------------------------------------------------------------------
(* The voice of a plan.                                                    *)

LEMMA PlainSynthesisGatesSay ==
  ASSUME NEW req \in SynthesisRequests, NEW capability,
         capability.features = {"ssml"}, capability.audio = {"Wav", "DirectPlayback"},
         Passes(PlainSynthesisGates(req, capability))
  PROVE  ~req.stream /\ req.output = "Wav" /\ req.alignment = "None"
<1> DEFINE gates == PlainSynthesisGates(req, capability)
<1>1. DOMAIN gates = {1, 2, 3, 4, 5}
  BY DEF PlainSynthesisGates
<1>2. /\ gates[3][1] = (req.stream /\ "streaming_audio" \notin capability.features)
      /\ gates[4][1] = (req.output \notin capability.audio)
      /\ gates[5][1] = (\/ req.alignment = "Word" /\ "word_alignment" \notin capability.features
                        \/ req.alignment = "Phoneme" /\ "phoneme_alignment" \notin capability.features)
  BY DEF PlainSynthesisGates
<1> HIDE DEF gates
<1>3. ~gates[3][1] /\ ~gates[4][1] /\ ~gates[5][1]
  BY <1>1 DEF Passes, gates
<1>4. /\ req.output \in {"Wav", "Pcm", "Mp3", "OggOpus"}
      /\ req.alignment \in {"None", "Word", "Phoneme"} /\ req.stream \in BOOLEAN
  BY DEF SynthesisRequests
<1> QED BY <1>2, <1>3, <1>4

(* A list whose failures are among its last two is refused by one of them. *)
LEMMA LastTwoRefuse ==
  ASSUME NEW a, IsList(a), Passes(a),
         NEW c1, NEW c2, NEW c3, NEW c4, NEW c5, NEW c6,
         ~c1[1], ~c2[1], ~c3[1], ~c4[1],
         ~Passes(a \o <<c1, c2, c3, c4, c5, c6>>)
  PROVE  Refusal(a \o <<c1, c2, c3, c4, c5, c6>>) \in {c5[2], c6[2]}
<1> DEFINE b == <<c1, c2, c3, c4, c5, c6>>
           list == a \o b
           n == Len(a)
           failing == {i \in DOMAIN list : list[i][1]}
           S == {a[i] : i \in DOMAIN a} \cup {c1, c2, c3, c4, c5, c6}
<1>0. c1 \in S /\ c2 \in S /\ c3 \in S /\ c4 \in S /\ c5 \in S /\ c6 \in S
  OBVIOUS
<1>2. a \in Seq(S)
  BY DEF IsList
<1> HIDE DEF S
<1>1. /\ b \in Seq(S) /\ Len(b) = 6
      /\ b[1] = c1 /\ b[2] = c2 /\ b[3] = c3 /\ b[4] = c4 /\ b[5] = c5 /\ b[6] = c6
  BY <1>0
<1> HIDE DEF b
<1>3. n \in Nat /\ DOMAIN a = 1..n /\ DOMAIN list = 1..(n + 6)
  <2>1. /\ DOMAIN a = 1..Len(a) /\ DOMAIN (a \o b) = 1..(Len(a) + Len(b))
        /\ Len(a) \in Nat /\ Len(b) \in Nat /\ a \o b \in Seq(S)
    <3>1. b \in Seq(S)
      BY <1>1
    <3> HIDE DEF b
    <3> QED BY <1>2, <3>1
  <2> QED BY <1>1, <2>1
<1>4. \A i \in 1..n : list[i] = a[i]
  BY <1>1, <1>2, <1>3
<1>5. \A k \in 1..6 : list[n + k] = b[k]
  BY <1>1, <1>2, <1>3
<1> HIDE DEF list, n
<1>6. /\ list[n + 1] = c1 /\ list[n + 2] = c2 /\ list[n + 3] = c3
      /\ list[n + 4] = c4 /\ list[n + 5] = c5 /\ list[n + 6] = c6
  BY <1>1, <1>5
<1>7. \A i \in DOMAIN list : i \in DOMAIN a \/ i \in {n+1, n+2, n+3, n+4, n+5, n+6}
  BY <1>3
<1>8. \A i \in DOMAIN a : ~list[i][1]
  BY <1>3, <1>4 DEF Passes
<1>9. failing \subseteq {n + 5, n + 6}
  BY <1>6, <1>7, <1>8
<1>10. failing # {}
  BY DEF Passes, list, b
<1> HIDE DEF failing
<1>11. \E i \in failing : \A j \in failing : i <= j
  <2>1. CASE n + 5 \in failing
    BY <1>3, <1>9, <2>1
  <2>2. CASE n + 5 \notin failing
    <3>1. failing = {n + 6}
      BY <1>9, <1>10, <2>2
    <3> QED BY <1>3, <3>1
  <2> QED BY <2>1, <2>2
<1> DEFINE least == CHOOSE i \in failing : \A j \in failing : i <= j
<1>12. least \in failing
  BY <1>11
<1> HIDE DEF least
<1>13. list[least][2] \in {c5[2], c6[2]}
  BY <1>6, <1>9, <1>12
<1> QED BY <1>13 DEF Refusal, list, least, failing, b

(* On Apple's own report a plan for its backend is one for its only        *)
(* capability, the one that probe_synthesis describes.                     *)
LEMMA NativePlan ==
  ASSUME Described, NativeReported, SnapshotValid(snapshot),
         NEW at \in CapabilitiesOf(snapshot), BackendAt(snapshot, at[1]).id = AppleTts
  PROVE  /\ CapabilityAt(snapshot, at).operation = "Synthesis"
         /\ CapabilityAt(snapshot, at).features = {"ssml"}
         /\ CapabilityAt(snapshot, at).audio = {"Wav", "DirectPlayback"}
         /\ CapabilityAt(snapshot, at).model_id = None
<1> DEFINE native == <<AppleSource, 1>>
<1>1. PICK sys \in Systems : snapshot[AppleSource].backends = ProbeMacos(sys)
  BY DEF Described
<1>2. /\ AppleSource \in DOMAIN snapshot /\ snapshot[AppleSource].status = "Succeeded"
      /\ 1 \in DOMAIN snapshot[AppleSource].backends
  BY <1>1 DEF NativeReported, ProbeMacos
<1>3. native \in SuccessfulBackends(snapshot)
  BY <1>2 DEF SuccessfulBackends
<1>4. BackendAt(snapshot, native) = ProbeSynthesis(sys.voices)
  BY <1>1 DEF BackendAt, ProbeMacos
<1>5. ProbeSynthesis(sys.voices).id = AppleTts
  BY DEF ProbeSynthesis, Unavailable
<1>6. at[1] \in SuccessfulBackends(snapshot)
      /\ at[2] \in DOMAIN BackendAt(snapshot, at[1]).capabilities
  BY CapabilitiesHaveBackends
<1> HIDE DEF native
<1>7. at[1] = native
  BY <1>3, <1>4, <1>5, <1>6 DEF SnapshotValid
<1>8. at[2] \in DOMAIN ProbeSynthesis(sys.voices).capabilities
  BY <1>4, <1>6, <1>7
<1>9. sys.voices # << >> /\ at[2] = 1
  BY <1>8 DEF ProbeSynthesis, Unavailable
<1>10. CapabilityAt(snapshot, at) = ProbeSynthesis(sys.voices).capabilities[1]
  BY <1>4, <1>7, <1>9 DEF CapabilityAt
<1> QED BY <1>9, <1>10 DEF ProbeSynthesis

(* The backend's own checks of the pinned request fail only in Apple's     *)
(* ranges.                                                                 *)
LEMMA AppleAccepts ==
  ASSUME NEW req,
         IsList(SynthesisChecks(req)), Passes(SynthesisChecks(req)),
         ~req.stream, req.output = "Wav", req.alignment = "None",
         req.route.backend_id = AppleTts,
         ~Passes(AppleRequestChecks(req))
  PROVE  Refusal(AppleRequestChecks(req)) \in
           {"apple_tts_pitch_unsupported", "apple_tts_rate_unsupported"}
<1> DEFINE checks == SynthesisChecks(req)
           c1 == <<req.stream, "apple_tts_streaming_unsupported">>
           c2 == <<req.output # "Wav", "apple_tts_output_unsupported">>
           c3 == <<req.alignment # "None", "apple_tts_alignment_unsupported">>
           c4 == <<req.route.kind = "ExactBackend" /\ req.route.backend_id # AppleTts,
                   "apple_tts_backend_mismatch">>
           c5 == <<~req.pitch_in_range, "apple_tts_pitch_unsupported">>
           c6 == <<~req.rate_in_range, "apple_tts_rate_unsupported">>
<1>1. AppleRequestChecks(req) = checks \o <<c1, c2, c3, c4, c5, c6>>
  BY DEF AppleRequestChecks
<1>2. ~c1[1] /\ ~c2[1] /\ ~c3[1] /\ ~c4[1]
  OBVIOUS
<1>3. c5[2] = "apple_tts_pitch_unsupported" /\ c6[2] = "apple_tts_rate_unsupported"
  OBVIOUS
<1>4. IsList(checks) /\ Passes(checks)
  OBVIOUS
<1> HIDE DEF checks, c1, c2, c3, c4, c5, c6
<1>5. Refusal(AppleRequestChecks(req)) \in {c5[2], c6[2]}
  BY <1>1, <1>2, <1>4, LastTwoRefuse
<1> QED BY <1>3, <1>5

(* Of the voices there are now an exact one is resolved to itself.         *)
LEMMA ExactVoiceIsResolved ==
  ASSUME NEW req, NEW voices, NEW result \in ResolveVoice(req, voices),
         ExactVoice(req) # None, req.voice.kind # "Profile",
         req.voice.kind = "Exact" => req.voice.id = ExactVoice(req)
  PROVE  \/ result = Spoken(ExactVoice(req))
         \/ /\ result.error = "apple_tts_voice_unavailable"
            /\ \A voice \in voices : voice.id # ExactVoice(req)
         \/ result.error = "apple_tts_api_failed"
<1> DEFINE named == {v \in voices : v.id = ExactVoice(req)}
           best == {x \in named : \A y \in named : ~Before(VoiceKey(req, y), VoiceKey(req, x))}
           first == IF named = {} THEN {Unspoken("apple_tts_voice_unavailable")}
                                  ELSE {Spoken(v.id) : v \in best}
<1>1. VoiceLists(req, voices) = {named}
  BY DEF VoiceLists
<1>2. result = Unspoken("apple_tts_api_failed") \/ result \in first
  BY <1>1 DEF ResolveVoice, Least
<1>3. CASE result \in first /\ named # {}
  BY <1>3
<1>4. CASE result \in first /\ named = {}
  BY <1>4 DEF Unspoken
<1>5. CASE result = Unspoken("apple_tts_api_failed")
  BY <1>5 DEF Unspoken
<1> QED BY <1>2, <1>3, <1>4, <1>5

(* Whatever changes in the system between discovery, planning and          *)
(* speaking: on Apple's own report, the voice that was planned speaks or   *)
(* the call is refused for a reason the plan could not know.               *)
THEOREM PlannedVoicesSpeak == Spec => PlannedVoiceIsSpoken
<1> DEFINE Kept ==
      spoken' # spoken /\ NativeReported /\ plan.selected.voice_id \notin {None, Empty} =>
        \/ spoken' = Spoken(plan.selected.voice_id)
        \/ /\ spoken'.error = "apple_tts_voice_unavailable"
           /\ \A voice \in Range(system.voices) : voice.id # plan.selected.voice_id
        \/ spoken'.error \in {"apple_tts_pitch_unsupported", "apple_tts_rate_unsupported",
                              "apple_tts_api_failed"}
<1>1. Routed /\ Described /\ [Next]_vars => [Kept]_vars
  <2> SUFFICES ASSUME Routed, Described, Next, spoken' # spoken, NativeReported,
                      plan.selected.voice_id \notin {None, Empty}
               PROVE  Kept
    BY DEF vars
  <2>1. Speak
    BY DEF Next, Register, Report, ReportsNothing, AddReport, StartProbe, HostSnapshot,
           SystemChanges, PlanRoute
  <2> DEFINE selected == plan.selected
             pinned == Pinned(request, selected)
  <2>2. /\ plan.result = "Planned" /\ selected.backend_id = AppleTts
        /\ spoken' \in AppleServes(pinned, Range(system.voices))
    BY <2>1 DEF Speak
  <2>3. plan \in Plans(request, snapshot) /\ request \in Requests
    BY <2>2 DEF Routed, PlanIsCurrent, Described, NoPlan
  <2>4. Passes(RequestChecks(request)) /\ SnapshotValid(snapshot)
    BY <2>2, <2>3 DEF Plans
  <2>5. PICK at \in AdmissibleAt(request, snapshot) : selected = Selection(request, snapshot, at)
    BY <2>2, <2>3, SelectedIsAdmissible
  <2> DEFINE backend == BackendAt(snapshot, at[1])
             capability == CapabilityAt(snapshot, at)
  <2>6. /\ at \in CapabilitiesOf(snapshot)
        /\ Passes(OperationGates(request, backend, capability))
        /\ Passes(CommonGates(request, backend, capability))
    BY DEF AdmissibleAt, Admissible
  <2>7. /\ backend.id = AppleTts /\ selected.voice_id = SelectVoice(request, backend).id
        /\ selected.model_id = capability.model_id
    BY <2>2, <2>5 DEF Selection
  <2>8. /\ capability.operation = "Synthesis" /\ capability.features = {"ssml"}
        /\ capability.audio = {"Wav", "DirectPlayback"} /\ capability.model_id = None
        /\ BackendDescribed(backend)
    BY <2>4, <2>6, <2>7, NativePlan, PlacesAreDescribed
  <2>16. Nameable(selected)
    <3>1. selected.backend_id # Empty
      BY <2>2, <2>4, <2>6, <2>7, ValidIdsAreOwn
    <3> QED BY <2>7, <2>8, <3>1 DEF Nameable, None, Empty
  <2> HIDE DEF backend, capability
  <2>9. request.operation = "Synthesis" /\ Passes(SynthesisGates(request, backend, capability))
    BY <2>6, <2>8, OperationGatesSay
  <2>10. request \in SynthesisRequests
    BY <2>3, <2>9, RequestAssumption DEF TranscriptionRequests
  <2>11. /\ Passes(PlainSynthesisGates(request, capability)) /\ Passes(VoiceGates(request, backend))
    BY <2>9, SynthesisGatesSay
  <2>12. ~request.stream /\ request.output = "Wav" /\ request.alignment = "None"
    BY <2>8, <2>10, <2>11, PlainSynthesisGatesSay
  <2>13. Passes(SynthesisChecks(pinned)) /\ IsList(SynthesisChecks(pinned))
    BY <2>3, <2>4, <2>9, <2>10, <2>16, PinnedSynthesisIsValid DEF RequestChecks
  <2>14. Passes(VoiceGates(pinned, backend))
    BY <2>7, <2>8, <2>10, <2>11, PinnedVoice
  <2>15. /\ pinned.route = PinnedRoute(selected) /\ ~pinned.stream
         /\ pinned.output = "Wav" /\ pinned.alignment = "None"
    BY <2>10, <2>12, PinnedSynthesis
  <2> HIDE DEF pinned
  <2>17. pinned.route.backend_id = AppleTts /\ ExactVoice(pinned) = selected.voice_id
    BY <2>2, <2>15 DEF PinnedRoute, ExactVoice
  <2>18. /\ pinned.voice.kind # "Profile"
         /\ pinned.voice.kind = "Exact" => pinned.voice.id = ExactVoice(pinned)
    BY <2>14, VoiceGatesSay
  <2>19. CASE Passes(AppleRequestChecks(pinned))
    <3>1. spoken' \in ResolveVoice(pinned, Range(system.voices))
      BY <2>2, <2>19 DEF AppleServes
    <3> QED BY <2>17, <2>18, <3>1, ExactVoiceIsResolved
  <2>20. CASE ~Passes(AppleRequestChecks(pinned))
    <3>1. spoken' = Unspoken(Refusal(AppleRequestChecks(pinned)))
      BY <2>2, <2>20 DEF AppleServes
    <3>2. spoken'.error = Refusal(AppleRequestChecks(pinned))
      BY <3>1 DEF Unspoken
    <3>3. Refusal(AppleRequestChecks(pinned)) \in
            {"apple_tts_pitch_unsupported", "apple_tts_rate_unsupported"}
      BY <2>13, <2>15, <2>17, <2>20, AppleAccepts
    <3> QED BY <3>2, <3>3
  <2> QED BY <2>19, <2>20
<1> QED BY <1>1, RoutedInvariant, DescribedInvariant, PTL DEF Spec, PlannedVoiceIsSpoken
=============================================================================
