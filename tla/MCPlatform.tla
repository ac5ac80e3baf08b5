----------------------------- MODULE MCPlatform -----------------------------
(***************************************************************************)
(* Small instances of the platform controller.                             *)
(***************************************************************************)
EXTENDS PlatformProperties, TLC

CONSTANTS p1, p2, t1, t2, n1, n2, d1

OneDomain == {<<n1, d1>>}

On(p, enabled) == [platform |-> p, domains |-> {d1}, enabled |-> enabled, info |-> "i1"]

\* One tenant that is disabled, moves to another platform or is deleted.
OneTenantVals == [t \in {t1} |-> {On(p1, TRUE), On(p1, FALSE)}]
MovingTenantVals == [t \in {t1} |-> {On(p1, TRUE), On(p2, TRUE)}]

\* No tenants, and a domain that comes and goes.
NoTenantVals == [t \in {} |-> {}]
FixedDomainVals == [d \in OneDomain |-> {[platform |-> p1, export |-> FALSE]}]

OneDomainVals == [d \in OneDomain |-> {[platform |-> p1, export |-> e] : e \in BOOLEAN}]
MovingDomainVals == [d \in OneDomain |-> {[platform |-> p, export |-> FALSE] : p \in {p1, p2}}]

\* The API server of a first installation, and one that holds some of everything.
EmptyApi == [platforms |-> [p \in Platforms |-> Absent],
             tenants |-> [t \in Tenants |-> Absent],
             domains |-> [d \in Domains |-> Absent]]
FullApi == [platforms |-> [p \in Platforms |-> n1],
            tenants |-> [t \in Tenants |-> On(p1, TRUE)],
            domains |-> [d \in Domains |-> [platform |-> p1, export |-> FALSE]]]
DomainApi == [FullApi EXCEPT !.tenants = EmptyApi.tenants]
FullApiOnly == {FullApi}
EmptyOrFullApi == {EmptyApi, FullApi}
DomainApiOnly == {DomainApi}

\* Workers differ in nothing.
WorkerSymmetry == Permutations(Workers)
=============================================================================
