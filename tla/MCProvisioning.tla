--------------------------- MODULE MCProvisioning ---------------------------
(***************************************************************************)
(* Small instances of the tenant provisioner.                              *)
(***************************************************************************)
EXTENDS ProvisioningProperties, TLC

CONSTANTS p1, p2, t1, t2, d1, d2, c1, r1, r2

MCTenantName == [t \in {t1, t2} |-> t]

Asks(domains, category, settings) ==
    [platform |-> p1, domains |-> domains, category |-> category,
     enabled |-> TRUE, skip |-> FALSE, settings |-> settings]

NoFilter == [kind |-> "Blacklist", by |-> "Name", values |-> {}]
OnlyCategory(c) == [kind |-> "Whitelist", by |-> "Category", values |-> {c}]

Res(target, filter, spec) ==
    [platform |-> p1, domain |-> d1, target |-> target, filter |-> filter, spec |-> spec]

MCSpecs == {"s1", "s2"}
MCSettings == {"none", "custom"}
MCOverrides == {"none", "o1", "malformed"}
MCMalformed == {"malformed"}
MCStackName(name, domain) == <<name, domain>>

\* What the theorems assume of the names holds of these.
ASSUME NamesAreDistinct == StacksAreDistinct

\* One tenant, one category, one resource.
OneTenantVals == [t \in {t1} |->
    {Asks({d1}, c1, "none"), Asks({}, c1, "none"), Asks({d1}, NoCategory, "none")}]
OneCategoryVals == [c \in {c1} |-> {[platform |-> p1, overrides |-> o] : o \in {"none", "o1"}}]
RichCategoryVals == [c \in {c1} |-> OneCategoryVals[c] \cup
    {[platform |-> p2, overrides |-> "none"], [platform |-> p1, overrides |-> "malformed"]}]
NoCategoryVals == [c \in {} |-> {}]
OneResourceVals == {Res("Tenant", NoFilter, "s1"), Res("Tenant", OnlyCategory(c1), "s2")}

\* Two domains: the resource moves between them and to the platform's own
\* stack, one tenant drops one of them, another one skips provisioning.
TwoDomainTenantVals ==
    t1 :> {Asks({d1, d2}, NoCategory, "none"), Asks({d1}, NoCategory, "none")} @@
    t2 :> {[Asks({d1, d2}, NoCategory, "none") EXCEPT !.skip = TRUE]}
TwoDomainResourceVals == {Res("Tenant", NoFilter, "s1"), Res("Platform", NoFilter, "s1"),
                          [Res("Tenant", NoFilter, "s1") EXCEPT !.domain = d2]}

\* The API server of a first installation, and one that holds some of everything.
EmptyApi == [platforms |-> {p1}, tenants |-> [t \in Tenants |-> Absent],
             categories |-> [c \in Categories |-> Absent],
             resources |-> [r \in Resources |-> Absent]]
FullApi == [platforms |-> {p1},
            tenants |-> [t \in Tenants |-> CHOOSE v \in TenantVals[t] :
                                             /\ v.domains = Domains
                                             /\ Categories # {} => v.category # NoCategory],
            categories |-> [c \in Categories |-> CHOOSE v \in CategoryVals[c] : v = [platform |-> p1, overrides |-> "none"]],
            resources |-> [r \in Resources |-> CHOOSE v \in ResourceVals : v.target = "Tenant"]]
FullApiOnly == {FullApi}
EmptyOrFullApi == {EmptyApi, FullApi}
=============================================================================
