---------------------- MODULE EphemeralTenantController ----------------------
(***************************************************************************)
(* The AkeylessEphemeralTenant reconciler (ephemeral_tenant.rs) for the    *)
(* one tenant of a validation, its object, its watch cache and the Service *)
(* of the DAST target it waits for.  A reconcile reads the Service, then   *)
(* patches; tenantRun is the phase the one in flight is going to write.    *)
(* ingress_url is the configured target whenever the tenant got past       *)
(* Pending with one, so it is not a variable.                              *)
(***************************************************************************)
EXTENDS Platform

CONSTANT DastTarget    \* DAST_TARGET_URL: unset, external or an in-cluster URL

ASSUME DastAssumption == DastTarget \in {"none", "external", "inCluster"}

VARIABLES
    tenant,       \* phase of the tenant object on the API server
    tenantCache,  \* phase of its copy in the watch cache
    tenantRun,    \* phase the reconcile in flight will patch, or "idle"
    service       \* does the Service of the DAST target exist?

tenantVars == <<tenant, tenantCache, tenantRun, service>>

TenantPhase == {"absent", "Pending", "PodsRunning", "Ready", "Teardown", "Reaped"}

TenantTypeOK ==
    /\ tenant \in TenantPhase
    /\ tenantCache \in TenantPhase
    /\ tenantRun \in {"idle", "PodsRunning", "Ready", "Reaped"}
    /\ service \in BOOLEAN

TenantInit ==
    /\ tenant = "absent"
    /\ tenantCache = "absent"
    /\ tenantRun = "idle"
    /\ service = FALSE

TenantObserve ==
    /\ tenantCache # tenant
    /\ tenantCache' = tenant
    /\ UNCHANGED <<tenant, tenantRun, service>>

TenantMayReconcile ==
    /\ tenantRun = "idle"
    /\ "lag" \in Faults \/ tenantCache = tenant

\* assess_target: an in-cluster target is ready once its Service exists; no
\* target, or one outside the cluster, is ready at once.
TenantAssess ==
    /\ TenantMayReconcile
    /\ tenantCache \in {"Pending", "PodsRunning"}
    /\ tenantRun' = IF DastTarget = "inCluster" /\ ~service THEN "PodsRunning" ELSE "Ready"
    /\ UNCHANGED <<tenant, tenantCache, service>>

TenantReap ==
    /\ TenantMayReconcile
    /\ tenantCache = "Teardown"
    /\ tenantRun' = "Reaped"
    /\ UNCHANGED <<tenant, tenantCache, service>>

TenantPatch ==
    /\ tenantRun # "idle"
    /\ tenant' = tenantRun
    /\ tenantRun' = "idle"
    /\ UNCHANGED <<tenantCache, service>>

TenantAbort ==
    /\ "abort" \in Faults
    /\ tenantRun # "idle"
    /\ tenantRun' = "idle"
    /\ UNCHANGED <<tenant, tenantCache, service>>

-----------------------------------------------------------------------------
(* The cluster and its operators *)

\* The deployed SaaS comes up, and may go away again.
ServiceUp ==
    /\ DastTarget = "inCluster"
    /\ ~service
    /\ service' = TRUE
    /\ UNCHANGED <<tenant, tenantCache, tenantRun>>

ServiceDown ==
    /\ "service" \in Faults
    /\ service
    /\ service' = FALSE
    /\ UNCHANGED <<tenant, tenantCache, tenantRun>>

\* The only writer of Teardown is an operator: no controller sets it.
OperatorTeardown ==
    /\ "teardown" \in Faults
    /\ tenant \in {"PodsRunning", "Ready"}
    /\ tenant' = "Teardown"
    /\ UNCHANGED <<tenantCache, tenantRun, service>>

-----------------------------------------------------------------------------
TenantReconcile == TenantAssess \/ TenantReap \/ TenantPatch

TenantNext ==
    \/ TenantObserve \/ TenantReconcile \/ TenantAbort
    \/ ServiceUp \/ ServiceDown \/ OperatorTeardown

\* Used by the parent's reconciler: create the tenant unless it exists.
TenantCreate ==
    /\ tenant' = IF tenant = "absent" THEN "Pending" ELSE tenant
    /\ UNCHANGED <<tenantCache, tenantRun, service>>
=============================================================================
