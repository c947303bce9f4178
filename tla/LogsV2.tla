------------------------------- MODULE LogsV2 -------------------------------
(***************************************************************************)
(* monasca_log_api.reference.v2.logs: the deprecated v2 POST of a log.    *)
(* A request carries the caller's roles, the X-Tenant-Id header and the   *)
(* tenant_id query parameter (the cross tenant).  The falcon before-hook  *)
(* rejects a cross-tenant POST by a caller without the delegate role;     *)
(* on_post validates the payload size and content type, builds the log   *)
(* envelope for a tenant and sends it to Kafka.  The handler keeps no     *)
(* state between requests, so a behaviour handles one request, chosen    *)
(* from every combination, in one step.                                   *)
(***************************************************************************)
EXTENDS FiniteSets

CONSTANTS
    Tenants,      \* tenant ids
    None          \* an absent header or query parameter

Requests ==
    [delegate : BOOLEAN,             \* service.is_delegate(X-Roles)
     tenant : Tenants \cup {None},   \* X-Tenant-Id
     cross : Tenants \cup {None},    \* the tenant_id query parameter
     sizeOk : BOOLEAN,               \* validate_payload_size passes
     typeOk : BOOLEAN]               \* validate_content_type passes

VARIABLES
    req,         \* the request
    status,      \* its HTTP status, 0 before it is answered
    published    \* the envelopes sent to Kafka: [req, tenant]

vars == <<req, status, published>>

\* _before_logs_post: a caller without the delegate role may not POST
\* for another tenant.
BeforeLogsPost(r) == ~r.delegate /\ r.cross # None

\* on_post: tenant_id if tenant_id else cross_tenant_id.
EnvelopeTenant(r) == IF r.tenant # None THEN r.tenant ELSE r.cross

\* One POST /v2.0/log/single: 403 from the before-hook, 413 or 415 from
\* the validations, otherwise the envelope is sent to Kafka and 204
\* returned.  A failed send_message is a 500 and publishes nothing.
OnPost(r) ==
    /\ status = 0
    /\ \/ /\ BeforeLogsPost(r)
          /\ status' = 403
          /\ UNCHANGED published
       \/ /\ ~BeforeLogsPost(r) /\ ~r.sizeOk
          /\ status' = 413
          /\ UNCHANGED published
       \/ /\ ~BeforeLogsPost(r) /\ r.sizeOk /\ ~r.typeOk
          /\ status' = 415
          /\ UNCHANGED published
       \/ /\ ~BeforeLogsPost(r) /\ r.sizeOk /\ r.typeOk
          /\ \/ /\ status' = 204
                /\ published' = published \cup {[req |-> r, tenant |-> EnvelopeTenant(r)]}
             \/ /\ status' = 500
                /\ UNCHANGED published

Init ==
    /\ req \in Requests
    /\ status = 0
    /\ published = {}

Next == OnPost(req) /\ UNCHANGED req

Spec == Init /\ [][Next]_vars

-----------------------------------------------------------------------------
(* A delegate's cross-tenant POST, which the before-hook lets through     *)
(* ("Projects %s cannot POST cross tenant metrics" is raised only for     *)
(* non-delegates), files the log under the tenant it names.               *)
CrossTenantHonoured ==
    \A e \in published : e.req.delegate /\ e.req.cross # None => e.tenant = e.req.cross
=============================================================================
