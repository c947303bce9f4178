\* A delegate's cross-tenant POST.
CONSTANTS
    Tenants = {t1, t2}
    None = None
SPECIFICATION Spec
CHECK_DEADLOCK FALSE
INVARIANT CrossTenantHonoured
