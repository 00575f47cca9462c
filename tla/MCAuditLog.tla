------------------------------ MODULE MCAuditLog ------------------------------
(* One follower for each tenant.                                             *)
EXTENDS AuditLog
MCTenantOf == CHOOSE f \in [Followers -> Tenants] : \A c, d \in Followers : f[c] = f[d] => c = d
===============================================================================
