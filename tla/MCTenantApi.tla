------------------------------ MODULE MCTenantApi -----------------------------
(* An instance of TenantApi for TLC: everything is a model value.              *)
EXTENDS TenantApi
===============================================================================
