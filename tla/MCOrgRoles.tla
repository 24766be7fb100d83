----------------------------- MODULE MCOrgRoles ------------------------------
(* The instance of OrgRoles for TLC. *)
EXTENDS OrgRoles
=============================================================================
