------------------------------ MODULE MCFetch ------------------------------
EXTENDS SafeFetch, TLC

CONSTANTS vendor, mirror, literal, local

MCKind == (vendor :> "name") @@ (mirror :> "name") @@ (literal :> "address") @@ (local :> "blocked")
=============================================================================
