------------------------------ MODULE Refusal -------------------------------
(***************************************************************************)
(* The wire contract of a refused placement (internal/refusal), which the  *)
(* hub writes and the client's declared stance reads.                      *)
(***************************************************************************)
\* The reasons the hub writes.
Reasons == {"NoPolicy", "DarkNotPermitted", "NoPermittedCells",
            "InvalidRequest", "NoEligibleCells", "CapacityUnknown",
            "PlacementUnavailable", "RateLimited", "MintUnavailable",
            "MintFailed"}

\* The sentinel errors of placement.Engine, by the reason of their own.
EngineErrors == {"NoPolicy", "DarkNotPermitted", "NoPermittedCells",
                 "NoEligibleCells", "CapacityUnknown"}

\* placementRefusal: an error of the engine as the caller is told it.
PlacementRefusal(err) == IF err \in EngineErrors THEN err ELSE "MintFailed"

\* The refusals that only cost a good choice of cell: a client's stance may
\* answer these and no others.
Optimisation == {"NoEligibleCells", "CapacityUnknown", "PlacementUnavailable",
                 "RateLimited"}
=============================================================================
