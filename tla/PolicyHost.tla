------------------------------ MODULE PolicyHost ------------------------------
(***************************************************************************)
(* The gateway as host of the policies that share no state with one        *)
(* another: model routing, the GCRA limiters, subscription validation, the *)
(* delegating rate limits, jwt-auth, and opaque-token-auth followed by     *)
(* backend-jwt.  A behaviour of the gateway restricted to the variables of *)
(* one of them is a behaviour of that policy with stuttering, so a         *)
(* behaviour here follows one policy.                                      *)
(***************************************************************************)
EXTENDS ModelRouting, GcraLimiter, SubscriptionValidation, TokenDelegates,
        CostDelegates, McpDelegates, JwtAuth, BackendJwt

VARIABLE policy   \* the policy this behaviour follows

hostVars == <<policy, routeVars, gcraVars, subVars, tokenVars, costVars, mcpVars, jwtVars, identityVars>>

Policies == {"routing", "gcra", "subscription", "token", "cost", "mcp", "jwt", "identity"}

HostInit ==
    /\ policy \in Policies
    /\ RouteInit /\ GcraInit /\ SubInit /\ TokenInit /\ CostInit /\ McpInit /\ JwtInit
    /\ IdentityInit

HostNext ==
    \/ /\ policy = "routing" /\ RouteNext
       /\ UNCHANGED <<policy, gcraVars, subVars, tokenVars, costVars, mcpVars, jwtVars, identityVars>>
    \/ /\ policy = "gcra" /\ GcraNext
       /\ UNCHANGED <<policy, routeVars, subVars, tokenVars, costVars, mcpVars, jwtVars, identityVars>>
    \/ /\ policy = "subscription" /\ SubNext
       /\ UNCHANGED <<policy, routeVars, gcraVars, tokenVars, costVars, mcpVars, jwtVars, identityVars>>
    \/ /\ policy = "token" /\ TokenNext
       /\ UNCHANGED <<policy, routeVars, gcraVars, subVars, costVars, mcpVars, jwtVars, identityVars>>
    \/ /\ policy = "cost" /\ CostNext
       /\ UNCHANGED <<policy, routeVars, gcraVars, subVars, tokenVars, mcpVars, jwtVars, identityVars>>
    \/ /\ policy = "mcp" /\ McpNext
       /\ UNCHANGED <<policy, routeVars, gcraVars, subVars, tokenVars, costVars, jwtVars, identityVars>>
    \/ /\ policy = "jwt" /\ JwtNext
       /\ UNCHANGED <<policy, routeVars, gcraVars, subVars, tokenVars, costVars, mcpVars, identityVars>>
    \/ /\ policy = "identity" /\ IdentityNext
       /\ UNCHANGED <<policy, routeVars, gcraVars, subVars, tokenVars, costVars, mcpVars, jwtVars>>

HostSpec == HostInit /\ [][HostNext]_hostVars
=============================================================================
