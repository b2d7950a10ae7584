----------------------------- MODULE MCBackendJwt -----------------------------
(***************************************************************************)
(* Small instances of opaque-token-auth followed by backend-jwt.           *)
(***************************************************************************)
EXTENDS BackendJwt, TLC

IdentitySpec == IdentityInit /\ [][IdentityNext]_identityVars

\* Opaque tokens and assertions: a server that changes or revokes a token and one that
\* comes to know it; a route and its redeployment, and routes behind other policies.
ProviderEntry(n, p) == [object |-> TRUE, name |-> n, issuer |-> "iss", uri |-> n, cert |-> "none", bearerToken |-> FALSE,
                clientId |-> TRUE, pattern |-> p, matches |-> {"tok"}]
MCIntrospectionConfigs == {<<ProviderEntry("s1", "ok"), ProviderEntry("", "none"), ProviderEntry("s2", "none")>>,
                           <<ProviderEntry("s1", "none"), ProviderEntry("s1", "none")>>}
Str(x) == [kind |-> "string", items |-> {x}, text |-> x]
AdminReport == [active |-> TRUE, exp |-> {}, nbf |-> {}, raw |-> [sub |-> Str("ann"), scope |-> Str("read"), aud |-> Str("a"), role |-> Str("admin")]]
NarrowedReport == [AdminReport EXCEPT !.exp = {4}, !.raw.aud = Str("b")]
InactiveReport == [active |-> FALSE, exp |-> {}, nbf |-> {}, raw |-> [x \in {} |-> NoMember]]
MCOpaqueHeaders == {<<"Bearer", "TOKEN">>, <<"TOKEN">>}
MCInitialReports == "s1" :> AdminReport @@ "s2" :> InactiveReport
MCReportChanges == {[uri |-> "s1", report |-> NarrowedReport]}
RsaKey == [is |-> "inline", readable |-> TRUE, block |-> "rsa"]
Assertion == [api |-> "a", algorithm |-> "SHA256withRSA", issuer |-> "gw", dialect |-> "", tokenExpiry |-> 6,
              excludedClaims |-> {}, tokenCaching |-> TRUE, signingKey |-> RsaKey,
              claimMappings |-> [group |-> "role"], customClaims |-> [n \in {} |-> ""]]
OpaqueRoute == [issuers |-> {}, scheme |-> "Bearer", audiences |-> {}, requiredScopes |-> {"read"}, requiredClaims |-> {},
                userIdClaim |-> "sub", others |-> {}, backend |-> Assertion,
                operation |-> [path |-> "/p", method |-> "GET", values |-> [path |-> "/p?x"]]]
JwtContext == [nil |-> FALSE, type |-> "jwt", subject |-> "bob", issuer |-> "i", audience |-> {}, scopes |-> {"read"},
               credential |-> "", tokenId |-> "", properties |-> [team |-> "t", iat |-> "0"]]
MCIdentityRoutes ==
    {OpaqueRoute,
     [OpaqueRoute EXCEPT !.issuers = {"s1"}, !.backend.tokenExpiry = 4, !.backend.claimMappings = [group |-> ""],
                         !.backend.customClaims = [who |-> [kind |-> "property", ref |-> "role", value |-> ""]]],
     [OpaqueRoute EXCEPT !.others = {JwtContext}, !.backend.dialect = "d/", !.backend.algorithm = "NONE",
                         !.backend.tokenCaching = FALSE],
     [OpaqueRoute EXCEPT !.others = {[JwtContext EXCEPT !.nil = TRUE]}, !.backend.algorithm = "ES256"]}

\* A redeployment that takes a claim from another property, of the same value.
MCRedeployed ==
    {[OpaqueRoute EXCEPT !.others = {[JwtContext EXCEPT !.properties = [team |-> "t", org |-> "t"]]},
                         !.backend.claimMappings = [group |-> source]] : source \in {"team", "org"}}
=============================================================================
