----------------------------- MODULE MCGateway ------------------------------
(***************************************************************************)
(* TLC instance of Gateway: one configuration with a paid and a free       *)
(* service of one name and price, a timeout on the one and a constraint on *)
(* the other, one with freebies and a whitelisted path, one with a price   *)
(* server, and one with two services whose expressions may both match, of  *)
(* which one has an Authorization header configured.  One path has a colon *)
(* in it, as custom methods have.                                          *)
(***************************************************************************)
EXTENDS Gateway, TLC

MCTiers == {<<"0">>}

Item == <<"/x">>
Method == <<"/x", ":", "v">>
MCPaths == {Item, Method}

Service(name, auth) ==
    [name |-> <<name>>, auth |-> auth, price |-> 5, dynamic |-> FALSE, freebies |-> 0,
     timeout |-> 0, constraints |-> FALSE, capabilities |-> {<<"">>}, whitelist |-> {},
     authorization |-> <<>>]

MCConfigs ==
    { <<[Service("a", "on") EXCEPT !.timeout = 2],
        [Service("a", "off") EXCEPT !.constraints = TRUE,
                                     !.capabilities = {<<"c">>, <<"d">>}]>>,
      <<[Service("b", "freebie") EXCEPT !.price = 0, !.freebies = 2, !.whitelist = {Method}]>>,
      <<[Service("c", "on") EXCEPT !.dynamic = TRUE, !.price = 0]>>,
      <<Service("a", "on"), [Service("b", "on") EXCEPT !.authorization = <<None>>]>> }

Symmetry == Permutations(Handlers) \union Permutations(Tokens)
=============================================================================
