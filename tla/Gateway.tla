------------------------------ MODULE Gateway ------------------------------
(***************************************************************************)
(* A request's way through the proxy: Proxy.ServeHTTP (proxy/proxy.go,     *)
(* proxy/service.go), the authenticator (auth/), the mint and its secrets  *)
(* (mint/mint.go, secrets.go), the caveats it puts on a token (services.go *)
(* and module Caveats), the freebie counter (freebie/) and the pricer      *)
(* (pricer/), up to what the backend's interceptor gets to see             *)
(* (l402/header.go, l402/server_interceptor.go).                           *)
(*                                                                         *)
(* Handlers are the requests in progress.  A token, its macaroon           *)
(* identifier, its payment hash and its invoice are one thing, a member of *)
(* Tokens: MintL402 makes them together and the identifier contains the    *)
(* hash.  A preimage is known once the invoice is paid.  The challenger    *)
(* (module LndChallenger) is reduced to the invoices it has seen settled.  *)
(* Time is counted in the unit of Service.Timeout.  All freebie requests   *)
(* come from one /24 network, the key of the freebie counter.              *)
(* Operators named *_bug are faulty variants of the definition after them; *)
(* they are no part of the specification.                                  *)
(***************************************************************************)
EXTENDS Caveats

CONSTANTS Configs,     \* the configurations to start with: sequences of services
          Handlers,    \* concurrent requests
          Tokens,      \* tokens the mint may create
          None,        \* no token, no credential
          Paths,       \* request paths
          Prices,      \* the prices a price server may answer
          MaxTime,     \* bound on the clock
          MaxBoots,    \* bound on the number of starts
          CountRange   \* freebie.Count is an integer modulo CountRange

\* Numbers the code reads as unsigned, the three authentication levels, strings.
ASSUME ConstantsOK ==
    /\ None \notin Tokens
    /\ MaxTime \in Nat /\ CountRange \in Nat \ {0} /\ Prices \subseteq Nat
    /\ \A c \in Configs :
         /\ Len(c) \in Nat /\ DOMAIN c = 1..Len(c)
         /\ \A i \in DOMAIN c :
              /\ c[i].auth \in {"on", "off", "freebie"} /\ {c[i].dynamic, c[i].constraints} \subseteq BOOLEAN
              /\ {c[i].price, c[i].freebies, c[i].timeout} \subseteq Nat
              /\ {c[i].name} \union c[i].capabilities \subseteq Seq(STRING)
              /\ c[i].authorization \in Seq(Tokens \union {None})
    /\ Paths \subseteq Seq(STRING)

VARIABLES cfg,      \* the configured services
          clock,    \* the time
          boot,     \* [at: the time of the last start, n: the starts so far]
          secrets,  \* the tokens that have a secret in the store
          tok,      \* the tokens
          invoice,  \* the invoice of each token
          count,    \* memStore.freebieCounter of each service
          given,    \* history: free requests let through since the start
          raced,    \* history: two requests were inside the freebie check at once
          pc,       \* where each request is
          req       \* the request and the locals of its handler

minted == <<secrets, tok, invoice>>
freebies == <<count, given, raced>>
vars == <<cfg, clock, boot, secrets, tok, invoice, count, given, raced, pc, req>>

(***************************************************************************)
(* Services.                                                               *)
(***************************************************************************)
\* prepareServices: a static service without a price costs 1 satoshi.
Price(s) == IF s.price = 0 /\ ~s.dynamic THEN 1 ELSE s.price

\* Level.FreebieCount converts to a uint16.
FreebieCount(s) == s.freebies % CountRange

ResourceName(s, path) == IF s.dynamic THEN s.name \o path ELSE s.name

AuthRequired(s, path) == IF path \in s.whitelist THEN "off" ELSE s.auth

\* The first service whose expressions match host and path.
MatchService(matching) == CHOOSE i \in matching : \A j \in matching : i <= j

\* The caveats of newStaticServiceLimiter are computed at the start, in maps
\* keyed by name and configured price.  Services that share both overwrite
\* each other's capabilities and timeout, and add up their constraints, for
\* which no satisfier exists and one caveat stands here.
Limits(name, price) ==
    LET found == {i \in DOMAIN cfg : cfg[i].name = name /\ cfg[i].price = price}
        timed == {i \in found : cfg[i].timeout > 0}
        Last(S) == cfg[CHOOSE i \in S : \A j \in S : j <= i]
    IN (IF found = {} THEN <<>>
        ELSE <<NewCapabilitiesCaveat(name, Last(found).capabilities)>>)
       \o (IF \E i \in found : cfg[i].constraints
           THEN <<Caveat("constraint", <<>>, TRUE, {}, 0)>> ELSE <<>>)
       \o (IF timed = {} THEN <<>>
           ELSE <<NewTimeoutCaveat(name, Last(timed).timeout, boot.at)>>)

\* caveatsForServices, for the one service FreshChallengeHeader asks for.
CaveatsForServices(name, price) ==
    AddFirstPartyCaveats(<<NewServicesCaveat({name})>>, Limits(name, price))

MaximumPrice(prices) ==
    IF \E p \in prices : p > 0
    THEN CHOOSE p \in prices : \A q \in prices : q <= p ELSE 0

(***************************************************************************)
(* Headers.  Authorization may come several times; a Macaroon or           *)
(* Grpc-Metadata-Macaroon field carries the preimage as one more caveat.   *)
(***************************************************************************)
Header(auth, mac) == [auth |-> auth, mac |-> mac]
Headers ==
    {Header(<<>>, None)} \union {Header(<<t>>, None) : t \in Tokens} \union
    {Header(<<>>, t) : t \in Tokens} \union {Header(<<t, None>>, None) : t \in Tokens} \union
    UNION {{Header(<<t>>, u), Header(<<t, u>>, None)} : t \in Tokens, u \in Tokens}

Carries(h, t) == h.mac = t \/ \E i \in DOMAIN h.auth : h.auth[i] = t

\* The last Authorization value decides, None being one that does not parse.
FromHeader(h) == IF h.auth # <<>> THEN h.auth[Len(h.auth)] ELSE h.mac

\* Leaves the client's own field alone.
SetHeader_bug(h, t) == IF h.mac # None THEN h ELSE Header(<<t, t>>, h.mac)

\* The LSAT form first, then the L402 form.
SetHeader(h, t) == Header(<<t, t>>, h.mac)

\* The director rewrites what it can parse, then adds the service's configured
\* headers behind what is there.
Director(h, s) ==
    LET rewritten == IF FromHeader(h) = None THEN h ELSE SetHeader(h, FromHeader(h))
    IN Header(rewritten.auth \o s.authorization, rewritten.mac)

\* The backend's interceptor only looks at Authorization.
TokenFromContext(h) == FromHeader(Header(h.auth, None))

PreimageCaveat == Caveat("preimage", <<>>, TRUE, {}, 0)

Presented(h) ==
    LET t == FromHeader(h)
    IN IF h.auth # <<>> THEN tok[t].caveats ELSE Append(tok[t].caveats, PreimageCaveat)

\* VerifyL402: preimage, secret and caveats.
VerifyL402(t, caveats, name) ==
    /\ invoice[t] \in {"paid", "seen"}
    /\ t \in secrets
    /\ VerifyCaveats(caveats, {NewServicesSatisfier(name), NewTimeoutSatisfier(name, clock)})

(***************************************************************************)
(* The handlers.                                                           *)
(***************************************************************************)
Unminted == [st |-> "none", name |-> <<>>, price |-> 0, quoted |-> 0,
             lasts |-> 0, born |-> 0, caveats |-> <<>>]
Idle == [target |-> 0, name |-> <<>>, header |-> Header(<<>>, None), t |-> None,
         price |-> 0, quoted |-> 0, count |-> 0, why |-> "none"]

Init ==
    /\ cfg \in Configs
    /\ clock = 0 /\ boot = [at |-> 0, n |-> 1]
    /\ secrets = {}
    /\ tok = [t \in Tokens |-> Unminted]
    /\ invoice = [t \in Tokens |-> "none"]
    /\ count = [i \in DOMAIN cfg |-> 0]
    /\ given = [i \in DOMAIN cfg |-> 0]
    /\ raced = FALSE
    /\ pc = [h \in Handlers |-> "idle"]
    /\ req = [h \in Handlers |-> Idle]

Target(h) == cfg[req[h].target]
Resource(h) == req[h].name

\* The request is over.
Done(h) ==
    /\ pc' = [pc EXCEPT ![h] = "idle"]
    /\ req' = [req EXCEPT ![h] = Idle]

Goto(h, l) == pc' = [pc EXCEPT ![h] = l]

\* Not accepted; the header has no say in what follows.
Deny(h) ==
    /\ Goto(h, IF Target(h).auth = "on" THEN "price" ELSE "canpass")
    /\ req' = [req EXCEPT ![h].header = Idle.header, ![h].t = None]

\* The request has found its service.
Route(h, i, path, header) ==
    LET off == AuthRequired(cfg[i], path) = "off"
    IN /\ req' = [req EXCEPT ![h] = [Idle EXCEPT !.target = i, !.header = header,
                                         !.name = ResourceName(cfg[i], path),
                                         !.why = IF off THEN "off" ELSE "none"]]
       /\ Goto(h, IF off THEN "forward" ELSE "verify")

\* A request comes in.  What matches no service is for a local service or
\* answered with an error; so is OPTIONS.
Receive(h) ==
    /\ pc[h] = "idle"
    /\ \E matching \in SUBSET (DOMAIN cfg), path \in Paths, header \in Headers :
         /\ \A t \in Tokens : Carries(header, t) => tok[t].st = "delivered"
         /\ IF matching = {} THEN Goto(h, "respond") /\ UNCHANGED req
            ELSE Route(h, MatchService(matching), path, header)
    /\ UNCHANGED <<cfg, clock, boot, minted, freebies>>

\* Accept, first half: VerifyL402.
Verify(h) ==
    /\ pc[h] = "verify"
    /\ LET t == FromHeader(req[h].header)
       IN IF t # None /\ VerifyL402(t, Presented(req[h].header), Resource(h))
          THEN Goto(h, "status") /\ req' = [req EXCEPT ![h].t = t]
          ELSE Deny(h)
    /\ UNCHANGED <<cfg, clock, boot, minted, freebies>>

\* The store of the secrets fails.
VerifyError(h) ==
    /\ pc[h] = "verify"
    /\ Deny(h)
    /\ UNCHANGED <<cfg, clock, boot, minted, freebies>>

\* Trusts the preimage alone.
Status_bug(h) ==
    /\ pc[h] = "status"
    /\ req' = [req EXCEPT ![h].why = "accepted"]
    /\ Goto(h, "forward")
    /\ UNCHANGED <<cfg, clock, boot, minted, freebies>>

\* Accept, second half: the challenger must have seen the settlement.
Status(h) ==
    /\ pc[h] = "status"
    /\ IF invoice[req[h].t] = "seen"
       THEN Goto(h, "forward") /\ req' = [req EXCEPT ![h].why = "accepted"]
       ELSE Deny(h)
    /\ UNCHANGED <<cfg, clock, boot, minted, freebies>>

\* Lets one request too many pass.
CanPass_bug(h) ==
    /\ pc[h] = "canpass"
    /\ Goto(h, IF count[req[h].target] <= FreebieCount(Target(h)) THEN "tally" ELSE "price")
    /\ UNCHANGED <<cfg, clock, boot, minted, freebies, req>>

\* CanPass and TallyFreebie share a map without a lock.
CanPass(h) ==
    /\ pc[h] = "canpass"
    /\ Goto(h, IF count[req[h].target] < FreebieCount(Target(h)) THEN "tally" ELSE "price")
    /\ raced' = (raced \/ \E g \in Handlers \ {h} : pc[g] \in {"tally", "tallied"})
    /\ UNCHANGED <<cfg, clock, boot, minted, count, given, req>>

TallyRead(h) ==
    /\ pc[h] = "tally"
    /\ req' = [req EXCEPT ![h].count = count[req[h].target]]
    /\ Goto(h, "tallied")
    /\ UNCHANGED <<cfg, clock, boot, minted, freebies>>

TallyWrite(h) ==
    /\ pc[h] = "tallied"
    /\ count' = [count EXCEPT ![req[h].target] = (req[h].count + 1) % CountRange]
    /\ given' = [given EXCEPT ![req[h].target] =
                    IF @ > FreebieCount(Target(h)) THEN @ ELSE @ + 1]
    /\ req' = [req EXCEPT ![h].why = "free", ![h].count = 0]
    /\ Goto(h, "forward")
    /\ UNCHANGED <<cfg, clock, boot, minted, raced>>

\* GetPrice; a price of zero lets the request through, and a request that
\* cannot be written down for the price server is priced at zero.  A freebie
\* service charges its configured price whatever the price server says.
GetPrice(h) ==
    /\ pc[h] = "price"
    /\ \E p \in IF Target(h).dynamic THEN {0} \union Prices ELSE {Price(Target(h))} :
         IF p = 0
         THEN /\ req' = [req EXCEPT ![h].why = "zero"]
              /\ Goto(h, "forward")
         ELSE /\ req' = [req EXCEPT ![h].quoted = p,
                            ![h].price = IF Target(h).auth = "on" THEN p ELSE Price(Target(h))]
              /\ Goto(h, "challenge")
    /\ UNCHANGED <<cfg, clock, boot, minted, freebies>>

GetPriceError(h) ==
    /\ pc[h] = "price" /\ Target(h).dynamic
    /\ Goto(h, "respond")
    /\ UNCHANGED <<cfg, clock, boot, minted, freebies, req>>

\* MintL402: a new invoice, then the identifier.
NewChallenge(h) ==
    /\ pc[h] = "challenge"
    /\ \E t \in Tokens :
         /\ tok[t].st = "none"
         /\ tok' = [tok EXCEPT ![t] = [Unminted EXCEPT !.st = "minting", !.name = Resource(h),
                              !.price = MaximumPrice({req[h].price}), !.quoted = req[h].quoted,
                              !.lasts = Target(h).timeout, !.born = clock]]
         /\ invoice' = [invoice EXCEPT ![t] = "open"]
         /\ req' = [req EXCEPT ![h].t = t]
    /\ Goto(h, "secret")
    /\ UNCHANGED <<cfg, clock, boot, secrets, freebies>>

\* Keeps a token that has no invoice.
ChallengeError_bug(h) ==
    /\ pc[h] = "challenge"
    /\ \E t \in Tokens : tok[t].st = "none" /\ tok' = [tok EXCEPT ![t].st = "minting"]
    /\ Goto(h, "respond")
    /\ UNCHANGED <<cfg, clock, boot, secrets, invoice, freebies, req>>

\* The invoice cannot be created.
ChallengeError(h) ==
    /\ pc[h] = "challenge"
    /\ Goto(h, "respond")
    /\ UNCHANGED <<cfg, clock, boot, minted, freebies, req>>

NewSecret(h) ==
    /\ pc[h] = "secret"
    /\ secrets' = secrets \union {req[h].t}
    /\ Goto(h, "mint")
    /\ UNCHANGED <<cfg, clock, boot, tok, invoice, freebies, req>>

\* An error, also one that comes after the store has the secret.
NewSecretError(h) ==
    /\ pc[h] = "secret"
    /\ secrets' \in {secrets, secrets \union {req[h].t}}
    /\ Goto(h, "respond")
    /\ UNCHANGED <<cfg, clock, boot, tok, invoice, freebies, req>>

\* Cleans up on the way out, whatever the result.
Mint_bug(h) ==
    /\ pc[h] = "mint" /\ Resource(h) # <<>>
    /\ tok' = [tok EXCEPT ![req[h].t].st = "delivered",
                          ![req[h].t].caveats = CaveatsForServices(Resource(h), req[h].price)]
    /\ secrets' = secrets \ {req[h].t}
    /\ Done(h)
    /\ UNCHANGED <<cfg, clock, boot, invoice, freebies>>

\* The macaroon gets its caveats, which need a name for the service, and goes
\* to the client with the invoice.
Mint(h) ==
    /\ pc[h] = "mint" /\ Resource(h) # <<>>
    /\ tok' = [tok EXCEPT ![req[h].t].st = "delivered",
                          ![req[h].t].caveats = CaveatsForServices(Resource(h), req[h].price)]
    /\ Done(h)
    /\ UNCHANGED <<cfg, clock, boot, secrets, invoice, freebies>>

\* A failure after NewSecret: the secret is revoked, if that works.
MintError(h) ==
    /\ pc[h] = "mint"
    /\ secrets' \in {secrets, secrets \ {req[h].t}}
    /\ Goto(h, "respond")
    /\ UNCHANGED <<cfg, clock, boot, tok, invoice, freebies, req>>

\* sendDirectResponse, or the answer of a local service.
Respond(h) ==
    /\ pc[h] = "respond"
    /\ Done(h)
    /\ UNCHANGED <<cfg, clock, boot, minted, freebies>>

\* The reverse proxy hands the request to the backend.
Forward(h) ==
    /\ pc[h] = "forward"
    /\ Done(h)
    /\ UNCHANGED <<cfg, clock, boot, minted, freebies>>

\* The client pays.
Pay(t) ==
    /\ tok[t].st = "delivered" /\ invoice[t] = "open"
    /\ invoice' = [invoice EXCEPT ![t] = "paid"]
    /\ UNCHANGED <<cfg, clock, boot, secrets, tok, freebies, pc, req>>

\* The challenger learns of it.
Settle(t) ==
    /\ invoice[t] = "paid"
    /\ invoice' = [invoice EXCEPT ![t] = "seen"]
    /\ UNCHANGED <<cfg, clock, boot, secrets, tok, freebies, pc, req>>

\* Time only matters to a service with a timeout.
Tick ==
    /\ clock < MaxTime /\ \E i \in DOMAIN cfg : cfg[i].timeout > 0
    /\ clock' = clock + 1
    /\ UNCHANGED <<cfg, boot, minted, freebies, pc, req>>

\* The process stops anywhere (the Go runtime also aborts it when it notices
\* two requests inside the freebie map) and starts again: counters and
\* limiter are new, secrets and invoices are kept.
Restart ==
    /\ boot.n < MaxBoots
    /\ boot' = [at |-> clock, n |-> boot.n + 1]
    /\ count' = [i \in DOMAIN cfg |-> 0]
    /\ given' = [i \in DOMAIN cfg |-> 0]
    /\ raced' = FALSE
    /\ pc' = [h \in Handlers |-> "idle"]
    /\ req' = [h \in Handlers |-> Idle]
    /\ UNCHANGED <<cfg, clock, minted>>

Next ==
    \/ \E h \in Handlers : Receive(h)
    \/ \E h \in Handlers : Verify(h)
    \/ \E h \in Handlers : VerifyError(h)
    \/ \E h \in Handlers : Status(h)
    \/ \E h \in Handlers : CanPass(h)
    \/ \E h \in Handlers : TallyRead(h)
    \/ \E h \in Handlers : TallyWrite(h)
    \/ \E h \in Handlers : GetPrice(h)
    \/ \E h \in Handlers : GetPriceError(h)
    \/ \E h \in Handlers : NewChallenge(h)
    \/ \E h \in Handlers : ChallengeError(h)
    \/ \E h \in Handlers : NewSecret(h)
    \/ \E h \in Handlers : NewSecretError(h)
    \/ \E h \in Handlers : Mint(h)
    \/ \E h \in Handlers : MintError(h)
    \/ \E h \in Handlers : Respond(h)
    \/ \E h \in Handlers : Forward(h)
    \/ \E t \in Tokens : Pay(t)
    \/ \E t \in Tokens : Settle(t)
    \/ Tick
    \/ Restart

Spec == Init /\ [][Next]_vars

(***************************************************************************)
(* Properties.                                                             *)
(***************************************************************************)
\* Type correctness; a token has an invoice from the moment it is begun.
TypeOK ==
    /\ clock \in 0..MaxTime /\ boot.at \in 0..clock
    /\ secrets \subseteq Tokens
    /\ \A t \in Tokens : (tok[t].st = "none") <=> (invoice[t] = "none")
    /\ \A i \in DOMAIN cfg : count[i] \in 0..(CountRange - 1)
    /\ \A h \in Handlers : req[h].target \in {0} \union DOMAIN cfg

\* A name that the encoding of a services caveat keeps apart from its separators.
Plain(name) == name # <<>> /\ \A i \in DOMAIN name : name[i] \notin {":", ","}

\* A backend only gets requests it is owed: of a token whose services caveat
\* lists this resource and whose invoice is settled, free of charge, within the
\* freebies, or on a path without authentication (the switch in
\* Proxy.ServeHTTP).  If the name the token was minted for is plain, it is
\* exactly this resource.
ForwardIsEarned ==
    \A h \in Handlers : pc[h] = "forward" =>
        \/ /\ req[h].why = "accepted" /\ invoice[req[h].t] = "seen"
           /\ Resource(h) \in DecodeServices(tok[req[h].t].name)
           /\ Plain(tok[req[h].t].name) => tok[req[h].t].name = Resource(h)
        \/ req[h].why = "zero" /\ Target(h).dynamic
        \/ req[h].why = "free" /\ Target(h).auth = "freebie"
        \/ req[h].why = "off" /\ (Target(h).auth = "off" \/ Target(h).whitelist # {})

\* When the customer has paid, the token in their hands verifies until its own
\* timeout, in either header form and across restarts, if and only if the name
\* it was minted for is plain: no error path of MintL402 revokes a secret whose
\* token was handed out, and a token for a path with a ":" or "," in it never
\* verifies, because its services caveat cannot be decoded to that name.
PaidTokenWorks ==
    \A t \in Tokens :
        /\ tok[t].st = "delivered" /\ invoice[t] # "open"
        /\ \A i \in DOMAIN tok[t].caveats :
             tok[t].caveats[i].cond = "timeout" => clock < tok[t].caveats[i].until
        => \A h \in {Header(<<t>>, None), Header(<<>>, t)} :
             VerifyL402(t, Presented(h), tok[t].name) <=> Plain(tok[t].name)

\* The backend identifies the client by the Authorization its service is
\* configured with, the last one if there are several, and without one by the
\* token the proxy has verified, whatever header fields it came in (FromHeader,
\* director and tokenFromContext agree).
BackendSeesVerified ==
    \A h \in Handlers :
        pc[h] = "forward" /\ req[h].why = "accepted"
            => LET set == Target(h).authorization
               IN TokenFromContext(Director(req[h].header, Target(h))) =
                    IF set = <<>> THEN req[h].t ELSE set[Len(set)]

\* One request at a time, a network gets no more free requests than
\* configured (CanPass and TallyFreebie).
FreebiesBounded ==
    ~raced => \A i \in DOMAIN cfg : given[i] <= FreebieCount(cfg[i])

Capabilities == {<<"">>} \union UNION {cfg[i].capabilities : i \in DOMAIN cfg}

\* Adding a caveat to a token never makes it valid where it was not
\* (VerifyCaveats and the SatisfyPrevious functions).
AttenuationNarrows ==
    LET names == {tok[t].name : t \in {u \in Tokens : tok[u].st # "none"}}
        lists == {NewServicesCaveat(ns) : ns \in SUBSET names \ {{}}}
    IN \A t \in Tokens : tok[t].st = "delivered" =>
         \A n \in names, k \in Capabilities :
           LET asked == {NewServicesSatisfier(n), NewTimeoutSatisfier(n, clock),
                         NewCapabilitiesSatisfier(n, k)}
           IN VerifyCaveats(tok[t].caveats, asked) \/
                \A c \in lists \union {NewTimeoutCaveat(tok[t].name, 1, clock),
                                       NewCapabilitiesCaveat(tok[t].name, Capabilities)} :
                    ~VerifyCaveats(Append(tok[t].caveats, c), asked)

\* A token expires its service's timeout after its creation, "100 seconds
\* after creation of the L402" (proxy/service.go).
TimeoutFromCreation ==
    \A t \in Tokens : tok[t].st = "delivered" /\ tok[t].lasts > 0 =>
        \E i \in DOMAIN tok[t].caveats :
            /\ tok[t].caveats[i].cond = "timeout"
            /\ tok[t].caveats[i].until = tok[t].born + tok[t].lasts
=============================================================================
