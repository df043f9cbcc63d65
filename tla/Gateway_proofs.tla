--------------------------- MODULE Gateway_proofs ---------------------------
(***************************************************************************)
(* The safety properties of the request path, for any configurations,      *)
(* numbers of requests and tokens, prices and times.                       *)
(***************************************************************************)
EXTENDS GatewayInv_proofs

-----------------------------------------------------------------------------
(***************************************************************************)
(* The rest of the invariant: requests that mint, verify and are free.     *)
(***************************************************************************)
\* No two requests mint the same token.
LEMMA MintStep ==
    ASSUME Types, Types', TokensOK, RouteOK, MintOK, [Next]_vars
    PROVE  MintOK'
<1> USE DEF MintOK, Minting, Goto, minted, freebies
<1>1. ASSUME NEW h \in Handlers, Receive(h)
      PROVE  MintOK'
  BY <1>1, ReceiveEffect
<1>2. ASSUME NEW h \in Handlers, Verify(h)
      PROVE  MintOK'
  <2>1. CASE Deny(h)
    BY <1>2, <2>1, DenyEffect DEF Verify
  <2>2. CASE Goto(h, "status") /\ req' = [req EXCEPT ![h].t = FromHeader(req[h].header)]
    BY <1>2, <2>2 DEF Verify, RequestSet, Types
  <2> QED  BY Zenon, <1>2, <2>1, <2>2 DEF Verify
<1>3. ASSUME NEW h \in Handlers, VerifyError(h)
      PROVE  MintOK'
  BY <1>3, DenyEffect DEF VerifyError
<1>4. ASSUME NEW h \in Handlers, Status(h)
      PROVE  MintOK'
  <2>1. CASE Deny(h)
    BY <1>4, <2>1, DenyEffect DEF Status
  <2>2. CASE Goto(h, "forward") /\ req' = [req EXCEPT ![h].why = "accepted"]
    BY <1>4, <2>2 DEF Status, RequestSet, Types
  <2> QED  BY Zenon, <1>4, <2>1, <2>2 DEF Status
<1>5. ASSUME NEW h \in Handlers, CanPass(h)
      PROVE  MintOK'
  BY <1>5 DEF CanPass
<1>6. ASSUME NEW h \in Handlers, TallyRead(h)
      PROVE  MintOK'
  BY <1>6 DEF TallyRead
<1>7. ASSUME NEW h \in Handlers, TallyWrite(h)
      PROVE  MintOK'
  BY <1>7, TallyWriteEffect
<1>8. ASSUME NEW h \in Handlers, GetPrice(h)
      PROVE  MintOK'
  BY <1>8, GetPriceEffect
<1>9. ASSUME NEW h \in Handlers, GetPriceError(h)
      PROVE  MintOK'
  BY <1>9 DEF GetPriceError
<1>10. ASSUME NEW h \in Handlers, NewChallenge(h)
       PROVE  MintOK'
  BY <1>10, NewChallengeEffect
<1>11. ASSUME NEW h \in Handlers, ChallengeError(h)
       PROVE  MintOK'
  BY <1>11 DEF ChallengeError
<1>12. ASSUME NEW h \in Handlers, NewSecret(h)
       PROVE  MintOK'
  BY <1>12 DEF NewSecret
<1>13. ASSUME NEW h \in Handlers, NewSecretError(h)
       PROVE  MintOK'
  BY <1>13 DEF NewSecretError
<1>14. ASSUME NEW h \in Handlers, Mint(h)
       PROVE  MintOK'
  BY <1>14, MintEffect
<1>15. ASSUME NEW h \in Handlers, MintError(h)
       PROVE  MintOK'
  <2>1. /\ pc[h] = "mint" /\ pc'[h] = "respond"
        /\ \A g \in Handlers : g # h => pc'[g] = pc[g]
        /\ UNCHANGED <<tok, req>> /\ \A t \in secrets : t # req[h].t => t \in secrets'
    BY Zenon, <1>15 DEF MintError, Types
  <2> QED  BY Zenon, <2>1
<1>16. ASSUME NEW h \in Handlers, Respond(h)
       PROVE  MintOK'
  BY <1>16, DoneEffect DEF Respond
<1>17. ASSUME NEW h \in Handlers, Forward(h)
       PROVE  MintOK'
  BY <1>17, DoneEffect DEF Forward
<1>18. ASSUME NEW t \in Tokens, Pay(t)
       PROVE  MintOK'
  BY Zenon, <1>18 DEF Pay
<1>19. ASSUME NEW t \in Tokens, Settle(t)
       PROVE  MintOK'
  BY Zenon, <1>19 DEF Settle
<1>20. ASSUME Tick
       PROVE  MintOK'
  BY Zenon, <1>20 DEF Tick
<1>21. ASSUME Restart
       PROVE  MintOK'
  BY Zenon, <1>21 DEF Restart
<1>22. ASSUME UNCHANGED vars
       PROVE  MintOK'
  BY Zenon, <1>22 DEF vars
<1> QED
  BY ZenonT(40), <1>1, <1>2, <1>3, <1>4, <1>5, <1>6, <1>7, <1>8, <1>9, <1>10, <1>11,
     <1>12, <1>13, <1>14, <1>15, <1>16, <1>17, <1>18, <1>19, <1>20, <1>21, <1>22 DEF Next

\* What VerifyL402 accepts is a token that lists the resource.
LEMMA AcceptedName ==
    ASSUME Types, TokensOK, NEW header, NEW name,
           FromHeader(header) \in Tokens, tok[FromHeader(header)].st = "delivered",
           VerifyL402(FromHeader(header), Presented(header), name)
    PROVE  name \in DecodeServices(tok[FromHeader(header)].name)
<1> DEFINE t == FromHeader(header)
<1>1. /\ Shape(tok[t].caveats, tok[t].name) /\ tok[t].caveats \in Seq(CaveatSet)
      /\ tok[t].name \in Names
  BY Zenon DEF TokensOK, Shape, Types, TokenSet
<1>2. VerifyCaveats(Presented(header), Asked(name, clock))
  BY Zenon DEF VerifyL402, Asked
<1>3. Presented(header) \in {tok[t].caveats, Append(tok[t].caveats, PreimageCaveat)}
  BY Zenon DEF Presented
<1> HIDE DEF t
<1>4. VerifyCaveats(tok[t].caveats, Asked(name, clock))
  BY Zenon, <1>1, <1>2, <1>3, PreimageIgnored
<1> QED  BY Zenon, <1>1, <1>4, VerifiedName DEF t

\* A verified request keeps its token, and the token its resource.
LEMMA AcceptStep ==
    ASSUME Types, Types', TokensOK, RouteOK, MintOK, AcceptOK, [Next]_vars
    PROVE  AcceptOK'
<1> USE DEF AcceptOK, Verified, Goto, minted, freebies
<1>1. ASSUME NEW h \in Handlers, Receive(h)
      PROVE  AcceptOK'
  <2>1. pc'[h] = "verify" /\ FromHeader(req'[h].header) # None =>
           /\ FromHeader(req'[h].header) \in Tokens
           /\ tok[FromHeader(req'[h].header)].st = "delivered"
    BY Zenon, <1>1, ReceiveEffect, HeaderToken
  <2>2. pc'[h] \in {"verify", "respond"} \/ (pc'[h] = "forward" /\ req'[h].why = "off")
    BY Zenon, <1>1, ReceiveEffect
  <2>3. \A g \in Handlers : g # h => pc'[g] = pc[g] /\ req'[g] = req[g]
    BY Zenon, <1>1, ReceiveEffect
  <2>4. UNCHANGED <<tok, invoice>>
    BY Zenon, <1>1, ReceiveEffect
  <2> QED  BY <2>1, <2>2, <2>3, <2>4
<1>2. ASSUME NEW h \in Handlers, Verify(h)
      PROVE  AcceptOK'
  <2> DEFINE t == FromHeader(req[h].header)
  <2>0. pc[h] = "verify" /\ UNCHANGED <<tok, invoice>>
    BY Zenon, <1>2 DEF Verify
  <2>1. CASE Deny(h)
    BY <2>0, <2>1, DenyEffect
  <2>2. CASE /\ t # None /\ VerifyL402(t, Presented(req[h].header), Resource(h))
             /\ Goto(h, "status") /\ req' = [req EXCEPT ![h].t = t]
    <3>1. t \in Tokens /\ tok[t].st = "delivered"
      BY Zenon, <2>0, <2>2
    <3>2. req[h].name \in DecodeServices(tok[t].name)
      BY Zenon, <2>2, <3>1, AcceptedName DEF Resource
    <3> HIDE DEF t
    <3>3. /\ pc'[h] = "status" /\ req'[h].t = t /\ req'[h].header = req[h].header
          /\ req'[h].name = req[h].name
          /\ \A g \in Handlers : g # h => pc'[g] = pc[g] /\ req'[g] = req[g]
      BY <2>2 DEF Types, RequestSet
    <3> QED  BY <2>0, <3>1, <3>2, <3>3 DEF t
  <2> QED  BY Zenon, <1>2, <2>1, <2>2 DEF Verify
<1>3. ASSUME NEW h \in Handlers, VerifyError(h)
      PROVE  AcceptOK'
  BY <1>3, DenyEffect DEF VerifyError
<1>4. ASSUME NEW h \in Handlers, Status(h)
      PROVE  AcceptOK'
  <2>0. pc[h] = "status" /\ UNCHANGED <<tok, invoice>>
    BY Zenon, <1>4 DEF Status
  <2>1. CASE Deny(h)
    BY <2>0, <2>1, DenyEffect
  <2>2. CASE /\ invoice[req[h].t] = "seen"
             /\ Goto(h, "forward") /\ req' = [req EXCEPT ![h].why = "accepted"]
    <3>1. /\ pc'[h] = "forward" /\ req'[h].t = req[h].t /\ req'[h].header = req[h].header
          /\ req'[h].name = req[h].name
          /\ \A g \in Handlers : g # h => pc'[g] = pc[g] /\ req'[g] = req[g]
      BY <2>2 DEF Types, RequestSet
    <3> QED  BY <2>0, <2>2, <3>1
  <2> QED  BY Zenon, <1>4, <2>1, <2>2 DEF Status
<1>5. ASSUME NEW h \in Handlers, CanPass(h)
      PROVE  AcceptOK'
  BY <1>5 DEF CanPass
<1>6. ASSUME NEW h \in Handlers, TallyRead(h)
      PROVE  AcceptOK'
  BY <1>6 DEF TallyRead
<1>7. ASSUME NEW h \in Handlers, TallyWrite(h)
      PROVE  AcceptOK'
  BY <1>7, TallyWriteEffect
<1>8. ASSUME NEW h \in Handlers, GetPrice(h)
      PROVE  AcceptOK'
  BY <1>8, GetPriceEffect
<1>9. ASSUME NEW h \in Handlers, GetPriceError(h)
      PROVE  AcceptOK'
  BY <1>9 DEF GetPriceError
<1>10. ASSUME NEW h \in Handlers, NewChallenge(h)
       PROVE  AcceptOK'
  BY <1>10, NewChallengeEffect
<1>11. ASSUME NEW h \in Handlers, ChallengeError(h)
       PROVE  AcceptOK'
  BY <1>11 DEF ChallengeError
<1>12. ASSUME NEW h \in Handlers, NewSecret(h)
       PROVE  AcceptOK'
  BY <1>12 DEF NewSecret
<1>13. ASSUME NEW h \in Handlers, NewSecretError(h)
       PROVE  AcceptOK'
  BY <1>13 DEF NewSecretError
<1>14. ASSUME NEW h \in Handlers, Mint(h)
       PROVE  AcceptOK'
  BY <1>14, MintEffect
<1>15. ASSUME NEW h \in Handlers, MintError(h)
       PROVE  AcceptOK'
  BY <1>15 DEF MintError
<1>16. ASSUME NEW h \in Handlers, Respond(h)
       PROVE  AcceptOK'
  BY <1>16, DoneEffect DEF Respond
<1>17. ASSUME NEW h \in Handlers, Forward(h)
       PROVE  AcceptOK'
  BY <1>17, DoneEffect DEF Forward
<1>18. ASSUME NEW t \in Tokens, Pay(t)
       PROVE  AcceptOK'
  BY <1>18 DEF Pay
<1>19. ASSUME NEW t \in Tokens, Settle(t)
       PROVE  AcceptOK'
  BY <1>19 DEF Settle
<1>20. ASSUME Tick
       PROVE  AcceptOK'
  BY Zenon, <1>20 DEF Tick
<1>21. ASSUME Restart
       PROVE  AcceptOK'
  BY Zenon, <1>21 DEF Restart
<1>22. ASSUME UNCHANGED vars
       PROVE  AcceptOK'
  BY Zenon, <1>22 DEF vars
<1> QED
  BY ZenonT(40), <1>1, <1>2, <1>3, <1>4, <1>5, <1>6, <1>7, <1>8, <1>9, <1>10, <1>11,
     <1>12, <1>13, <1>14, <1>15, <1>16, <1>17, <1>18, <1>19, <1>20, <1>21, <1>22 DEF Next

\* The counter of free requests counts.
LEMMA FreebieStep ==
    ASSUME Types, Types', RouteOK, FreebieOK, [Next]_vars
    PROVE  FreebieOK'
<1> USE DEF FreebieOK, Tallying, Target, Goto, minted, freebies
<1>1. ASSUME NEW h \in Handlers, Receive(h)
      PROVE  FreebieOK'
  BY <1>1, ReceiveEffect
<1>2. ASSUME NEW h \in Handlers, Verify(h)
      PROVE  FreebieOK'
  <2>1. CASE Deny(h)
    BY <1>2, <2>1, DenyEffect DEF Verify
  <2>2. CASE Goto(h, "status") /\ req' = [req EXCEPT ![h].t = FromHeader(req[h].header)]
    BY <1>2, <2>2 DEF Verify, RequestSet, Types
  <2> QED  BY Zenon, <1>2, <2>1, <2>2 DEF Verify
<1>3. ASSUME NEW h \in Handlers, VerifyError(h)
      PROVE  FreebieOK'
  BY <1>3, DenyEffect DEF VerifyError
<1>4. ASSUME NEW h \in Handlers, Status(h)
      PROVE  FreebieOK'
  <2>1. CASE Deny(h)
    BY <1>4, <2>1, DenyEffect DEF Status
  <2>2. CASE Goto(h, "forward") /\ req' = [req EXCEPT ![h].why = "accepted"]
    BY <1>4, <2>2 DEF Status, RequestSet, Types
  <2> QED  BY Zenon, <1>4, <2>1, <2>2 DEF Status
<1>5. ASSUME NEW h \in Handlers, CanPass(h)
      PROVE  FreebieOK'
  <2>1. /\ pc[h] = "canpass" /\ UNCHANGED <<cfg, count, given, req>>
        /\ raced' = (raced \/ \E g \in Handlers \ {h} : pc[g] \in {"tally", "tallied"})
    BY Zenon, <1>5 DEF CanPass
  <2>2. /\ pc'[h] = IF count[req[h].target] < FreebieCount(cfg[req[h].target])
                    THEN "tally" ELSE "price"
        /\ \A g \in Handlers : g # h => pc'[g] = pc[g]
    BY Zenon, <1>5 DEF CanPass, Types
  <2>3. SUFFICES ASSUME ~raced' PROVE FreebieOK'
    BY Zenon
  <2>4. ~raced /\ \A g \in Handlers : g # h => pc[g] \notin {"tally", "tallied"}
    BY Zenon, <2>1, <2>3
  <2> QED  BY Zenon, <2>1, <2>2, <2>4
<1>6. ASSUME NEW h \in Handlers, TallyRead(h)
      PROVE  FreebieOK'
  <2>1. /\ pc[h] = "tally" /\ UNCHANGED <<cfg, count, given, raced>>
        /\ pc'[h] = "tallied" /\ req'[h].target = req[h].target
        /\ req'[h].count = count[req[h].target]
        /\ \A g \in Handlers : g # h => pc'[g] = pc[g] /\ req'[g] = req[g]
    BY <1>6 DEF TallyRead, Types, RequestSet
  <2> QED  BY Zenon, <2>1
<1>7. ASSUME NEW h \in Handlers, TallyWrite(h)
      PROVE  FreebieOK'
  <2> DEFINE i == req[h].target
             n == req[h].count
  <2>1. SUFFICES ASSUME ~raced' PROVE FreebieOK'
    BY Zenon
  <2>2. ~raced /\ pc[h] = "tallied" /\ i \in DOMAIN cfg
    <3>1. raced' = raced /\ pc[h] = "tallied"
      BY Zenon, <1>7, TallyWriteEffect
    <3> QED  BY Zenon, <2>1, <3>1 DEF RouteOK
  <2>3. cfg[i].freebies \in Nat /\ CountRange \in Nat \ {0}
    BY Zenon, <2>2, CfgServices, ServiceTypes, ConstantsOK DEF Types
  <2>4. FreebieCount(cfg[i]) \in 0..(CountRange - 1)
    BY <2>3 DEF FreebieCount
  <2>5. n = count[i] /\ n \in Nat /\ n = given[i] /\ n < FreebieCount(cfg[i])
    BY <2>2 DEF Types
  <2>6. (n + 1) % CountRange = n + 1
    BY <2>3, <2>4, <2>5
  <2>7. /\ count' = [count EXCEPT ![i] = n + 1]
        /\ given' = [given EXCEPT ![i] = n + 1]
    <3>1. count' = [count EXCEPT ![i] = (n + 1) % CountRange]
      BY Zenon, <1>7 DEF TallyWrite
    <3>2. given' = [given EXCEPT ![i] =
                      IF given[i] > FreebieCount(cfg[i]) THEN given[i] ELSE given[i] + 1]
      BY Zenon, <1>7 DEF TallyWrite
    <3>3. ~(given[i] > FreebieCount(cfg[i]))
      BY <2>4, <2>5
    <3> QED  BY Zenon, <2>5, <2>6, <3>1, <3>2, <3>3
  <2>8. \A g \in Handlers : g # h => ~Tallying(g)'
    BY Zenon, <1>7, <2>2, TallyWriteEffect
  <2>9. ~Tallying(h)' /\ cfg' = cfg
    BY Zenon, <1>7, TallyWriteEffect
  <2>10. ASSUME NEW j \in DOMAIN cfg
         PROVE  count'[j] = given'[j] /\ given'[j] <= FreebieCount(cfg[j])
    <3>1. CASE j = i
      BY <2>2, <2>4, <2>5, <2>7, <3>1 DEF Types
    <3>2. CASE j # i
      BY Zenon, <2>2, <2>7, <3>2 DEF Types
    <3> QED  BY Zenon, <3>1, <3>2
  <2> QED  BY Zenon, <2>8, <2>9, <2>10
<1>8. ASSUME NEW h \in Handlers, GetPrice(h)
      PROVE  FreebieOK'
  BY <1>8, GetPriceEffect
<1>9. ASSUME NEW h \in Handlers, GetPriceError(h)
      PROVE  FreebieOK'
  BY <1>9 DEF GetPriceError
<1>10. ASSUME NEW h \in Handlers, NewChallenge(h)
       PROVE  FreebieOK'
  BY <1>10 DEF NewChallenge
<1>11. ASSUME NEW h \in Handlers, ChallengeError(h)
       PROVE  FreebieOK'
  BY <1>11 DEF ChallengeError
<1>12. ASSUME NEW h \in Handlers, NewSecret(h)
       PROVE  FreebieOK'
  BY <1>12 DEF NewSecret
<1>13. ASSUME NEW h \in Handlers, NewSecretError(h)
       PROVE  FreebieOK'
  BY <1>13 DEF NewSecretError
<1>14. ASSUME NEW h \in Handlers, Mint(h)
       PROVE  FreebieOK'
  BY <1>14, DoneEffect DEF Mint
<1>15. ASSUME NEW h \in Handlers, MintError(h)
       PROVE  FreebieOK'
  BY <1>15 DEF MintError
<1>16. ASSUME NEW h \in Handlers, Respond(h)
       PROVE  FreebieOK'
  BY <1>16, DoneEffect DEF Respond
<1>17. ASSUME NEW h \in Handlers, Forward(h)
       PROVE  FreebieOK'
  BY <1>17, DoneEffect DEF Forward
<1>18. ASSUME NEW t \in Tokens, Pay(t)
       PROVE  FreebieOK'
  BY Zenon, <1>18 DEF Pay
<1>19. ASSUME NEW t \in Tokens, Settle(t)
       PROVE  FreebieOK'
  BY Zenon, <1>19 DEF Settle
<1>20. ASSUME Tick
       PROVE  FreebieOK'
  BY Zenon, <1>20 DEF Tick
<1>21. ASSUME Restart
       PROVE  FreebieOK'
  <2>1. /\ \A h \in Handlers : pc'[h] = "idle"
        /\ \A i \in DOMAIN cfg : count'[i] = 0 /\ given'[i] = 0
        /\ cfg' = cfg
    BY Zenon, <1>21 DEF Restart
  <2>2. \A i \in DOMAIN cfg : 0 <= FreebieCount(cfg[i])
    <3>1. cfg \in Configs
      BY Zenon DEF Types
    <3> QED  BY <3>1, CfgServices, ServiceTypes, ConstantsOK DEF FreebieCount
  <2> QED  BY Zenon, <2>1, <2>2
<1>22. ASSUME UNCHANGED vars
       PROVE  FreebieOK'
  BY Zenon, <1>22 DEF vars
<1> QED
  BY ZenonT(40), <1>1, <1>2, <1>3, <1>4, <1>5, <1>6, <1>7, <1>8, <1>9, <1>10, <1>11,
     <1>12, <1>13, <1>14, <1>15, <1>16, <1>17, <1>18, <1>19, <1>20, <1>21, <1>22 DEF Next

-----------------------------------------------------------------------------
(***************************************************************************)
(* The theorems.                                                           *)
(***************************************************************************)
\* Nothing has happened when the process starts.
LEMMA InitIInv ==
    ASSUME Init
    PROVE  IInv
<1> USE DEF Init
<1>0. cfg \in Configs /\ \A i \in DOMAIN cfg : 0 <= FreebieCount(cfg[i])
  BY CfgServices, ServiceTypes, ConstantsOK DEF FreebieCount
<1>1. Types
  <2>1. Unminted \in TokenSet
    <3>1. <<>> \in Seq(CaveatSet)
      OBVIOUS
    <3> QED  BY Zenon, <3>1, NoName DEF Unminted, TokenSet
  <2>2. tok \in [Tokens -> TokenSet]
    BY Zenon, <2>1
  <2>3. req \in [Handlers -> RequestSet] /\ pc \in [Handlers -> Labels]
    BY Zenon, IdleType DEF Labels
  <2>4. clock \in 0..MaxTime /\ boot \in [at : Nat, n : Int] /\ boot.at <= clock
    BY ConstantsOK
  <2>5. count \in [DOMAIN cfg -> 0..(CountRange - 1)] /\ given \in [DOMAIN cfg -> Nat]
    BY ConstantsOK
  <2> QED  BY Zenon, <2>2, <2>3, <2>4, <2>5 DEF Types
<1>2. \A h \in Handlers : pc[h] = "idle" /\ req[h].target = 0
  BY Zenon DEF Idle
<1>3. \A t \in Tokens : tok[t].st = "none" /\ invoice[t] = "none"
  BY Zenon DEF Unminted
<1>4. FreebieOK
  BY Zenon, <1>0, <1>2 DEF FreebieOK, Tallying
<1>5. RouteOK /\ TokensOK /\ MintOK /\ AcceptOK
  BY Zenon, <1>2, <1>3 DEF RouteOK, TokensOK, MintOK, AcceptOK, Minting, Verified
<1> QED  BY Zenon, <1>1, <1>4, <1>5 DEF IInv

\* Every step keeps the invariant.
LEMMA NextIInv ==
    ASSUME IInv, [Next]_vars
    PROVE  IInv'
<1>1. Types'
  BY Zenon, TypesStep DEF IInv
<1> QED
  BY Zenon, <1>1, RouteStep, TokensStep, MintStep, AcceptStep, FreebieStep DEF IInv

\* The invariant holds in every reachable state.
LEMMA Invariance == Spec => []IInv
BY InitIInv, NextIInv, PTL DEF Spec

\* The types of the request path, for any constants: the freebie counter stays
\* in its range, a token and its invoice come together (MintL402).
THEOREM TypeCorrect == Spec => []TypeOK
<1>1. IInv => TypeOK
  <2> SUFFICES ASSUME IInv PROVE TypeOK
    BY Zenon
  <2>1. clock \in 0..MaxTime /\ boot.at \in 0..clock /\ secrets \subseteq Tokens
    BY ConstantsOK DEF IInv, Types
  <2>2. \A i \in DOMAIN cfg : count[i] \in 0..(CountRange - 1)
    BY Zenon DEF IInv, Types
  <2>3. \A t \in Tokens : tok[t].st = "none" <=> invoice[t] = "none"
    BY Zenon DEF IInv, TokensOK
  <2>4. \A h \in Handlers : req[h].target \in {0} \union DOMAIN cfg
    BY Zenon DEF IInv, RouteOK
  <2> QED  BY Zenon, <2>1, <2>2, <2>3, <2>4 DEF TypeOK
<1> QED  BY <1>1, Invariance, PTL

\* The promise of the proxy: whatever requests, restarts and failures of the
\* stores interleave, the backend only gets requests that were paid for with a
\* token that lists the resource, or that are free (Proxy.ServeHTTP).  For a
\* plain name the list is that name alone: the encoding of services caveats
\* keeps names without separators apart, however long they are.
THEOREM ForwardsEarned == Spec => []ForwardIsEarned
<1>1. IInv => ForwardIsEarned
  <2> SUFFICES ASSUME IInv, NEW h \in Handlers, pc[h] = "forward", req[h].why = "accepted"
               PROVE  /\ invoice[req[h].t] = "seen"
                      /\ Resource(h) \in DecodeServices(tok[req[h].t].name)
                      /\ Plain(tok[req[h].t].name) => tok[req[h].t].name = Resource(h)
    BY Zenon DEF IInv, RouteOK, ForwardIsEarned
  <2>1. /\ req[h].t \in Tokens /\ invoice[req[h].t] = "seen"
        /\ Resource(h) \in DecodeServices(tok[req[h].t].name)
    BY Zenon DEF IInv, AcceptOK, Verified, Resource
  <2>2. tok[req[h].t].name \in Names
    BY Zenon, <2>1 DEF IInv, Types, TokenSet
  <2> QED  BY Zenon, <2>1, <2>2, PlainDecodes
<1> QED  BY <1>1, Invariance, PTL

\* The promise to the customer: a token that is paid for verifies until its
\* timeout, with either header form, exactly when its name is plain (MintL402,
\* VerifyL402): no name with a separator in it survives the encoding of the
\* services caveat, and every other does.
THEOREM PaidWorks == Spec => []PaidTokenWorks
<1>1. IInv => PaidTokenWorks
  <2> SUFFICES ASSUME IInv, NEW t \in Tokens, tok[t].st = "delivered", invoice[t] # "open",
                      \A i \in DOMAIN tok[t].caveats :
                         tok[t].caveats[i].cond = "timeout" => clock < tok[t].caveats[i].until,
                      NEW h \in {Header(<<t>>, None), Header(<<>>, t)}
               PROVE  VerifyL402(t, Presented(h), tok[t].name) <=> Plain(tok[t].name)
    BY Zenon DEF PaidTokenWorks
  <2>1. t \in secrets /\ Shape(tok[t].caveats, tok[t].name) /\ tok[t].name \in Names
    BY Zenon DEF IInv, TokensOK, Types, TokenSet
  <2>2. invoice[t] \in {"paid", "seen"}
    BY Zenon DEF IInv, TokensOK, Types
  <2>3. VerifyCaveats(tok[t].caveats, Asked(tok[t].name, clock)) <=> Plain(tok[t].name)
    BY Zenon, <2>1, ShapeVerifies, VerifiedName
  <2>4. tok[t].caveats \in Seq(CaveatSet)
    BY Zenon, <2>1 DEF Shape
  <2>5. FromHeader(h) = t
    BY DEF FromHeader, Header
  <2>6. Presented(h) \in {tok[t].caveats, Append(tok[t].caveats, PreimageCaveat)}
    BY Zenon, <2>5 DEF Presented
  <2>7. VerifyCaveats(Presented(h), Asked(tok[t].name, clock))
          <=> VerifyCaveats(tok[t].caveats, Asked(tok[t].name, clock))
    <3>1. CASE Presented(h) = tok[t].caveats
      BY Zenon, <3>1
    <3>2. CASE Presented(h) = Append(tok[t].caveats, PreimageCaveat)
      BY <2>4, <3>2, PreimageIgnored
    <3> QED  BY Zenon, <2>6, <3>1, <3>2
  <2>8. VerifyL402(t, Presented(h), tok[t].name)
          <=> VerifyCaveats(Presented(h), Asked(tok[t].name, clock))
    BY Zenon, <2>1, <2>2 DEF VerifyL402, Asked
  <2> QED  BY Zenon, <2>3, <2>7, <2>8
<1> QED  BY <1>1, Invariance, PTL

\* Proxy and backend agree on who the client is, as long as the service is not
\* configured with an Authorization of its own, which then decides (FromHeader,
\* director, tokenFromContext).
THEOREM BackendAgrees == Spec => []BackendSeesVerified
<1>1. IInv => BackendSeesVerified
  <2> SUFFICES ASSUME IInv, NEW h \in Handlers, pc[h] = "forward", req[h].why = "accepted"
               PROVE  TokenFromContext(Director(req[h].header, Target(h))) =
                        IF Target(h).authorization = <<>> THEN req[h].t
                        ELSE Target(h).authorization[Len(Target(h).authorization)]
    BY Zenon DEF BackendSeesVerified
  <2>1. req[h].t \in Tokens /\ req[h].t = FromHeader(req[h].header)
    BY Zenon DEF IInv, AcceptOK, Verified
  <2>2. req[h].header \in Headers
    BY Zenon DEF IInv, Types, RequestSet
  <2>3. Target(h) \in Services
    BY Zenon, CfgServices DEF IInv, Types, RouteOK, Target
  <2>4. FromHeader(req[h].header) # None
    BY Zenon, <2>1, ConstantsOK
  <2> QED  BY Zenon, <2>1, <2>2, <2>3, <2>4, DirectorKeepsToken
<1> QED  BY <1>1, Invariance, PTL

\* Without overlapping requests no network gets more free requests than its
\* level says, also at the limit of the counter's type (CanPass, TallyFreebie).
THEOREM FreebiesHold == Spec => []FreebiesBounded
<1>1. IInv => FreebiesBounded
  BY Zenon DEF IInv, FreebieOK, FreebiesBounded
<1> QED  BY <1>1, Invariance, PTL

\* No token of the mint gains by an added caveat (VerifyCaveats).
THEOREM Narrows == Spec => []AttenuationNarrows
<1>1. IInv => AttenuationNarrows
  <2> DEFINE names == {tok[t].name : t \in {u \in Tokens : tok[u].st # "none"}}
             lists == {NewServicesCaveat(ns) : ns \in SUBSET names \ {{}}}
             Asks(n, k) == {NewServicesSatisfier(n), NewTimeoutSatisfier(n, clock),
                            NewCapabilitiesSatisfier(n, k)}
             Added(t) == lists \union {NewTimeoutCaveat(tok[t].name, 1, clock),
                                       NewCapabilitiesCaveat(tok[t].name, Capabilities)}
  <2> SUFFICES ASSUME IInv, NEW t \in Tokens, NEW c \in Added(t),
                      NEW n \in names, NEW k \in Capabilities,
                      VerifyCaveats(Append(tok[t].caveats, c), Asks(n, k))
               PROVE  VerifyCaveats(tok[t].caveats, Asks(n, k))
    BY Zenon DEF AttenuationNarrows
  <2> DEFINE asked == Asks(n, k)
  <2>1. tok[t].caveats \in Seq(CaveatSet) /\ tok[t].name \in Names /\ clock \in Int
    <3>1. tok \in [Tokens -> TokenSet] /\ clock \in 0..MaxTime
      BY Zenon DEF IInv, Types
    <3>2. tok[t] \in TokenSet
      BY Zenon, <3>1
    <3>3. tok[t].caveats \in Seq(CaveatSet) /\ tok[t].name \in Names
      BY <3>2 DEF TokenSet
    <3>4. clock \in Int
      BY <3>1
    <3> QED  BY Zenon, <3>3, <3>4
  <2>2. names \subseteq Names
    <3>1. \A u \in Tokens : tok[u].name \in Names
      BY Zenon DEF IInv, Types, TokenSet
    <3> QED  BY Zenon, <3>1
  <2>3. Capabilities \in SUBSET Names
    <3>1. \A i \in DOMAIN cfg : cfg[i].capabilities \subseteq Names
      BY Zenon, CfgServices, ServiceTypes DEF IInv, Types
    <3>2. ASSUME NEW x \in UNION {cfg[i].capabilities : i \in DOMAIN cfg}
          PROVE  x \in Names
      BY Zenon, <3>1
    <3> DEFINE empty == ""
               U == UNION {cfg[i].capabilities : i \in DOMAIN cfg}
               E == {<<empty>>}
    <3>3. empty \in Symbols
      BY Zenon DEF Symbols
    <3>4. Capabilities = E \union U
      BY Zenon DEF Capabilities
    <3> HIDE DEF empty
    <3>5. <<empty>> \in Names
      BY <3>3 DEF Names
    <3>6. E \subseteq Names
      BY Zenon, <3>5
    <3> HIDE DEF E, U
    <3> QED  BY Zenon, <3>2, <3>4, <3>6 DEF U
  <2> HIDE DEF names
  <2>4. \A x \in lists : x \in CaveatSet
    BY Zenon, <2>2, ServicesCaveat
  <2>5. /\ NewTimeoutCaveat(tok[t].name, 1, clock) \in CaveatSet
        /\ NewCapabilitiesCaveat(tok[t].name, Capabilities) \in CaveatSet
    <3>1. 1 \in Int
      OBVIOUS
    <3> QED  BY Zenon, <2>1, <2>3, <3>1, LimitCaveats
  <2>6. c \in CaveatSet
    <3> HIDE DEF lists
    <3> QED  BY Zenon, <2>4, <2>5
  <2>7. \A x \in CaveatSet : IsCaveat(x)
    BY Zenon DEF CaveatSet, IsCaveat
  <2>8. \A s \in asked : IsSatisfier(s)
    BY <2>1 DEF NewServicesSatisfier, NewTimeoutSatisfier, NewCapabilitiesSatisfier,
                Satisfier, IsSatisfier
  <2> HIDE DEF asked
  <2>9. VerifyCaveats(tok[t].caveats, asked)
    <3>1. VerifyCaveats(Append(tok[t].caveats, c), asked)
      BY Zenon DEF asked
    <3> QED  BY Zenon, <2>1, <2>6, <2>7, <2>8, <3>1, Attenuation
  <2> QED  BY Zenon, <2>9 DEF asked
<1> QED  BY <1>1, Invariance, PTL

-----------------------------------------------------------------------------
(***************************************************************************)
(* Proxy, authenticator and mint use the challenger as InvoiceOracle has   *)
(* it, the specification that LndChallenger implements.                    *)
(***************************************************************************)
\* The token that each request on its way to the backend was accepted with.
Accepted ==
    [h \in Handlers |->
        IF pc[h] = "forward" /\ req[h].why = "accepted" THEN req[h].t ELSE None]

Oracle ==
    INSTANCE InvoiceOracle WITH Invoices <- Tokens, Callers <- Handlers,
                                state <- invoice, vouched <- Accepted

\* A step of a request that is not accepted before it or by it.
LEMMA AcceptedKept ==
    ASSUME NEW h \in Handlers, pc[h] # "forward",
           pc'[h] # "forward" \/ req'[h].why # "accepted",
           \A g \in Handlers : g # h => pc'[g] = pc[g] /\ req'[g] = req[g]
    PROVE  Accepted' = Accepted
<1>1. \A g \in Handlers :
          (IF pc'[g] = "forward" /\ req'[g].why = "accepted" THEN req'[g].t ELSE None)
        = (IF pc[g] = "forward" /\ req[g].why = "accepted" THEN req[g].t ELSE None)
  OBVIOUS
<1> QED  BY Zenon, <1>1 DEF Accepted

\* The same for a step that is Goto and leaves the request as it is.
LEMMA GotoKept ==
    ASSUME Types, NEW h \in Handlers, pc[h] # "forward", NEW l, l # "forward", Goto(h, l),
           \A g \in Handlers : g # h => req'[g] = req[g]
    PROVE  Accepted' = Accepted
<1>1. pc'[h] = l /\ \A g \in Handlers : g # h => pc'[g] = pc[g]
  BY Zenon DEF Goto, Types
<1> QED  BY Zenon, <1>1, AcceptedKept

\* No request has been accepted at the start.
LEMMA InitOracle == Init => Oracle!Init
<1> SUFFICES ASSUME Init PROVE Oracle!Init
  OBVIOUS
<1>1. Accepted = [h \in Handlers |-> None]
  BY DEF Init, Accepted
<1> QED  BY Zenon, <1>1 DEF Init, Oracle!Init

\* Every step of the gateway is one of the oracle's or none of its business.
LEMMA OracleStep ==
    ASSUME IInv, [Next]_vars
    PROVE  [Oracle!Next]_<<invoice, Accepted>>
<1>0. Types /\ RouteOK /\ TokensOK /\ MintOK /\ AcceptOK
  BY Zenon DEF IInv
<1> DEFINE Keeps == UNCHANGED <<invoice, Accepted>>
<1>1. ASSUME NEW h \in Handlers, Receive(h)
      PROVE  Keeps
  <2>1. pc[h] = "idle"
    BY Zenon, <1>1 DEF Receive
  <2>2. pc'[h] # "forward" \/ req'[h].why # "accepted"
    BY <1>0, <1>1, ReceiveEffect
  <2> QED  BY Zenon, <1>0, <1>1, <2>1, <2>2, ReceiveEffect, AcceptedKept
<1>2. ASSUME NEW h \in Handlers, Deny(h), pc[h] \in {"verify", "status"}
      PROVE  Accepted' = Accepted
  <2>1. pc[h] # "forward" /\ pc'[h] # "forward"
    BY <1>0, <1>2, DenyEffect
  <2> QED  BY Zenon, <1>0, <1>2, <2>1, DenyEffect, AcceptedKept
<1>3. ASSUME NEW h \in Handlers, Verify(h)
      PROVE  Keeps
  <2>1. pc[h] = "verify" /\ invoice' = invoice
    BY Zenon, <1>3 DEF Verify, minted
  <2>2. CASE Goto(h, "status") /\ req' = [req EXCEPT ![h].t = FromHeader(req[h].header)]
    <3>1. \A g \in Handlers : g # h => req'[g] = req[g]
      BY Zenon, <1>0, <2>2 DEF Types
    <3> QED  BY <1>0, <2>1, <2>2, <3>1, GotoKept
  <2> QED  BY Zenon, <1>2, <1>3, <2>1, <2>2 DEF Verify
<1>4. ASSUME NEW h \in Handlers, VerifyError(h)
      PROVE  Keeps
  BY Zenon, <1>2, <1>4 DEF VerifyError, minted
<1>5. ASSUME NEW h \in Handlers, Status(h)
      PROVE  Keeps \/ Oracle!Next
  <2>1. pc[h] = "status" /\ invoice' = invoice
    BY Zenon, <1>5 DEF Status, minted
  <2>2. CASE /\ invoice[req[h].t] = "seen"
             /\ Goto(h, "forward") /\ req' = [req EXCEPT ![h].why = "accepted"]
    <3>1. req[h].t \in Tokens
      BY Zenon, <1>0, <2>1 DEF AcceptOK, Verified
    <3>2. /\ pc'[h] = "forward" /\ req'[h].why = "accepted" /\ req'[h].t = req[h].t
          /\ \A g \in Handlers : g # h => pc'[g] = pc[g] /\ req'[g] = req[g]
      BY Zenon, <1>0, <2>2 DEF Types, RequestSet, Goto
    <3>3. Accepted' = [Accepted EXCEPT ![h] = req[h].t]
      BY Zenon, <3>2 DEF Accepted
    <3>4. Oracle!Vouch(h, req[h].t)
      BY Zenon, <2>1, <2>2, <3>3 DEF Oracle!Vouch
    <3> QED  BY Zenon, <3>1, <3>4 DEF Oracle!Next
  <2> QED  BY Zenon, <1>2, <1>5, <2>1, <2>2 DEF Status
<1>6. ASSUME NEW h \in Handlers, CanPass(h)
      PROVE  Keeps
  <2>1. /\ pc[h] = "canpass" /\ req' = req /\ invoice' = invoice
        /\ Goto(h, "tally") \/ Goto(h, "price")
    BY Zenon, <1>6 DEF CanPass, minted
  <2>2. Accepted' = Accepted
    BY <1>0, <2>1, GotoKept
  <2> QED  BY Zenon, <2>1, <2>2
<1>7. ASSUME NEW h \in Handlers, TallyRead(h)
      PROVE  Keeps
  <2>1. /\ pc[h] = "tally" /\ req' = [req EXCEPT ![h].count = count[req[h].target]]
        /\ invoice' = invoice /\ Goto(h, "tallied")
    BY Zenon, <1>7 DEF TallyRead, minted
  <2>2. \A g \in Handlers : g # h => req'[g] = req[g]
    BY Zenon, <1>0, <2>1 DEF Types
  <2>3. Accepted' = Accepted
    BY <1>0, <2>1, <2>2, GotoKept
  <2> QED  BY Zenon, <2>1, <2>3
<1>8. ASSUME NEW h \in Handlers, TallyWrite(h)
      PROVE  Keeps
  <2>1. pc[h] # "forward" /\ req'[h].why # "accepted"
    BY <1>0, <1>8, TallyWriteEffect
  <2> QED  BY Zenon, <1>0, <1>8, <2>1, TallyWriteEffect, AcceptedKept
<1>9. ASSUME NEW h \in Handlers, GetPrice(h)
      PROVE  Keeps
  <2>1. pc[h] # "forward" /\ (pc'[h] # "forward" \/ req'[h].why # "accepted")
    BY <1>0, <1>9, GetPriceEffect
  <2> QED  BY Zenon, <1>0, <1>9, <2>1, GetPriceEffect, AcceptedKept
<1>10. ASSUME NEW h \in Handlers,
              \/ GetPriceError(h) \/ ChallengeError(h)
              \/ NewSecret(h) \/ NewSecretError(h) \/ MintError(h)
       PROVE  Keeps
  <2>1. /\ pc[h] \in {"price", "challenge", "secret", "mint"}
        /\ Goto(h, "respond") \/ Goto(h, "mint")
        /\ req' = req /\ invoice' = invoice
    BY Zenon, <1>10 DEF GetPriceError, ChallengeError, NewSecret, NewSecretError, MintError,
                        minted
  <2>2. Accepted' = Accepted
    BY <1>0, <2>1, GotoKept
  <2> QED  BY Zenon, <2>1, <2>2
<1>11. ASSUME NEW h \in Handlers, NewChallenge(h)
       PROVE  Oracle!Next
  <2>1. PICK t \in Tokens : /\ tok[t].st = "none" /\ req' = [req EXCEPT ![h].t = t]
                            /\ invoice' = [invoice EXCEPT ![t] = "open"]
    BY Zenon, <1>11 DEF NewChallenge
  <2>2. pc[h] = "challenge" /\ Goto(h, "secret")
    BY Zenon, <1>11 DEF NewChallenge
  <2>3. \A g \in Handlers : g # h => req'[g] = req[g]
    BY Zenon, <1>0, <2>1 DEF Types
  <2>4. Accepted' = Accepted
    BY <1>0, <2>2, <2>3, GotoKept
  <2>5. Oracle!Add(t)
    BY Zenon, <1>0, <2>1, <2>4 DEF TokensOK, Oracle!Add
  <2> QED  BY Zenon, <2>5 DEF Oracle!Next
<1>12. ASSUME NEW h \in Handlers, Mint(h) \/ Respond(h)
       PROVE  Keeps
  <2>1. pc[h] \in {"mint", "respond"} /\ Done(h) /\ invoice' = invoice
    BY Zenon, <1>12 DEF Mint, Respond, minted
  <2>2. pc[h] # "forward" /\ pc'[h] # "forward"
    BY <1>0, <2>1, DoneEffect
  <2> QED  BY Zenon, <1>0, <2>1, <2>2, DoneEffect, AcceptedKept
<1>13. ASSUME NEW h \in Handlers, Forward(h)
       PROVE  Oracle!Next
  <2>1. Done(h) /\ invoice' = invoice
    BY Zenon, <1>13 DEF Forward, minted
  <2>2. /\ pc'[h] = "idle"
        /\ \A g \in Handlers : g # h => pc'[g] = pc[g] /\ req'[g] = req[g]
    BY Zenon, <1>0, <2>1, DoneEffect
  <2>3. Accepted' = [g \in Handlers |-> IF g \in {h} THEN None ELSE Accepted[g]]
    BY <2>2 DEF Accepted
  <2>4. Oracle!Forget({h})
    BY Zenon, <2>1, <2>3 DEF Oracle!Forget
  <2> QED  BY Zenon, <2>4 DEF Oracle!Next
<1>14. ASSUME NEW t \in Tokens, Pay(t)
       PROVE  Oracle!Next
  <2>1. Oracle!Pay(t)
    BY Zenon, <1>14 DEF Pay, Accepted, Oracle!Pay
  <2> QED  BY Zenon, <2>1 DEF Oracle!Next
<1>15. ASSUME NEW t \in Tokens, Settle(t)
       PROVE  Oracle!Next
  <2>1. invoice[t] = "paid" /\ invoice' = [invoice EXCEPT ![t] = "seen"] /\ Accepted' = Accepted
    BY Zenon, <1>15 DEF Settle, Accepted
  <2>2. DOMAIN invoice = Tokens
    BY Zenon, <1>0 DEF Types
  <2>3. invoice' = [u \in Tokens |-> IF u \in {t} THEN "seen" ELSE invoice[u]]
    BY Zenon, <2>1, <2>2
  <2>4. Oracle!See({t})
    BY Zenon, <2>1, <2>3 DEF Oracle!See
  <2> QED  BY Zenon, <2>4 DEF Oracle!Next
<1>16. ASSUME Tick \/ UNCHANGED vars
       PROVE  Keeps
  BY Zenon, <1>16 DEF Tick, vars, minted, Accepted
<1>17. ASSUME Restart
       PROVE  Oracle!Next
  <2>1. pc' = [h \in Handlers |-> "idle"] /\ invoice' = invoice
    BY Zenon, <1>17 DEF Restart, minted
  <2>2. Accepted' = [g \in Handlers |-> IF g \in Handlers THEN None ELSE Accepted[g]]
    BY <2>1 DEF Accepted
  <2>3. Oracle!Forget(Handlers)
    BY Zenon, <2>1, <2>2 DEF Oracle!Forget
  <2> QED  BY Zenon, <2>3 DEF Oracle!Next
<1> HIDE DEF Keeps
<1>18. Keeps \/ Oracle!Next
  BY Zenon, <1>1, <1>3, <1>4, <1>5, <1>6, <1>7, <1>8, <1>9, <1>10, <1>11, <1>12, <1>13,
     <1>14, <1>15, <1>16, <1>17 DEF Next
<1> QED  BY Zenon, <1>18 DEF Keeps

\* The gateway and the challenger fit together: all that proxy, authenticator
\* and mint do with invoices are steps of the oracle that LndChallenger
\* implements, so no request is let through as paid but on its word, and its
\* word stands (auth.InvoiceChecker, mint.Challenger).
THEOREM OracleUsed == Spec => Oracle!Spec
<1>1. IInv /\ [Next]_vars => [Oracle!Next]_<<invoice, Accepted>>
  BY Zenon, OracleStep
<1> QED  BY <1>1, InitOracle, Invariance, PTL DEF Spec, Oracle!Spec
=============================================================================
