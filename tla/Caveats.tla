------------------------------ MODULE Caveats ------------------------------
(***************************************************************************)
(* The caveats of an L402 and their verification (l402/caveat.go,          *)
(* l402/satisfier.go, l402/service.go), as operators.                      *)
(*                                                                         *)
(* Names, paths and values are sequences of symbols; ":", "," and "=" are  *)
(* the symbols the encodings use as separators, without escaping.  A       *)
(* caveat is a record of what DecodeCaveat and the satisfiers make of it:  *)
(* cond is the kind of its condition, svc the name that prefixes the       *)
(* condition (<<>> for none), ok whether the value can be decoded, names   *)
(* the services or capabilities it lists and until the Unix time of a      *)
(* timeout.                                                                *)
(* Operators named *_bug are faulty variants of the definition after them; *)
(* they are no part of the specification.                                  *)
(***************************************************************************)
EXTENDS Integers, Sequences

CONSTANT Tiers   \* the strings that strconv.Atoi takes

ASSUME TiersAssumption == Tiers \subseteq Seq(STRING) /\ <<"0">> \in Tiers

Caveat(cond, svc, ok, names, until) ==
    [cond |-> cond, svc |-> svc, ok |-> ok, names |-> names, until |-> until]

\* strings.Split: the parts between neighbouring separators.
Split(v, sep) ==
    LET cuts == {0, Len(v) + 1} \union {i \in DOMAIN v : v[i] = sep}
        neighbours == {c \in cuts \X cuts :
                         c[1] < c[2] /\ \A k \in cuts : k <= c[1] \/ c[2] <= k}
    IN {SubSeq(v, c[1] + 1, c[2] - 1) : c \in neighbours}

\* The name in a "name:tier", <<>> if the decoder refuses it.
DecodeName(p) ==
    LET colons == {i \in DOMAIN p : p[i] = ":"}
    IN IF \E k \in colons : colons = {k} /\ SubSeq(p, k + 1, Len(p)) \in Tiers
       THEN SubSeq(p, 1, (CHOOSE k \in colons : TRUE) - 1) ELSE <<>>

\* What decodeServicesCaveatValue makes of the name with the base tier.
DecodeServices(name) == {DecodeName(p) : p \in Split(name \o <<":", "0">>, ",")}

\* encodeServicesCaveatValue joins the services with ",", so the parts of the
\* list are the parts of its members; one bad part spoils the list, and so does
\* having none.
NewServicesCaveat(names) ==
    LET listed == UNION {DecodeServices(n) : n \in names}
    IN Caveat("services", <<>>, names # {} /\ <<>> \notin listed, listed, 0)

\* A condition that starts with the name of a service.  DecodeCaveat cuts it at
\* the first "=", and no satisfier knows the rest.
Condition(cond, svc) == IF \E i \in DOMAIN svc : svc[i] = "=" THEN "unknown" ELSE cond

NewCapabilitiesCaveat(svc, names) ==
    Caveat(Condition("capabilities", svc), svc, TRUE, names, 0)
NewTimeoutCaveat(svc, seconds, now) ==
    Caveat(Condition("timeout", svc), svc, TRUE, {}, now + seconds)

\* AddFirstPartyCaveats.
AddFirstPartyCaveats(cs, new) == cs \o new

\* A satisfier: the condition it speaks for, what is asked and when.
Satisfier(cond, svc, target, now) ==
    [cond |-> cond, svc |-> svc, target |-> target, now |-> now]

\* Only compares a services caveat with the one before it.
SatisfyPrevious_bug(prev, cur) ==
    /\ prev.ok /\ cur.ok
    /\ prev.cond = "services" => cur.names \subseteq prev.names

\* A later caveat may only narrow what an earlier one allows.
SatisfyPrevious(prev, cur) ==
    /\ prev.ok /\ cur.ok
    /\ prev.cond \in {"services", "capabilities"} => cur.names \subseteq prev.names
    /\ prev.cond = "timeout" => cur.until <= prev.until

SatisfyFinal(s, c) ==
    /\ c.ok
    /\ s.cond \in {"services", "capabilities"} => s.target \in c.names
    /\ s.cond = "timeout" => s.now < c.until

Relevant(s, cs) == {i \in DOMAIN cs : cs[i].cond = s.cond /\ cs[i].svc = s.svc}

VerifyCaveats(cs, satisfiers) ==
    \A s \in satisfiers :
        LET R == Relevant(s, cs)
        IN /\ \A i, j \in R :
                 i < j /\ (\A k \in R : k <= i \/ j <= k)
                     => SatisfyPrevious(cs[i], cs[j])
           /\ \A i \in R : (\A k \in R : k <= i) => SatisfyFinal(s, cs[i])

NewServicesSatisfier(target) == Satisfier("services", <<>>, target, 0)
NewCapabilitiesSatisfier(svc, capability) == Satisfier("capabilities", svc, capability, 0)
NewTimeoutSatisfier(svc, now) == Satisfier("timeout", svc, svc, now)
=============================================================================
