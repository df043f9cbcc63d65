------------------------- MODULE GatewayInv_proofs --------------------------
(***************************************************************************)
(* What the proofs about the request path rest on: the theorems about      *)
(* chains of caveats, the lemmas about services, names and headers, the    *)
(* inductive invariant, and the part of its preservation that is about     *)
(* types, services and tokens.                                             *)
(***************************************************************************)
EXTENDS Gateway, SequenceTheorems, WellFoundedInduction, TLAPS

-----------------------------------------------------------------------------
(***************************************************************************)
(* A holder may add caveats to an L402 and can only lose by it: what the   *)
(* longer chain allows, the shorter one allows too.  No induction is       *)
(* needed: two neighbours among the relevant caveats of the old chain are  *)
(* neighbours in the new one, and the last one of the old chain is either  *)
(* still the last or the neighbour of the added caveat.  The lemmas after  *)
(* it are about what the gateway does with caveats, names and headers.     *)
(***************************************************************************)

\* A caveat as Caveats builds it; a timeout is an integer.
IsCaveat(c) == c.until \in Int

\* A satisfier as the satisfier constructors build it.
IsSatisfier(s) == s.now \in Int

\* If a caveat narrows the previous one of the same condition, a request that
\* satisfies it satisfies the previous one (SatisfyPrevious, SatisfyFinal).
LEMMA NarrowedFinal ==
    ASSUME NEW s, NEW prev, NEW cur,
           IsSatisfier(s), IsCaveat(prev), IsCaveat(cur),
           prev.cond = s.cond,
           SatisfyPrevious(prev, cur), SatisfyFinal(s, cur)
    PROVE  SatisfyFinal(s, prev)
BY DEF SatisfyPrevious, SatisfyFinal, IsSatisfier, IsCaveat

\* The relevant caveats of the longer chain are those of the shorter one, in
\* their places, and the added one if it is relevant itself.
LEMMA RelevantAppend ==
    ASSUME NEW C, NEW cs \in Seq(C), NEW c \in C, NEW s
    PROVE  /\ Relevant(s, cs) \subseteq 1 .. Len(cs)
           /\ Relevant(s, Append(cs, c)) =
                Relevant(s, cs) \union
                  (IF c.cond = s.cond /\ c.svc = s.svc THEN {Len(cs) + 1} ELSE {})
           /\ \A i \in Relevant(s, cs) : Append(cs, c)[i] = cs[i]
           /\ Append(cs, c)[Len(cs) + 1] = c
           /\ Len(cs) \in Nat
BY DEF Relevant

\* A caveat that no satisfier speaks for, such as the preimage the client adds,
\* changes nothing (VerifyCaveats ignores unknown conditions).
THEOREM UnknownCaveatIgnored ==
    ASSUME NEW C, NEW cs \in Seq(C), NEW c \in C, NEW S,
           \A s \in S : ~(c.cond = s.cond /\ c.svc = s.svc)
    PROVE  VerifyCaveats(Append(cs, c), S) <=> VerifyCaveats(cs, S)
<1>1. ASSUME NEW s \in S
      PROVE  /\ Relevant(s, Append(cs, c)) = Relevant(s, cs)
             /\ \A i \in Relevant(s, cs) : Append(cs, c)[i] = cs[i]
  <2>1. ~(c.cond = s.cond /\ c.svc = s.svc)
    BY Zenon
  <2>2. Relevant(s, Append(cs, c)) = Relevant(s, cs) \union
           (IF c.cond = s.cond /\ c.svc = s.svc THEN {Len(cs) + 1} ELSE {})
    BY RelevantAppend
  <2>3. Relevant(s, Append(cs, c)) = Relevant(s, cs)
    BY Zenon, <2>1, <2>2
  <2>4. \A i \in Relevant(s, cs) : Append(cs, c)[i] = cs[i]
    BY RelevantAppend
  <2> QED  BY Zenon, <2>3, <2>4
<1>2. ASSUME VerifyCaveats(Append(cs, c), S)
      PROVE  VerifyCaveats(cs, S)
  BY Zenon, <1>1, <1>2 DEF VerifyCaveats
<1>3. ASSUME VerifyCaveats(cs, S), NEW s \in S
      PROVE  /\ \A i, j \in Relevant(s, cs) :
                    i < j /\ (\A k \in Relevant(s, cs) : k <= i \/ j <= k)
                        => SatisfyPrevious(Append(cs, c)[i], Append(cs, c)[j])
             /\ \A i \in Relevant(s, cs) :
                    (\A k \in Relevant(s, cs) : k <= i)
                        => SatisfyFinal(s, Append(cs, c)[i])
  BY Zenon, <1>1, <1>3 DEF VerifyCaveats
<1>4. ASSUME VerifyCaveats(cs, S)
      PROVE  VerifyCaveats(Append(cs, c), S)
  BY Zenon, <1>1, <1>3, <1>4 DEF VerifyCaveats
<1> QED  BY Zenon, <1>2, <1>4

\* Attenuation: a chain with one more caveat, of whatever kind and value,
\* allows nothing that the chain without it does not allow, for any set of
\* satisfiers, any names and times (VerifyCaveats with the SatisfyPrevious and
\* SatisfyFinal functions of satisfier.go).
THEOREM Attenuation ==
    ASSUME NEW C, NEW cs \in Seq(C), NEW c \in C, NEW S,
           \A x \in C : IsCaveat(x),
           \A s \in S : IsSatisfier(s),
           VerifyCaveats(Append(cs, c), S)
    PROVE  VerifyCaveats(cs, S)
<1> DEFINE n == Len(cs) + 1
           longer == Append(cs, c)
<1>1. SUFFICES ASSUME NEW s \in S
               PROVE  /\ \A i, j \in Relevant(s, cs) :
                            i < j /\ (\A k \in Relevant(s, cs) : k <= i \/ j <= k)
                                => SatisfyPrevious(cs[i], cs[j])
                      /\ \A i \in Relevant(s, cs) :
                            (\A k \in Relevant(s, cs) : k <= i) => SatisfyFinal(s, cs[i])
  BY Zenon DEF VerifyCaveats
<1> DEFINE Old == Relevant(s, cs)
           New == Relevant(s, longer)
<1>2. /\ \A i, j \in New : i < j /\ (\A k \in New : k <= i \/ j <= k)
              => SatisfyPrevious(longer[i], longer[j])
      /\ \A i \in New : (\A k \in New : k <= i) => SatisfyFinal(s, longer[i])
  BY Zenon DEF VerifyCaveats
<1>3. /\ Old \subseteq 1 .. Len(cs) /\ Len(cs) \in Nat
      /\ New = Old \union (IF c.cond = s.cond /\ c.svc = s.svc THEN {n} ELSE {})
      /\ \A i \in Old : longer[i] = cs[i]
      /\ longer[n] = c
  BY RelevantAppend
<1>4. \A i \in Old : i \in Int /\ i < n /\ cs[i].cond = s.cond /\ cs[i] \in C
  <2>1. \A i \in Old : cs[i].cond = s.cond
    BY Zenon DEF Relevant
  <2> QED  BY <1>3, <2>1
<1> HIDE DEF n, longer, Old, New
<1>5. ASSUME NEW i \in Old, NEW j \in Old, i < j,
             \A k \in Old : k <= i \/ j <= k
      PROVE  SatisfyPrevious(cs[i], cs[j])
  <2>1. \A k \in New : k <= i \/ j <= k
    BY <1>3, <1>4, <1>5 DEF n
  <2>2. i \in New /\ j \in New
    BY Zenon, <1>3
  <2>3. SatisfyPrevious(longer[i], longer[j])
    BY Zenon, <1>2, <1>5, <2>1, <2>2
  <2> QED  BY Zenon, <1>3, <2>3
<1>6. ASSUME NEW i \in Old, \A k \in Old : k <= i
      PROVE  SatisfyFinal(s, cs[i])
  <2>1. CASE n \in New
    <3>1. \A k \in New : k <= i \/ n <= k
      BY <1>3, <1>4, <1>6 DEF n
    <3>2. i \in New /\ i < n
      BY Zenon, <1>3, <1>4
    <3>3. SatisfyPrevious(cs[i], c)
      BY Zenon, <1>2, <1>3, <2>1, <3>1, <3>2
    <3>4. \A k \in New : k <= n
      BY <1>3, <1>4 DEF n
    <3>5. SatisfyFinal(s, c)
      BY Zenon, <1>2, <1>3, <2>1, <3>4
    <3> QED  BY Zenon, <1>4, <3>3, <3>5, NarrowedFinal
  <2>2. CASE n \notin New
    <3>1. New = Old
      BY Zenon, <1>3, <2>2
    <3> QED  BY Zenon, <1>2, <1>3, <1>6, <3>1
  <2> QED  BY Zenon, <2>1, <2>2
<1> QED  BY Zenon, <1>5, <1>6 DEF Old
-----------------------------------------------------------------------------
(***************************************************************************)
(* Choosing a service.                                                     *)
(***************************************************************************)
\* A set of natural numbers has a least member.
LEMMA LeastExists ==
    ASSUME NEW T, T \subseteq Nat, T # {}
    PROVE  \E x \in T : \A y \in T : x <= y
<1>1. PICK x \in T : \A y \in T : <<y, x>> \notin OpToRel(<, Nat)
  BY Zenon, NatLessThanWellFounded, WFMin
<1>2. \A y \in T : ~(y < x)
  BY Zenon, <1>1 DEF OpToRel
<1> QED  BY <1>2

\* A bounded one has a greatest member.
LEMMA GreatestExists ==
    ASSUME NEW n \in Nat, NEW T, T \subseteq 1..n, T # {}
    PROVE  \E x \in T : \A y \in T : y <= x
<1> DEFINE D == {n - x : x \in T}
<1>1. D \subseteq Nat /\ D # {}
  <2>1. \A x \in T : n - x \in Nat
    OBVIOUS
  <2>2. PICK x : x \in T
    BY Zenon
  <2>3. n - x \in D
    BY Zenon, <2>2
  <2> QED  BY Zenon, <2>1, <2>3
<1>2. PICK d \in D : \A e \in D : d <= e
  BY Zenon, <1>1, LeastExists
<1>3. PICK x \in T : d = n - x
  BY Zenon
<1>4. \A y \in T : n - x <= n - y
  BY Zenon, <1>2, <1>3
<1> QED  BY <1>4

\* matchService returns one of the matching services.
LEMMA MatchIsService ==
    ASSUME NEW T, T \subseteq Nat, T # {}
    PROVE  MatchService(T) \in T
BY Zenon, LeastExists DEF MatchService

-----------------------------------------------------------------------------
(***************************************************************************)
(* The encoding of names in a services caveat.                             *)
(***************************************************************************)
\* STRING holds the four symbols already, which the provers do not know.
Symbols == STRING \union {"", ":", ",", "0"}
Names == Seq(Symbols)

\* The parts of a split value hold no separator.
LEMMA SplitParts ==
    ASSUME NEW v \in Names, NEW sep, NEW p \in Split(v, sep)
    PROVE  p \in Names /\ \A i \in DOMAIN p : p[i] # sep
<1> DEFINE cuts == {0, Len(v) + 1} \union {i \in DOMAIN v : v[i] = sep}
<1>1. PICK a \in cuts, b \in cuts :
         /\ a < b /\ \A k \in cuts : k <= a \/ b <= k
         /\ p = SubSeq(v, a + 1, b - 1)
  BY Zenon DEF Split
<1>2. a \in Nat /\ b \in Nat /\ b <= Len(v) + 1 /\ Len(v) \in Nat
  OBVIOUS
<1>3. \A i \in (a + 1)..(b - 1) : i \in DOMAIN v /\ v[i] \in Symbols /\ v[i] # sep
  <2>1. \A i \in (a + 1)..(b - 1) : i \in DOMAIN v /\ v[i] \in Symbols /\ i \notin cuts
    BY <1>1, <1>2 DEF Names
  <2> QED  BY Zenon, <2>1
<1>4. /\ p \in Seq(Symbols)
      /\ Len(p) = IF a + 1 <= b - 1 THEN (b - 1) - (a + 1) + 1 ELSE 0
      /\ \A i \in 1..((b - 1) - (a + 1) + 1) : p[i] = v[a + 1 + i - 1]
  <2>1. a + 1 \in Int /\ b - 1 \in Int
    BY <1>2
  <2>2. \A i \in (a + 1)..(b - 1) : v[i] \in Symbols
    BY Zenon, <1>3
  <2> HIDE DEF cuts
  <2> QED  BY <1>1, <2>1, <2>2, SubSeqProperties
<1> HIDE DEF cuts
<1>5. \A i \in DOMAIN p : p[i] # sep
  <2> SUFFICES ASSUME NEW i \in DOMAIN p PROVE p[i] # sep
    OBVIOUS
  <2>1. i \in 1..((b - 1) - (a + 1) + 1) /\ a + 1 + i - 1 \in (a + 1)..(b - 1)
    BY <1>2, <1>4
  <2> QED  BY Zenon, <1>3, <1>4, <2>1
<1> QED  BY Zenon, <1>4, <1>5 DEF Names

\* A value without the separator is its only part.
LEMMA SplitWhole ==
    ASSUME NEW v \in Names, NEW sep, \A i \in DOMAIN v : v[i] # sep
    PROVE  Split(v, sep) = {v}
<1> DEFINE cuts == {0, Len(v) + 1} \union {i \in DOMAIN v : v[i] = sep}
           neighbours == {c \in cuts \X cuts :
                            c[1] < c[2] /\ \A k \in cuts : k <= c[1] \/ c[2] <= k}
<1>1. Len(v) \in Nat
  BY DEF Names
<1>2. cuts = {0, Len(v) + 1}
  BY Zenon
<1>3. neighbours = {<<0, Len(v) + 1>>}
  <2> HIDE DEF cuts
  <2>1. \A c \in cuts \X cuts : c = <<c[1], c[2]>> /\ c[1] \in cuts /\ c[2] \in cuts
    OBVIOUS
  <2>2. \A c \in neighbours : c = <<0, Len(v) + 1>>
    BY <1>1, <1>2, <2>1
  <2>3. <<0, Len(v) + 1>> \in neighbours
    BY <1>1, <1>2
  <2> QED  BY Zenon, <2>2, <2>3
<1>4. Split(v, sep) = {SubSeq(v, c[1] + 1, c[2] - 1) : c \in neighbours}
  BY Zenon DEF Split
<1> HIDE DEF cuts, neighbours
<1>5. Split(v, sep) = {SubSeq(v, 0 + 1, (Len(v) + 1) - 1)}
  BY <1>3, <1>4
<1>6. SubSeq(v, 1, Len(v)) = v
  BY SubSeqFull DEF Names
<1> QED  BY <1>1, <1>5, <1>6

\* What is decoded from a part is a beginning of it without a ":".
LEMMA DecodedBeginning ==
    ASSUME NEW p \in Names
    PROVE  /\ DecodeName(p) \in Names
           /\ \A i \in DOMAIN DecodeName(p) :
                i \in DOMAIN p /\ DecodeName(p)[i] = p[i] /\ p[i] # ":"
<1> DEFINE colons == {i \in DOMAIN p : p[i] = ":"}
<1>1. CASE \E k \in colons : colons = {k} /\ SubSeq(p, k + 1, Len(p)) \in Tiers
  <2>1. PICK k \in colons : colons = {k}
    BY Zenon, <1>1
  <2>2. (CHOOSE j \in colons : TRUE) = k
    BY Zenon, <2>1
  <2>3. DecodeName(p) = SubSeq(p, 1, k - 1)
    BY Zenon, <1>1, <2>2 DEF DecodeName
  <2>4. k \in 1..Len(p) /\ Len(p) \in Nat /\ DOMAIN p = 1..Len(p) /\ k - 1 \in Int
    BY DEF Names
  <2>5. \A i \in 1..(k - 1) : i \in DOMAIN p /\ p[i] \in Symbols /\ i # k
    BY <2>4 DEF Names
  <2>6. /\ DecodeName(p) \in Seq(Symbols)
        /\ Len(DecodeName(p)) = IF 1 <= k - 1 THEN k - 1 - 1 + 1 ELSE 0
        /\ \A i \in 1..(k - 1 - 1 + 1) : DecodeName(p)[i] = p[1 + i - 1]
    <3>1. \A i \in 1..(k - 1) : p[i] \in Symbols
      BY Zenon, <2>5
    <3> HIDE DEF colons
    <3> QED  BY <2>3, <2>4, <3>1, SubSeqProperties
  <2>7. \A i \in DOMAIN p : i # k => p[i] # ":"
    BY Zenon, <2>1
  <2> HIDE DEF colons
  <2>8. \A i \in DOMAIN DecodeName(p) : i \in 1..(k - 1) /\ DecodeName(p)[i] = p[i]
    BY <2>4, <2>6
  <2> QED  BY Zenon, <2>5, <2>6, <2>7, <2>8 DEF Names
<1>2. CASE ~ \E k \in colons : colons = {k} /\ SubSeq(p, k + 1, Len(p)) \in Tiers
  <2>1. DecodeName(p) = <<>>
    BY Zenon, <1>2 DEF DecodeName
  <2> QED  BY <2>1 DEF Names
<1> QED  BY Zenon, <1>1, <1>2

\* The name with the base tier, as encodeServicesCaveatValue writes it.
LEMMA Encoded ==
    ASSUME NEW n \in Names, NEW colon \in Symbols, NEW zero \in Symbols
    PROVE  /\ n \o <<colon, zero>> \in Names
           /\ Len(n \o <<colon, zero>>) = Len(n) + 2 /\ Len(n) \in Nat
           /\ DOMAIN (n \o <<colon, zero>>) = 1..(Len(n) + 2) /\ DOMAIN n = 1..Len(n)
           /\ \A i \in 1..Len(n) : (n \o <<colon, zero>>)[i] = n[i]
           /\ (n \o <<colon, zero>>)[Len(n) + 1] = colon
           /\ (n \o <<colon, zero>>)[Len(n) + 2] = zero
BY DEF Names

\* decodeServicesCaveatValue yields names without separators.
LEMMA DecodedPlain ==
    ASSUME NEW n \in Names, NEW m \in DecodeServices(n)
    PROVE  m \in Names /\ (m # <<>> => Plain(m))
<1>1. PICK p \in Split(n \o <<":", "0">>, ",") : m = DecodeName(p)
  BY Zenon DEF DecodeServices
<1>2. p \in Names /\ \A i \in DOMAIN p : p[i] # ","
  <2>1. ":" \in Symbols /\ "0" \in Symbols
    BY Zenon DEF Symbols
  <2>2. n \o <<":", "0">> \in Names
    BY Zenon, <2>1, Encoded
  <2> QED  BY Zenon, <2>2, SplitParts
<1> QED  BY Zenon, <1>1, <1>2, DecodedBeginning DEF Plain

\* A plain name survives its encoding.
LEMMA PlainDecodes ==
    ASSUME NEW n \in Names, Plain(n)
    PROVE  DecodeServices(n) = {n}
<1> DEFINE colon == ":"
           comma == ","
           zero == "0"
           e == n \o <<colon, zero>>
           k == Len(n) + 1
           colons == {i \in DOMAIN e : e[i] = colon}
<1>0. /\ \A i \in DOMAIN n : n[i] # colon /\ n[i] # comma
      /\ colon \in Symbols /\ zero \in Symbols
      /\ colon # comma /\ zero # comma /\ zero # colon
  BY Zenon DEF Plain, Symbols
<1> HIDE DEF colon, comma, zero
<1>1. /\ e \in Names /\ Len(e) = Len(n) + 2 /\ Len(n) \in Nat
      /\ DOMAIN e = 1..(Len(n) + 2) /\ DOMAIN n = 1..Len(n)
      /\ \A i \in 1..Len(n) : e[i] = n[i]
      /\ e[k] = colon /\ e[Len(n) + 2] = zero
  BY <1>0, Encoded
<1> HIDE DEF e
<1>2. \A i \in DOMAIN e : e[i] # comma /\ (e[i] = colon <=> i = k)
  <2> SUFFICES ASSUME NEW i \in DOMAIN e PROVE e[i] # comma /\ (e[i] = colon <=> i = k)
    BY Zenon
  <2>1. (i \in 1..Len(n) /\ i # k) \/ i = k \/ (i = Len(n) + 2 /\ i # k)
    <3>1. i \in 1..(Len(n) + 2)
      BY Zenon, <1>1
    <3>2. Len(n) \in Nat
      BY Zenon, <1>1
    <3> QED  BY <3>1, <3>2
  <2> QED  BY Zenon, <1>0, <1>1, <2>1
<1>3. Split(e, comma) = {e}
  BY Zenon, <1>1, <1>2, SplitWhole
<1>4. colons = {k}
  <2>1. k \in DOMAIN e
    BY <1>1
  <2> QED  BY Zenon, <1>2, <2>1
<1>5. SubSeq(e, k + 1, Len(e)) = <<zero>>
  <2>1. k + 1 = Len(n) + 2 /\ Len(n) + 2 \in Int /\ Len(n) + 2 - (Len(n) + 2) + 1 = 1
    BY <1>1
  <2>2. \A i \in (Len(n) + 2)..(Len(n) + 2) : e[i] \in Symbols
    <3>1. Len(n) \in Nat /\ e[Len(n) + 2] \in Symbols
      BY Zenon, <1>0, <1>1
    <3> QED  BY <3>1
  <2> DEFINE t == SubSeq(e, Len(n) + 2, Len(n) + 2)
  <2>3. t \in Seq(Symbols) /\ Len(t) = 1 /\ t[1] = zero
    BY <1>1, <2>1, <2>2, SubSeqProperties
  <2> HIDE DEF t
  <2>4. t = <<zero>>
    BY <2>3
  <2> QED  BY <1>1, <2>1, <2>4 DEF t
<1>6. SubSeq(e, 1, k - 1) = n
  <2> DEFINE b == SubSeq(e, 1, Len(n))
  <2>1. \A i \in 1..Len(n) : e[i] \in Symbols
    BY <1>1 DEF Names
  <2>2. b \in Seq(Symbols) /\ Len(b) = Len(n) /\ \A i \in 1..Len(n) : b[i] = n[i]
    BY <1>1, <2>1, SubSeqProperties
  <2> HIDE DEF b
  <2>3. b = n
    BY <2>2 DEF Names
  <2> QED  BY <1>1, <2>3 DEF b
<1>7. (CHOOSE j \in colons : TRUE) = k
  BY Zenon, <1>4
<1>8. DecodeName(e) = SubSeq(e, 1, k - 1)
  <2>1. <<zero>> \in Tiers
    BY Zenon, TiersAssumption DEF zero
  <2> QED  BY Zenon, <1>4, <1>5, <1>7, <2>1 DEF DecodeName, colon
<1>9. DecodeServices(n) = {DecodeName(p) : p \in Split(e, comma)}
  BY Zenon DEF DecodeServices, e, colon, zero, comma
<1>10. DecodeName(e) = n
  BY Zenon, <1>6, <1>8
<1> QED  BY Zenon, <1>3, <1>9, <1>10

-----------------------------------------------------------------------------
(***************************************************************************)
(* The caveats of a token.                                                 *)
(***************************************************************************)
Services == UNION {{c[i] : i \in DOMAIN c} : c \in Configs}
Conditions == {"services", "capabilities", "constraint", "timeout", "preimage", "unknown"}
CaveatSet ==
    [cond : Conditions, svc : Names, ok : BOOLEAN, names : SUBSET Names, until : Int]

\* What MintL402 makes of the caveats: at most one services and one timeout
\* caveat, all decodable but for a services caveat spoilt by its name.
Shape(cs, name) ==
    /\ cs \in Seq(CaveatSet)
    /\ 1 \in DOMAIN cs /\ cs[1] = NewServicesCaveat({name})
    /\ \A i \in DOMAIN cs : /\ cs[i].cond = "services" => i = 1
                            /\ cs[i].ok \/ i = 1
    /\ \A i, j \in DOMAIN cs : cs[i].cond = "timeout" /\ cs[j].cond = "timeout" => i = j

\* Strings as the configuration has them are names.
LEMMA StringNames == Seq(STRING) \subseteq Names
<1>1. STRING \subseteq Symbols
  BY Zenon DEF Symbols
<1>2. ASSUME NEW S, NEW T, S \subseteq T, NEW s \in Seq(S)
      PROVE  s \in Seq(T)
  BY <1>2
<1> QED  BY Zenon, <1>1, <1>2 DEF Names

\* The empty name.
LEMMA NoName == <<>> \in Names
BY DEF Names

\* The fields of a service have their types.
LEMMA ServiceTypes ==
    ASSUME NEW s \in Services
    PROVE  /\ s.auth \in {"on", "off", "freebie"} /\ s.dynamic \in BOOLEAN
           /\ s.price \in Nat /\ s.freebies \in Nat /\ s.timeout \in Nat
           /\ s.name \in Names /\ s.capabilities \subseteq Names
           /\ s.authorization \in Seq(Tokens \union {None})
<1>1. PICK c \in Configs : \E i \in DOMAIN c : s = c[i]
  BY Zenon DEF Services
<1>2. PICK i \in DOMAIN c : s = c[i]
  BY Zenon, <1>1
<1>3. /\ s.auth \in {"on", "off", "freebie"} /\ {s.dynamic, s.constraints} \subseteq BOOLEAN
      /\ {s.price, s.freebies, s.timeout} \subseteq Nat
      /\ {s.name} \union s.capabilities \subseteq Seq(STRING)
      /\ s.authorization \in Seq(Tokens \union {None})
  BY Zenon, <1>2, ConstantsOK
<1> QED  BY Zenon, <1>3, StringNames

\* A configured service is one of Services.
LEMMA CfgServices ==
    ASSUME cfg \in Configs
    PROVE  /\ \A i \in DOMAIN cfg : cfg[i] \in Services
           /\ Len(cfg) \in Nat /\ DOMAIN cfg = 1..Len(cfg)
<1>1. \A i \in DOMAIN cfg : cfg[i] \in Services
  BY DEF Services
<1>2. Len(cfg) \in Nat /\ DOMAIN cfg = 1..Len(cfg)
  BY Zenon, ConstantsOK
<1> QED  BY Zenon, <1>1, <1>2

\* resourceName yields a name.
LEMMA ResourceNames ==
    ASSUME NEW s \in Services, NEW path \in Paths
    PROVE  ResourceName(s, path) \in Names
<1>1. s.name \in Names /\ path \in Names
  BY Zenon, ServiceTypes, StringNames, ConstantsOK
<1>2. s.name \o path \in Names
  BY <1>1 DEF Names
<1> QED  BY Zenon, <1>1, <1>2 DEF ResourceName

\* A services caveat lists what can be decoded of its names.
LEMMA ServicesCaveat ==
    ASSUME NEW ns \in SUBSET Names
    PROVE  LET c == NewServicesCaveat(ns)
           IN /\ c \in CaveatSet /\ c.cond = "services" /\ c.svc = <<>>
              /\ c.names = UNION {DecodeServices(n) : n \in ns}
              /\ c.ok <=> ns # {} /\ <<>> \notin c.names
<1> DEFINE listed == UNION {DecodeServices(n) : n \in ns}
           good == ns # {} /\ <<>> \notin listed
           c == [cond |-> "services", svc |-> <<>>, ok |-> good, names |-> listed, until |-> 0]
<1>1. NewServicesCaveat(ns) = c
  BY Zenon DEF NewServicesCaveat, Caveat
<1>2. listed \in SUBSET Names
  BY Zenon, DecodedPlain
<1>3. good \in BOOLEAN
  BY Zenon
<1>4. "services" \in Conditions /\ 0 \in Int
  BY DEF Conditions
<1> HIDE DEF listed, good
<1>5. c \in CaveatSet
  BY Zenon, <1>2, <1>3, <1>4, NoName DEF CaveatSet
<1>6. /\ c.cond = "services" /\ c.svc = <<>> /\ c.names = listed /\ c.ok = good
  BY Zenon
<1> QED  BY Zenon, <1>1, <1>5, <1>6 DEF listed, good

\* The services caveat of a new token.
LEMMA TokenServices ==
    ASSUME NEW name \in Names
    PROVE  LET c == NewServicesCaveat({name})
           IN /\ c \in CaveatSet /\ c.cond = "services" /\ c.svc = <<>>
              /\ c.names = DecodeServices(name)
              /\ c.ok <=> <<>> \notin DecodeServices(name)
<1>1. {name} \in SUBSET Names /\ {name} # {}
  BY Zenon
<1>2. UNION {DecodeServices(n) : n \in {name}} = DecodeServices(name)
  BY Zenon
<1> QED  BY Zenon, <1>1, <1>2, ServicesCaveat

\* The caveats of capabilities and timeouts.
LEMMA LimitCaveats ==
    ASSUME NEW svc \in Names, NEW names \in SUBSET Names, NEW seconds \in Int, NEW now \in Int
    PROVE  /\ NewCapabilitiesCaveat(svc, names) \in CaveatSet
           /\ NewCapabilitiesCaveat(svc, names).ok
           /\ NewCapabilitiesCaveat(svc, names).cond \in {"capabilities", "unknown"}
           /\ NewTimeoutCaveat(svc, seconds, now) \in CaveatSet
           /\ NewTimeoutCaveat(svc, seconds, now).ok
           /\ NewTimeoutCaveat(svc, seconds, now).cond \in {"timeout", "unknown"}
<1>1. /\ Condition("capabilities", svc) \in {"capabilities", "unknown"}
      /\ Condition("timeout", svc) \in {"timeout", "unknown"}
  BY Zenon DEF Condition
<1>2. now + seconds \in Int /\ 0 \in Int /\ {} \in SUBSET Names
  OBVIOUS
<1>3. {"capabilities", "timeout", "unknown"} \subseteq Conditions
  BY Zenon DEF Conditions
<1> QED  BY Zenon, <1>1, <1>2, <1>3 DEF NewCapabilitiesCaveat, NewTimeoutCaveat, Caveat, CaveatSet

\* The limits of a service hold no services caveat and at most one timeout.
LEMMA LimitsShape ==
    ASSUME cfg \in Configs, boot.at \in Int, NEW name \in Names, NEW price
    PROVE  /\ Limits(name, price) \in Seq(CaveatSet)
           /\ \A i \in DOMAIN Limits(name, price) :
                /\ Limits(name, price)[i].ok
                /\ Limits(name, price)[i].cond # "services"
                /\ Limits(name, price)[i].cond = "timeout" => i = Len(Limits(name, price))
<1> DEFINE found == {i \in DOMAIN cfg : cfg[i].name = name /\ cfg[i].price = price}
           timed == {i \in found : cfg[i].timeout > 0}
           Last(S) == cfg[CHOOSE i \in S : \A j \in S : j <= i]
           con == Caveat("constraint", <<>>, TRUE, {}, 0)
           A == IF found = {} THEN <<>>
                ELSE <<NewCapabilitiesCaveat(name, Last(found).capabilities)>>
           B == IF \E i \in found : cfg[i].constraints THEN <<con>> ELSE <<>>
           E == IF timed = {} THEN <<>>
                ELSE <<NewTimeoutCaveat(name, Last(timed).timeout, boot.at)>>
           AB == A \o B
           L == AB \o E
<1>1. Limits(name, price) = L
  BY Zenon DEF Limits
<1>2. \A S \in SUBSET DOMAIN cfg : S # {} => Last(S) \in Services
  <2> SUFFICES ASSUME NEW S \in SUBSET DOMAIN cfg, S # {}
               PROVE  Last(S) \in Services
    BY Zenon
  <2>1. (CHOOSE i \in S : \A j \in S : j <= i) \in S
    BY Zenon, CfgServices, GreatestExists
  <2> QED  BY Zenon, <2>1, CfgServices
<1>3. found \in SUBSET DOMAIN cfg /\ timed \in SUBSET DOMAIN cfg
  BY Zenon
<1> HIDE DEF found, timed, Last
<1>4. /\ A \in Seq(CaveatSet) /\ Len(A) \in Nat
      /\ \A i \in 1..Len(A) : A[i].ok /\ A[i].cond \in {"capabilities", "unknown"}
  <2>1. CASE found = {}
    BY <2>1
  <2>2. CASE found # {}
    <3> DEFINE cap == NewCapabilitiesCaveat(name, Last(found).capabilities)
    <3>1. Last(found).capabilities \in SUBSET Names
      BY Zenon, <1>2, <1>3, <2>2, ServiceTypes
    <3>2. cap \in CaveatSet /\ cap.ok /\ cap.cond \in {"capabilities", "unknown"}
      BY <3>1, LimitCaveats
    <3>3. A = <<cap>>
      BY Zenon, <2>2
    <3> HIDE DEF cap, A
    <3>4. Len(<<cap>>) = 1 /\ <<cap>>[1] = cap /\ <<cap>> \in Seq(CaveatSet)
      BY <3>2
    <3> QED  BY <3>2, <3>3, <3>4
  <2> QED  BY Zenon, <2>1, <2>2
<1>5. /\ B \in Seq(CaveatSet) /\ Len(B) \in Nat
      /\ \A i \in 1..Len(B) : B[i].ok /\ B[i].cond = "constraint"
  <2>1. con \in CaveatSet /\ con.ok /\ con.cond = "constraint"
    <3>1. "constraint" \in Conditions /\ {} \in SUBSET Names /\ 0 \in Int
      BY DEF Conditions
    <3> QED  BY Zenon, <3>1, NoName DEF Caveat, CaveatSet
  <2> HIDE DEF con
  <2>2. Len(<<con>>) = 1 /\ <<con>>[1] = con /\ <<con>> \in Seq(CaveatSet)
    BY <2>1
  <2>3. CASE B = <<con>>
    <3> HIDE DEF B
    <3> QED  BY <2>1, <2>2, <2>3
  <2>4. CASE B = <<>>
    <3> HIDE DEF B
    <3> QED  BY <2>4
  <2> QED  BY Zenon, <2>3, <2>4
<1>6. /\ E \in Seq(CaveatSet) /\ Len(E) \in {0, 1}
      /\ \A i \in 1..Len(E) : E[i].ok /\ E[i].cond \in {"timeout", "unknown"}
  <2>1. CASE timed = {}
    BY <2>1
  <2>2. CASE timed # {}
    <3> DEFINE tmo == NewTimeoutCaveat(name, Last(timed).timeout, boot.at)
    <3>1. Last(timed).timeout \in Int
      BY <1>2, <1>3, <2>2, ServiceTypes
    <3>2. tmo \in CaveatSet /\ tmo.ok /\ tmo.cond \in {"timeout", "unknown"}
      BY Zenon, <3>1, LimitCaveats
    <3>3. E = <<tmo>>
      BY Zenon, <2>2
    <3> HIDE DEF tmo, E
    <3>4. Len(<<tmo>>) = 1 /\ <<tmo>>[1] = tmo /\ <<tmo>> \in Seq(CaveatSet)
      BY <3>2
    <3> QED  BY <3>2, <3>3, <3>4
  <2> QED  BY Zenon, <2>1, <2>2
<1> HIDE DEF A, B, E
<1>7. /\ AB \in Seq(CaveatSet) /\ Len(AB) \in Nat
      /\ \A i \in 1..Len(AB) :
           AB[i].ok /\ AB[i].cond \in {"capabilities", "constraint", "unknown"}
  BY <1>4, <1>5
<1> HIDE DEF AB
<1>8. /\ L \in Seq(CaveatSet) /\ DOMAIN L = 1..Len(L)
      /\ \A i \in 1..Len(L) :
           /\ L[i].ok /\ L[i].cond # "services"
           /\ L[i].cond = "timeout" => i = Len(L)
  <2>1. /\ L \in Seq(CaveatSet) /\ DOMAIN L = 1..Len(L)
        /\ \A i \in 1..Len(L) : \/ i \in 1..Len(AB) /\ L[i] = AB[i]
                                \/ i = Len(L) /\ 1 \in 1..Len(E) /\ L[i] = E[1]
    <3>1. /\ AB \in Seq(CaveatSet) /\ Len(AB) \in Nat
          /\ E \in Seq(CaveatSet) /\ Len(E) \in {0, 1}
      BY Zenon, <1>6, <1>7
    <3>2. /\ L \in Seq(CaveatSet) /\ Len(L) = Len(AB) + Len(E)
          /\ \A i \in 1..Len(L) :
               L[i] = IF i <= Len(AB) THEN AB[i] ELSE E[i - Len(AB)]
      BY <3>1
    <3> HIDE DEF L
    <3>3. DOMAIN L = 1..Len(L)
      BY <3>2
    <3>4. ASSUME NEW i \in 1..Len(L)
          PROVE  \/ i \in 1..Len(AB) /\ L[i] = AB[i]
                 \/ i = Len(L) /\ 1 \in 1..Len(E) /\ L[i] = E[1]
      <4>0. i \in 1..(Len(AB) + Len(E))
        BY Zenon, <3>2
      <4>1. CASE i <= Len(AB)
        <5>1. i \in 1..Len(AB)
          BY <3>1, <4>0, <4>1
        <5> QED  BY Zenon, <3>2, <4>1, <5>1
      <4>2. CASE ~(i <= Len(AB))
        <5>1. i = Len(AB) + Len(E) /\ i - Len(AB) = 1 /\ 1 \in 1..Len(E)
          <6>1. ASSUME NEW a \in Nat, NEW e \in {0, 1}, NEW k \in 1..(a + e), ~(k <= a)
                PROVE  k = a + e /\ k - a = 1 /\ e = 1
            BY <6>1
          <6>2. 1 \in 1..1
            OBVIOUS
          <6> QED  BY Zenon, <3>1, <4>0, <4>2, <6>1, <6>2
        <5> QED  BY Zenon, <3>2, <4>2, <5>1
      <4> QED  BY Zenon, <4>1, <4>2
    <3> QED  BY Zenon, <3>2, <3>3, <3>4
  <2> HIDE DEF L
  <2>2. "services" \notin {"capabilities", "constraint", "timeout", "unknown"}
    BY Zenon
  <2>3. "timeout" \notin {"capabilities", "constraint", "unknown"}
    BY Zenon
  <2> QED  BY Zenon, <1>6, <1>7, <2>1, <2>2, <2>3
<1> HIDE DEF L
<1> QED  BY Zenon, <1>1, <1>8

\* What caveatsForServices returns has the shape of a token's caveats.
LEMMA MintedShape ==
    ASSUME cfg \in Configs, boot.at \in Int, NEW name \in Names, NEW price
    PROVE  Shape(CaveatsForServices(name, price), name)
<1> DEFINE first == NewServicesCaveat({name})
           L == Limits(name, price)
           cs == <<first>> \o L
<1>1. CaveatsForServices(name, price) = cs
  BY Zenon DEF CaveatsForServices, AddFirstPartyCaveats
<1>2. first \in CaveatSet /\ first.cond = "services"
  BY Zenon, TokenServices
<1>3. L \in Seq(CaveatSet)
  BY Zenon, LimitsShape
<1>6. ASSUME NEW i \in DOMAIN L
      PROVE  L[i].ok /\ L[i].cond # "services" /\ (L[i].cond = "timeout" => i = Len(L))
  BY Zenon, LimitsShape
<1> HIDE DEF first, L
<1>4. /\ cs \in Seq(CaveatSet) /\ Len(cs) = Len(L) + 1
      /\ DOMAIN cs = 1..Len(L) + 1 /\ cs[1] = first
      /\ \A i \in 1..Len(L) + 1 : i # 1 => i - 1 \in DOMAIN L /\ cs[i] = L[i - 1]
  BY <1>2, <1>3
<1> HIDE DEF cs
<1>5. ASSUME NEW i \in DOMAIN cs
      PROVE  /\ cs[i].ok \/ i = 1
             /\ cs[i].cond = "services" => i = 1
             /\ cs[i].cond = "timeout" => i = Len(L) + 1
  <2>1. CASE i = 1
    BY Zenon, <1>2, <1>4, <2>1
  <2>2. CASE i # 1
    <3>0. i \in 1..Len(L) + 1
      BY Zenon, <1>4
    <3>1. i - 1 \in DOMAIN L /\ cs[i] = L[i - 1] /\ i \in Int
      BY <1>4, <2>2, <3>0
    <3>2. /\ L[i - 1].ok /\ L[i - 1].cond # "services"
          /\ L[i - 1].cond = "timeout" => i - 1 = Len(L)
      BY Zenon, <1>6, <3>1
    <3>3. Len(L) \in Int
      BY <1>3
    <3> QED  BY <3>1, <3>2, <3>3
  <2> QED  BY Zenon, <2>1, <2>2
<1>7. 1 \in DOMAIN cs
  BY <1>3, <1>4
<1> QED  BY Zenon, <1>1, <1>4, <1>5, <1>7 DEF Shape, first

\* The two satisfiers of VerifyL402.
Asked(name, now) == {NewServicesSatisfier(name), NewTimeoutSatisfier(name, now)}

\* A chain of this shape is accepted only for a name that is listed, and not at
\* all if its services caveat is spoilt.
LEMMA VerifiedName ==
    ASSUME NEW cs, NEW name \in Names, NEW asked, NEW now,
           Shape(cs, name), VerifyCaveats(cs, Asked(asked, now))
    PROVE  asked \in DecodeServices(name) /\ Plain(asked)
<1> DEFINE s == NewServicesSatisfier(asked)
<1>1. s.cond = "services" /\ s.svc = <<>> /\ s.target = asked /\ s \in Asked(asked, now)
  BY Zenon DEF NewServicesSatisfier, Satisfier, Asked
<1>2. /\ cs[1].cond = "services" /\ cs[1].svc = <<>> /\ cs[1].names = DecodeServices(name)
      /\ cs[1].ok <=> <<>> \notin DecodeServices(name)
  BY Zenon, TokenServices DEF Shape
<1>3. 1 \in Relevant(s, cs) /\ \A k \in Relevant(s, cs) : k <= 1
  BY <1>1, <1>2 DEF Shape, Relevant
<1>4. SatisfyFinal(s, cs[1])
  BY Zenon, <1>1, <1>3 DEF VerifyCaveats
<1>5. asked \in DecodeServices(name) /\ asked # <<>>
  BY Zenon, <1>1, <1>2, <1>4 DEF SatisfyFinal
<1> QED  BY Zenon, <1>5, DecodedPlain

\* A chain of this shape is accepted for its service while no timeout is over,
\* if the name is plain.
LEMMA ShapeVerifies ==
    ASSUME NEW cs, NEW name \in Names, NEW now, Shape(cs, name), Plain(name),
           \A i \in DOMAIN cs : cs[i].cond = "timeout" => now < cs[i].until
    PROVE  VerifyCaveats(cs, Asked(name, now))
<1> SUFFICES ASSUME NEW s \in Asked(name, now)
             PROVE  /\ \A i, j \in Relevant(s, cs) : i = j
                    /\ \A i \in Relevant(s, cs) : i \in Int /\ SatisfyFinal(s, cs[i])
  BY DEF VerifyCaveats
<1>0. \A i \in DOMAIN cs : i \in Int
  BY DEF Shape
<1>3. name # <<>> /\ DecodeServices(name) = {name}
  BY Zenon, PlainDecodes DEF Plain
<1>4. cs[1].names = {name} /\ cs[1].ok /\ cs[1].cond = "services"
  BY Zenon, <1>3, TokenServices DEF Shape
<1>1. CASE s = NewServicesSatisfier(name)
  <2>1. s.cond = "services" /\ s.target = name
    BY Zenon, <1>1 DEF NewServicesSatisfier, Satisfier
  <2> QED  BY Zenon, <1>0, <1>4, <2>1 DEF Shape, Relevant, SatisfyFinal
<1>2. CASE s = NewTimeoutSatisfier(name, now)
  <2>1. s.cond = "timeout" /\ s.now = now
    BY Zenon, <1>2 DEF NewTimeoutSatisfier, Satisfier
  <2>2. \A i \in DOMAIN cs : cs[i].ok
    BY Zenon, <1>4 DEF Shape
  <2> QED  BY Zenon, <1>0, <2>1, <2>2 DEF Shape, Relevant, SatisfyFinal
<1> QED  BY Zenon, <1>1, <1>2 DEF Asked

\* The preimage that some header forms add as a caveat makes no difference.
LEMMA PreimageIgnored ==
    ASSUME NEW cs \in Seq(CaveatSet), NEW name, NEW now
    PROVE  VerifyCaveats(Append(cs, PreimageCaveat), Asked(name, now))
               <=> VerifyCaveats(cs, Asked(name, now))
<1>1. PreimageCaveat \in CaveatSet /\ PreimageCaveat.cond = "preimage"
  <2>1. {} \in SUBSET Names /\ "preimage" \in Conditions /\ 0 \in Int
    BY DEF Conditions
  <2> QED  BY Zenon, <2>1, NoName DEF PreimageCaveat, Caveat, CaveatSet
<1>2. \A s \in Asked(name, now) : s.cond \in {"services", "timeout"}
  BY DEF Asked, NewServicesSatisfier, NewTimeoutSatisfier, Satisfier
<1>3. \A s \in Asked(name, now) :
         ~(PreimageCaveat.cond = s.cond /\ PreimageCaveat.svc = s.svc)
  BY Zenon, <1>1, <1>2
<1> QED  BY Zenon, <1>1, <1>3, UnknownCaveatIgnored

-----------------------------------------------------------------------------
(***************************************************************************)
(* Headers.                                                                *)
(***************************************************************************)
\* The header fields name tokens the request carries, or nothing.
LEMMA HeaderToken ==
    ASSUME NEW header \in Headers
    PROVE  /\ FromHeader(header) \in Tokens \union {None}
           /\ FromHeader(header) # None => Carries(header, FromHeader(header))
BY DEF Headers, Header, FromHeader, Carries

\* A request without credentials.
LEMMA NoHeader == Idle.header \in Headers /\ FromHeader(Idle.header) = None
BY DEF Idle, Headers, Header, FromHeader

\* The backend extracts the last configured value, or else the token that the
\* director has parsed.
LEMMA DirectorKeepsToken ==
    ASSUME NEW header \in Headers, FromHeader(header) # None, NEW s \in Services
    PROVE  TokenFromContext(Director(header, s)) =
             IF s.authorization = <<>> THEN FromHeader(header)
             ELSE s.authorization[Len(s.authorization)]
<1> DEFINE t == FromHeader(header)
           set == s.authorization
           sent == <<t, t>> \o set
<1>1. t \in Tokens \union {None} /\ set \in Seq(Tokens \union {None})
  BY Zenon, HeaderToken, ServiceTypes
<1>2. TokenFromContext(Director(header, s)) = IF sent # <<>> THEN sent[Len(sent)] ELSE None
  BY Zenon DEF TokenFromContext, Director, SetHeader, FromHeader, Header
<1> HIDE DEF t, set
<1>3. sent # <<>> /\ sent[Len(sent)] = IF set = <<>> THEN t ELSE set[Len(set)]
  BY <1>1
<1> QED  BY Zenon, <1>2, <1>3 DEF t, set

-----------------------------------------------------------------------------
(***************************************************************************)
(* The inductive invariant.                                                *)
(***************************************************************************)
Labels == {"idle", "respond", "forward", "verify", "status", "canpass", "tally",
           "tallied", "price", "challenge", "secret", "mint"}
TokenSet ==
    [st : {"none", "minting", "delivered"}, name : Names, price : Nat, quoted : Nat,
     lasts : Nat, born : Nat, caveats : Seq(CaveatSet)]
RequestSet ==
    [target : Nat, name : Names, header : Headers, t : Tokens \union {None},
     price : Nat, quoted : Nat, count : Nat,
     why : {"none", "off", "accepted", "zero", "free"}]

Types ==
    /\ cfg \in Configs
    /\ clock \in 0..MaxTime /\ boot \in [at : Nat, n : Int] /\ boot.at <= clock
    /\ secrets \subseteq Tokens
    /\ tok \in [Tokens -> TokenSet]
    /\ invoice \in [Tokens -> {"none", "open", "paid", "seen"}]
    /\ count \in [DOMAIN cfg -> 0..(CountRange - 1)]
    /\ given \in [DOMAIN cfg -> Nat]
    /\ raced \in BOOLEAN
    /\ pc \in [Handlers -> Labels]
    /\ req \in [Handlers -> RequestSet]

\* A request has a service, and is where its service's level lets it be.
RouteOK ==
    \A h \in Handlers :
        /\ req[h].target \in {0} \union DOMAIN cfg
        /\ pc[h] \notin {"idle", "respond"} => req[h].target \in DOMAIN cfg
        /\ pc[h] \in {"verify", "status", "canpass", "tally", "tallied"}
               => Target(h).auth # "off"
        /\ pc[h] \in {"canpass", "tally", "tallied"} => Target(h).auth # "on"
        /\ pc[h] = "forward" =>
             \/ req[h].why = "accepted"
             \/ req[h].why = "zero" /\ Target(h).dynamic
             \/ req[h].why = "free" /\ Target(h).auth = "freebie"
             \/ req[h].why = "off" /\ (Target(h).auth = "off" \/ Target(h).whitelist # {})

\* A token is handed out with its secret stored and its caveats in place.
TokensOK ==
    \A t \in Tokens :
        /\ tok[t].st = "none" <=> invoice[t] = "none"
        /\ tok[t].st = "delivered" => t \in secrets /\ Shape(tok[t].caveats, tok[t].name)

\* Minting requests work on tokens of their own.
Minting(h) == pc[h] \in {"secret", "mint"}
MintOK ==
    /\ \A h \in Handlers : Minting(h) =>
         /\ req[h].t \in Tokens
         /\ tok[req[h].t].st = "minting" /\ tok[req[h].t].name = req[h].name
         /\ pc[h] = "mint" => req[h].t \in secrets
    /\ \A g, h \in Handlers : Minting(g) /\ Minting(h) /\ g # h => req[g].t # req[h].t

\* A request past VerifyL402 holds a token that lists its resource.
Verified(h) == pc[h] = "status" \/ (pc[h] = "forward" /\ req[h].why = "accepted")
AcceptOK ==
    \A h \in Handlers :
        /\ pc[h] = "verify" /\ FromHeader(req[h].header) # None =>
             /\ FromHeader(req[h].header) \in Tokens
             /\ tok[FromHeader(req[h].header)].st = "delivered"
        /\ Verified(h) =>
             /\ req[h].t \in Tokens /\ req[h].t = FromHeader(req[h].header)
             /\ tok[req[h].t].st = "delivered"
             /\ req[h].name \in DecodeServices(tok[req[h].t].name)
        /\ Verified(h) /\ pc[h] = "forward" => invoice[req[h].t] = "seen"

\* Without a race the counter counts, and the one request inside has room.
Tallying(h) == pc[h] \in {"tally", "tallied"}
FreebieOK ==
    ~raced =>
        /\ \A i \in DOMAIN cfg : count[i] = given[i] /\ given[i] <= FreebieCount(cfg[i])
        /\ \A h \in Handlers : Tallying(h) =>
             /\ count[req[h].target] < FreebieCount(Target(h))
             /\ pc[h] = "tallied" => req[h].count = count[req[h].target]
        /\ \A g, h \in Handlers : Tallying(g) /\ Tallying(h) => g = h

IInv == Types /\ RouteOK /\ TokensOK /\ MintOK /\ AcceptOK /\ FreebieOK

-----------------------------------------------------------------------------
(***************************************************************************)
(* Types.                                                                  *)
(***************************************************************************)
\* The record of a handler without a request is a request record.
LEMMA IdleType == Idle \in RequestSet
BY Zenon, NoName, NoHeader DEF Idle, RequestSet

\* Ending a request and refusing a credential keep the types.
LEMMA DoneTypes ==
    ASSUME Types, NEW h \in Handlers, Done(h)
    PROVE  pc' \in [Handlers -> Labels] /\ req' \in [Handlers -> RequestSet]
BY Zenon, IdleType DEF Types, Done, Labels

\* A request that is not accepted keeps its types.
LEMMA DenyTypes ==
    ASSUME Types, NEW h \in Handlers, Deny(h)
    PROVE  pc' \in [Handlers -> Labels] /\ req' \in [Handlers -> RequestSet]
<1>1. pc' \in [Handlers -> Labels]
  BY Zenon DEF Types, Deny, Goto, Labels
<1>2. PICK hd \in Headers : req' = [req EXCEPT ![h].header = hd, ![h].t = None]
  BY Zenon, NoHeader DEF Deny
<1>3. \A r \in RequestSet : [r EXCEPT !.header = hd, !.t = None] \in RequestSet
  BY ZenonT(40) DEF RequestSet
<1>4. req' \in [Handlers -> RequestSet]
  BY Zenon, <1>2, <1>3 DEF Types
<1> QED  BY Zenon, <1>1, <1>4

\* The service found is one of the configuration.
LEMMA MatchInCfg ==
    ASSUME Types, NEW matching \in SUBSET (DOMAIN cfg), matching # {}
    PROVE  MatchService(matching) \in matching
<1>1. matching \subseteq Nat
  BY CfgServices DEF Types
<1> QED  BY Zenon, <1>1, MatchIsService

\* A routed request is typed.
LEMMA RouteTypes ==
    ASSUME Types, NEW h \in Handlers, NEW i \in DOMAIN cfg, NEW path \in Paths,
           NEW header \in Headers, Route(h, i, path, header)
    PROVE  pc' \in [Handlers -> Labels] /\ req' \in [Handlers -> RequestSet]
<1>1. i \in Nat /\ ResourceName(cfg[i], path) \in Names
  BY CfgServices, ResourceNames DEF Types
<1>2. PICK why \in {"off", "none"} :
        req' = [req EXCEPT ![h] = [Idle EXCEPT !.target = i, !.header = header,
                                      !.name = ResourceName(cfg[i], path), !.why = why]]
  BY Zenon DEF Route
<1>3. [Idle EXCEPT !.target = i, !.header = header,
                   !.name = ResourceName(cfg[i], path), !.why = why] \in RequestSet
  BY Zenon, <1>1, IdleType DEF RequestSet
<1>4. req' \in [Handlers -> RequestSet]
  BY Zenon, <1>2, <1>3 DEF Types
<1>5. pc' \in [Handlers -> Labels]
  BY Zenon DEF Types, Route, Goto, Labels
<1> QED  BY Zenon, <1>4, <1>5

\* A request keeps its types under the assignments of the handlers.
LEMMA RequestTypes ==
    ASSUME NEW r \in RequestSet
    PROVE  /\ \A x \in Tokens : [r EXCEPT !.t = x] \in RequestSet
           /\ \A x \in Nat : [r EXCEPT !.count = x] \in RequestSet
           /\ \A x \in {"accepted", "zero"} : [r EXCEPT !.why = x] \in RequestSet
           /\ [r EXCEPT !.why = "free", !.count = 0] \in RequestSet
           /\ \A x, y \in Nat : [r EXCEPT !.quoted = x, !.price = y] \in RequestSet
BY ZenonT(40) DEF RequestSet

\* Every action keeps the types.
LEMMA TypesStep ==
    ASSUME Types, RouteOK, MintOK, [Next]_vars
    PROVE  Types'
<1> USE DEF Types, Labels, Goto, minted, freebies
<1>1. ASSUME NEW h \in Handlers, Receive(h)
      PROVE  Types'
  <2>1. PICK matching \in SUBSET (DOMAIN cfg), path \in Paths, header \in Headers :
           IF matching = {} THEN Goto(h, "respond") /\ UNCHANGED req
           ELSE Route(h, MatchService(matching), path, header)
    BY Zenon, <1>1 DEF Receive
  <2>2. CASE matching = {}
    BY Zenon, <1>1, <2>1, <2>2 DEF Receive
  <2>3. CASE matching # {}
    <3>1. MatchService(matching) \in DOMAIN cfg
      BY Zenon, <2>3, MatchInCfg
    <3>2. pc' \in [Handlers -> Labels] /\ req' \in [Handlers -> RequestSet]
      BY Zenon, <2>1, <2>3, <3>1, RouteTypes
    <3> QED  BY Zenon, <1>1, <3>2 DEF Receive
  <2> QED  BY Zenon, <2>2, <2>3
<1>2. ASSUME NEW h \in Handlers, Verify(h)
      PROVE  Types'
  <2>1. CASE Deny(h)
    BY Zenon, <1>2, <2>1, DenyTypes DEF Verify
  <2>2. CASE /\ FromHeader(req[h].header) # None
             /\ Goto(h, "status") /\ req' = [req EXCEPT ![h].t = FromHeader(req[h].header)]
    <3>1. FromHeader(req[h].header) \in Tokens
      BY Zenon, <2>2, HeaderToken DEF RequestSet
    <3>2. req' \in [Handlers -> RequestSet]
      BY Zenon, <2>2, <3>1, RequestTypes
    <3>3. pc' \in [Handlers -> Labels]
      BY Zenon, <2>2
    <3> QED  BY Zenon, <1>2, <3>2, <3>3 DEF Verify
  <2> QED  BY Zenon, <1>2, <2>1, <2>2 DEF Verify
<1>3. ASSUME NEW h \in Handlers, VerifyError(h)
      PROVE  Types'
  <2>1. pc' \in [Handlers -> Labels] /\ req' \in [Handlers -> RequestSet]
    BY Zenon, <1>3, DenyTypes DEF VerifyError
  <2> QED  BY Zenon, <1>3, <2>1 DEF VerifyError
<1>4. ASSUME NEW h \in Handlers, Status(h)
      PROVE  Types'
  <2>1. CASE Deny(h)
    BY Zenon, <1>4, <2>1, DenyTypes DEF Status
  <2>2. CASE Goto(h, "forward") /\ req' = [req EXCEPT ![h].why = "accepted"]
    <3>1. req' \in [Handlers -> RequestSet] /\ pc' \in [Handlers -> Labels]
      BY Zenon, <2>2, RequestTypes
    <3> QED  BY Zenon, <1>4, <3>1 DEF Status
  <2> QED  BY Zenon, <1>4, <2>1, <2>2 DEF Status
<1>5. ASSUME NEW h \in Handlers, CanPass(h)
      PROVE  Types'
  BY Zenon, <1>5 DEF CanPass
<1>6. ASSUME NEW h \in Handlers, TallyRead(h)
      PROVE  Types'
  <2>0. req[h].target \in DOMAIN cfg
    BY Zenon, <1>6 DEF TallyRead, RouteOK
  <2>1. count[req[h].target] \in Nat
    BY <2>0, ConstantsOK
  <2>2. req' \in [Handlers -> RequestSet] /\ pc' \in [Handlers -> Labels]
    BY Zenon, <1>6, <2>1, RequestTypes DEF TallyRead
  <2> QED  BY Zenon, <1>6, <2>2 DEF TallyRead
<1>7. ASSUME NEW h \in Handlers, TallyWrite(h)
      PROVE  Types'
  <2>1. req' \in [Handlers -> RequestSet] /\ pc' \in [Handlers -> Labels]
    BY Zenon, <1>7, RequestTypes DEF TallyWrite
  <2>2. req[h].target \in DOMAIN cfg
    BY Zenon, <1>7 DEF TallyWrite, RouteOK
  <2>3. (req[h].count + 1) % CountRange \in 0..(CountRange - 1)
    <3>1. req[h].count + 1 \in Nat /\ CountRange \in Nat \ {0}
      BY ConstantsOK DEF RequestSet
    <3> QED  BY <3>1
  <2>4. count' \in [DOMAIN cfg -> 0..(CountRange - 1)]
    BY Zenon, <1>7, <2>3 DEF TallyWrite
  <2>5. given' \in [DOMAIN cfg -> Nat]
    BY <1>7, <2>2 DEF TallyWrite
  <2> QED  BY Zenon, <1>7, <2>1, <2>4, <2>5 DEF TallyWrite
<1>8. ASSUME NEW h \in Handlers, GetPrice(h)
      PROVE  Types'
  <2>1. Target(h) \in Services
    BY Zenon, <1>8, CfgServices DEF GetPrice, RouteOK, Target
  <2>2. Price(Target(h)) \in Nat /\ Target(h).dynamic \in BOOLEAN
    BY Zenon, <2>1, ServiceTypes DEF Price
  <2>3. PICK p \in Nat :
          \/ Goto(h, "forward") /\ req' = [req EXCEPT ![h].why = "zero"]
          \/ /\ Goto(h, "challenge")
             /\ req' = [req EXCEPT ![h].quoted = p,
                           ![h].price = IF Target(h).auth = "on" THEN p ELSE Price(Target(h))]
    <3>1. {0} \union Prices \subseteq Nat
      BY ConstantsOK
    <3> QED  BY ZenonT(40), <1>8, <2>2, <3>1 DEF GetPrice
  <2>4. pc' \in [Handlers -> Labels]
    BY Zenon, <2>3
  <2>5. req' \in [Handlers -> RequestSet]
    <3>1. CASE req' = [req EXCEPT ![h].why = "zero"]
      BY Zenon, <3>1, RequestTypes
    <3>2. ASSUME NEW q \in Nat, req' = [req EXCEPT ![h].quoted = p, ![h].price = q]
          PROVE  req' \in [Handlers -> RequestSet]
      BY Zenon, <3>2, RequestTypes
    <3> QED  BY Zenon, <2>2, <2>3, <3>1, <3>2
  <2> QED  BY Zenon, <1>8, <2>4, <2>5 DEF GetPrice
<1>9. ASSUME NEW h \in Handlers, GetPriceError(h)
      PROVE  Types'
  BY Zenon, <1>9 DEF GetPriceError
<1>10. ASSUME NEW h \in Handlers, NewChallenge(h)
       PROVE  Types'
  <2>1. Target(h) \in Services
    BY Zenon, <1>10, CfgServices DEF NewChallenge, RouteOK, Target
  <2>2. Target(h).timeout \in Nat /\ MaximumPrice({req[h].price}) \in Nat
    <3>1. req[h].price \in Nat
      BY Zenon DEF RequestSet
    <3>2. (CHOOSE p \in {req[h].price} : \A q \in {req[h].price} : q <= p) = req[h].price
      BY <3>1
    <3> QED  BY Zenon, <2>1, <3>1, <3>2, ServiceTypes DEF MaximumPrice
  <2>3. PICK t \in Tokens :
          /\ tok' = [tok EXCEPT ![t] = [Unminted EXCEPT !.st = "minting", !.name = Resource(h),
                        !.price = MaximumPrice({req[h].price}), !.quoted = req[h].quoted,
                        !.lasts = Target(h).timeout, !.born = clock]]
          /\ invoice' = [invoice EXCEPT ![t] = "open"]
          /\ req' = [req EXCEPT ![h].t = t]
    BY Zenon, <1>10 DEF NewChallenge
  <2>4. [Unminted EXCEPT !.st = "minting", !.name = Resource(h),
            !.price = MaximumPrice({req[h].price}), !.quoted = req[h].quoted,
            !.lasts = Target(h).timeout, !.born = clock] \in TokenSet
    <3>1. <<>> \in Seq(CaveatSet) /\ clock \in Nat
      BY ConstantsOK
    <3>2. Resource(h) \in Names /\ req[h].quoted \in Nat
      BY Zenon DEF Resource, RequestSet
    <3> QED  BY Zenon, <2>2, <3>1, <3>2 DEF Unminted, TokenSet
  <2>5. tok' \in [Tokens -> TokenSet]
    BY Zenon, <2>3, <2>4
  <2>6. invoice' \in [Tokens -> {"none", "open", "paid", "seen"}]
    BY Zenon, <2>3
  <2>7. req' \in [Handlers -> RequestSet] /\ pc' \in [Handlers -> Labels]
    BY Zenon, <1>10, <2>3, RequestTypes DEF NewChallenge
  <2> QED  BY Zenon, <1>10, <2>5, <2>6, <2>7 DEF NewChallenge
<1>11. ASSUME NEW h \in Handlers, ChallengeError(h)
       PROVE  Types'
  BY Zenon, <1>11 DEF ChallengeError
<1>12. ASSUME NEW h \in Handlers, NewSecret(h)
       PROVE  Types'
  <2>1. req[h].t \in Tokens
    BY Zenon, <1>12 DEF NewSecret, MintOK, Minting
  <2> QED  BY Zenon, <1>12, <2>1 DEF NewSecret
<1>13. ASSUME NEW h \in Handlers, NewSecretError(h)
       PROVE  Types'
  <2>1. req[h].t \in Tokens
    BY Zenon, <1>13 DEF NewSecretError, MintOK, Minting
  <2> QED  BY Zenon, <1>13, <2>1 DEF NewSecretError
<1>14. ASSUME NEW h \in Handlers, Mint(h)
       PROVE  Types'
  <2>1. pc' \in [Handlers -> Labels] /\ req' \in [Handlers -> RequestSet]
    BY Zenon, <1>14, DoneTypes DEF Mint
  <2>2. CaveatsForServices(Resource(h), req[h].price) \in Seq(CaveatSet)
    <3>1. Resource(h) \in Names /\ boot.at \in Int
      BY DEF Resource, RequestSet
    <3> QED  BY Zenon, <3>1, MintedShape DEF Shape
  <2>3. tok' \in [Tokens -> TokenSet]
    <3> DEFINE cs == CaveatsForServices(Resource(h), req[h].price)
    <3>1. cs \in Seq(CaveatSet)
      BY Zenon, <2>2
    <3>2. tok' = [tok EXCEPT ![req[h].t].st = "delivered", ![req[h].t].caveats = cs]
      BY Zenon, <1>14 DEF Mint
    <3> HIDE DEF cs
    <3>3. \A x \in TokenSet : [x EXCEPT !.st = "delivered", !.caveats = cs] \in TokenSet
      BY Zenon, <3>1 DEF TokenSet
    <3> QED  BY Zenon, <3>2, <3>3
  <2> QED  BY Zenon, <1>14, <2>1, <2>3 DEF Mint
<1>15. ASSUME NEW h \in Handlers, MintError(h)
       PROVE  Types'
  BY Zenon, <1>15 DEF MintError
<1>16. ASSUME NEW h \in Handlers, Respond(h)
       PROVE  Types'
  <2>1. pc' \in [Handlers -> Labels] /\ req' \in [Handlers -> RequestSet]
    BY Zenon, <1>16, DoneTypes DEF Respond
  <2> QED  BY Zenon, <1>16, <2>1 DEF Respond
<1>17. ASSUME NEW h \in Handlers, Forward(h)
       PROVE  Types'
  <2>1. pc' \in [Handlers -> Labels] /\ req' \in [Handlers -> RequestSet]
    BY Zenon, <1>17, DoneTypes DEF Forward
  <2> QED  BY Zenon, <1>17, <2>1 DEF Forward
<1>18. ASSUME NEW t \in Tokens, Pay(t)
       PROVE  Types'
  BY Zenon, <1>18 DEF Pay
<1>19. ASSUME NEW t \in Tokens, Settle(t)
       PROVE  Types'
  BY Zenon, <1>19 DEF Settle
<1>20. ASSUME Tick
       PROVE  Types'
  <2>1. clock' \in 0..MaxTime /\ boot.at <= clock'
    BY <1>20, ConstantsOK DEF Tick
  <2> QED  BY Zenon, <1>20, <2>1 DEF Tick
<1>21. ASSUME Restart
       PROVE  Types'
  <2>1. pc' \in [Handlers -> Labels] /\ req' \in [Handlers -> RequestSet]
    BY Zenon, <1>21, IdleType DEF Restart
  <2>2. boot' \in [at : Nat, n : Int] /\ boot'.at <= clock'
    BY <1>21, ConstantsOK DEF Restart
  <2>3. count' \in [DOMAIN cfg' -> 0..(CountRange - 1)] /\ given' \in [DOMAIN cfg' -> Nat]
    BY <1>21, ConstantsOK DEF Restart
  <2> QED  BY Zenon, <1>21, <2>1, <2>2, <2>3 DEF Restart
<1>22. ASSUME UNCHANGED vars
       PROVE  Types'
  BY Zenon, <1>22 DEF vars
<1> QED
  BY Zenon, <1>1, <1>2, <1>3, <1>4, <1>5, <1>6, <1>7, <1>8, <1>9, <1>10, <1>11,
     <1>12, <1>13, <1>14, <1>15, <1>16, <1>17, <1>18, <1>19, <1>20, <1>21, <1>22 DEF Next

-----------------------------------------------------------------------------
(***************************************************************************)
(* The other parts of the invariant.                                       *)
(***************************************************************************)

\* The end of a request.
LEMMA DoneEffect ==
    ASSUME Types, NEW h \in Handlers, Done(h)
    PROVE  /\ pc'[h] = "idle" /\ req'[h].target = 0
           /\ \A g \in Handlers : g # h => pc'[g] = pc[g] /\ req'[g] = req[g]
BY Zenon DEF Types, Done, Idle

\* A refused credential.
LEMMA DenyEffect ==
    ASSUME Types, NEW h \in Handlers, Deny(h)
    PROVE  /\ pc'[h] = IF Target(h).auth = "on" THEN "price" ELSE "canpass"
           /\ req'[h].target = req[h].target
           /\ \A g \in Handlers : g # h => pc'[g] = pc[g] /\ req'[g] = req[g]
BY Zenon DEF Types, Deny, Goto, RequestSet

\* A new request.
LEMMA RouteEffect ==
    ASSUME Types, NEW h \in Handlers, NEW i, NEW path, NEW header,
           Route(h, i, path, header)
    PROVE  /\ req'[h].target = i /\ req'[h].header = header
           /\ IF AuthRequired(cfg[i], path) = "off"
              THEN pc'[h] = "forward" /\ req'[h].why = "off"
              ELSE pc'[h] = "verify"
           /\ \A g \in Handlers : g # h => pc'[g] = pc[g] /\ req'[g] = req[g]
<1>1. PICK why : /\ req' = [req EXCEPT ![h] = [Idle EXCEPT !.target = i, !.header = header,
                              !.name = ResourceName(cfg[i], path), !.why = why]]
                 /\ AuthRequired(cfg[i], path) = "off" => why = "off"
  BY Zenon DEF Route
<1>2. /\ req'[h].target = i /\ req'[h].header = header /\ req'[h].why = why
      /\ \A g \in Handlers : g # h => req'[g] = req[g]
  BY Zenon, <1>1 DEF Types, Idle
<1>3. /\ pc'[h] = IF AuthRequired(cfg[i], path) = "off" THEN "forward" ELSE "verify"
      /\ \A g \in Handlers : g # h => pc'[g] = pc[g]
  BY Zenon DEF Types, Route, Goto
<1> QED  BY Zenon, <1>1, <1>2, <1>3

\* The effect of counting a free request, but for the counters.
LEMMA TallyWriteEffect ==
    ASSUME Types, NEW h \in Handlers, TallyWrite(h)
    PROVE  /\ pc[h] = "tallied" /\ pc'[h] = "forward" /\ req'[h].why = "free"
           /\ req'[h].target = req[h].target
           /\ \A g \in Handlers : g # h => pc'[g] = pc[g] /\ req'[g] = req[g]
           /\ UNCHANGED <<cfg, secrets, tok, invoice, raced>>
BY DEF Types, TallyWrite, Goto, RequestSet, minted

\* The effect of asking for the price.
LEMMA GetPriceEffect ==
    ASSUME Types, RouteOK, NEW h \in Handlers, GetPrice(h)
    PROVE  /\ pc[h] = "price" /\ req'[h].target = req[h].target
           /\ \/ pc'[h] = "challenge"
              \/ pc'[h] = "forward" /\ req'[h].why = "zero" /\ Target(h).dynamic
           /\ \A g \in Handlers : g # h => pc'[g] = pc[g] /\ req'[g] = req[g]
           /\ UNCHANGED <<cfg, secrets, tok, invoice, count, given, raced>>
<1>1. Target(h) \in Services
  BY Zenon, CfgServices DEF GetPrice, Types, RouteOK, Target
<1>2. Target(h).dynamic \in BOOLEAN
  BY Zenon, <1>1, ServiceTypes
<1>3. PICK p \in IF Target(h).dynamic THEN {0} \union Prices ELSE {Price(Target(h))} :
        IF p = 0
        THEN req' = [req EXCEPT ![h].why = "zero"] /\ Goto(h, "forward")
        ELSE /\ req' = [req EXCEPT ![h].quoted = p,
                  ![h].price = IF Target(h).auth = "on" THEN p ELSE Price(Target(h))]
             /\ Goto(h, "challenge")
  BY Zenon DEF GetPrice
<1>4. pc[h] = "price" /\ UNCHANGED <<cfg, secrets, tok, invoice, count, given, raced>>
  BY Zenon DEF GetPrice, minted, freebies
<1>5. CASE p = 0
  <2>1. Target(h).dynamic
    BY <1>2, <1>3, <1>5 DEF Price
  <2> QED  BY <1>3, <1>4, <1>5, <2>1 DEF Types, RequestSet, Goto
<1>6. CASE p # 0
  <2>1. PICK q : req' = [req EXCEPT ![h].quoted = p, ![h].price = q]
    BY Zenon, <1>3, <1>6
  <2> QED  BY <1>3, <1>4, <1>6, <2>1 DEF Types, RequestSet, Goto
<1> QED  BY Zenon, <1>5, <1>6

\* A new invoice belongs to a token nobody has used.
LEMMA NewChallengeEffect ==
    ASSUME Types, NEW h \in Handlers, NewChallenge(h)
    PROVE  \E t \in Tokens :
             /\ tok[t].st = "none" /\ tok'[t].st = "minting" /\ tok'[t].name = req[h].name
             /\ invoice'[t] = "open" /\ req'[h].t = t
             /\ pc'[h] = "secret" /\ req'[h].name = req[h].name
             /\ \A u \in Tokens : u # t => tok'[u] = tok[u] /\ invoice'[u] = invoice[u]
             /\ \A g \in Handlers : g # h => pc'[g] = pc[g] /\ req'[g] = req[g]
             /\ UNCHANGED secrets
<1>1. PICK t \in Tokens :
        /\ tok[t].st = "none"
        /\ tok' = [tok EXCEPT ![t] = [Unminted EXCEPT !.st = "minting", !.name = Resource(h),
                      !.price = MaximumPrice({req[h].price}), !.quoted = req[h].quoted,
                      !.lasts = Target(h).timeout, !.born = clock]]
        /\ invoice' = [invoice EXCEPT ![t] = "open"]
        /\ req' = [req EXCEPT ![h].t = t]
  BY Zenon DEF NewChallenge
<1>2. /\ tok'[t].st = "minting" /\ tok'[t].name = req[h].name
      /\ \A u \in Tokens : u # t => tok'[u] = tok[u]
  BY Zenon, <1>1 DEF Types, Unminted, Resource
<1>3. invoice'[t] = "open" /\ \A u \in Tokens : u # t => invoice'[u] = invoice[u]
  BY Zenon, <1>1 DEF Types
<1>4. /\ req'[h].t = t /\ req'[h].name = req[h].name
      /\ \A g \in Handlers : g # h => req'[g] = req[g]
  BY Zenon, <1>1 DEF Types, RequestSet
<1>5. pc'[h] = "secret" /\ (\A g \in Handlers : g # h => pc'[g] = pc[g]) /\ UNCHANGED secrets
  BY Zenon DEF NewChallenge, Goto, Types
<1> QED  BY Zenon, <1>1, <1>2, <1>3, <1>4, <1>5

\* Minting completes the token of the request.
LEMMA MintEffect ==
    ASSUME Types, MintOK, NEW h \in Handlers, Mint(h)
    PROVE  /\ pc[h] = "mint" /\ req[h].t \in Tokens
           /\ tok'[req[h].t].st = "delivered" /\ tok'[req[h].t].name = tok[req[h].t].name
           /\ Shape(tok'[req[h].t].caveats, req[h].name)
           /\ \A u \in Tokens : u # req[h].t => tok'[u] = tok[u]
           /\ pc'[h] = "idle"
           /\ \A g \in Handlers : g # h => pc'[g] = pc[g] /\ req'[g] = req[g]
           /\ UNCHANGED <<secrets, invoice>>
<1> DEFINE cs == CaveatsForServices(Resource(h), req[h].price)
<1>1. pc[h] = "mint" /\ Done(h) /\ UNCHANGED <<secrets, invoice>>
  BY Zenon DEF Mint
<1>2. req[h].t \in Tokens
  BY Zenon, <1>1 DEF MintOK, Minting
<1>3. Shape(cs, req[h].name)
  <2>1. Resource(h) \in Names /\ boot.at \in Int /\ cfg \in Configs
    BY DEF Types, Resource, RequestSet
  <2> QED  BY Zenon, <2>1, MintedShape DEF Resource
<1>4. tok' = [tok EXCEPT ![req[h].t].st = "delivered", ![req[h].t].caveats = cs]
  BY Zenon DEF Mint
<1> HIDE DEF cs
<1>5. /\ tok'[req[h].t].st = "delivered" /\ tok'[req[h].t].name = tok[req[h].t].name
      /\ tok'[req[h].t].caveats = cs
      /\ \A u \in Tokens : u # req[h].t => tok'[u] = tok[u]
  BY <1>2, <1>4 DEF Types, TokenSet
<1> QED  BY Zenon, <1>1, <1>2, <1>3, <1>5, DoneEffect

\* What Receive does to the one request and the others.
LEMMA ReceiveEffect ==
    ASSUME Types, NEW h \in Handlers, Receive(h)
    PROVE  /\ \/ pc'[h] = "respond" /\ req'[h].target = req[h].target
              \/ /\ req'[h].target \in DOMAIN cfg
                 /\ \/ /\ pc'[h] = "forward" /\ req'[h].why = "off"
                       /\ \/ cfg[req'[h].target].auth = "off"
                          \/ cfg[req'[h].target].whitelist # {}
                    \/ /\ pc'[h] = "verify" /\ cfg[req'[h].target].auth # "off"
                       /\ req'[h].header \in Headers
                       /\ \A t \in Tokens :
                            Carries(req'[h].header, t) => tok[t].st = "delivered"
           /\ \A g \in Handlers : g # h => pc'[g] = pc[g] /\ req'[g] = req[g]
           /\ UNCHANGED <<cfg, clock, boot, secrets, tok, invoice, count, given, raced>>
<1>1. UNCHANGED <<cfg, clock, boot, secrets, tok, invoice, count, given, raced>>
  BY Zenon DEF Receive, minted, freebies
<1>2. PICK matching \in SUBSET (DOMAIN cfg), path \in Paths, header \in Headers :
        /\ \A t \in Tokens : Carries(header, t) => tok[t].st = "delivered"
        /\ IF matching = {} THEN Goto(h, "respond") /\ UNCHANGED req
           ELSE Route(h, MatchService(matching), path, header)
  BY Zenon DEF Receive
<1>3. CASE matching = {}
  BY Zenon, <1>1, <1>2, <1>3 DEF Goto, Types
<1>4. CASE matching # {}
  <2> DEFINE i == MatchService(matching)
  <2>1. i \in DOMAIN cfg
    BY Zenon, <1>4, MatchInCfg
  <2>2. Route(h, i, path, header)
    BY Zenon, <1>2, <1>4
  <2> HIDE DEF i
  <2>3. /\ AuthRequired(cfg[i], path) = "off" => cfg[i].auth = "off" \/ cfg[i].whitelist # {}
        /\ AuthRequired(cfg[i], path) # "off" => cfg[i].auth # "off"
    BY Zenon DEF AuthRequired
  <2> QED  BY <1>1, <1>2, <2>1, <2>2, <2>3, RouteEffect
<1> QED  BY Zenon, <1>3, <1>4

\* A request stays with its service and obeys its level.
LEMMA RouteStep ==
    ASSUME Types, Types', RouteOK, [Next]_vars
    PROVE  RouteOK'
<1> USE DEF RouteOK, Target, Goto, minted, freebies
<1>1. ASSUME NEW h \in Handlers, Receive(h)
      PROVE  RouteOK'
  BY <1>1, ReceiveEffect
<1>2. ASSUME NEW h \in Handlers, Verify(h)
      PROVE  RouteOK'
  <2>1. CASE Deny(h)
    BY <1>2, <2>1, DenyEffect DEF Verify
  <2>2. CASE Goto(h, "status") /\ req' = [req EXCEPT ![h].t = FromHeader(req[h].header)]
    BY <1>2, <2>2 DEF Verify, RequestSet, Types
  <2> QED  BY Zenon, <1>2, <2>1, <2>2 DEF Verify
<1>3. ASSUME NEW h \in Handlers, VerifyError(h)
      PROVE  RouteOK'
  BY <1>3, DenyEffect DEF VerifyError
<1>4. ASSUME NEW h \in Handlers, Status(h)
      PROVE  RouteOK'
  <2>1. CASE Deny(h)
    BY <1>4, <2>1, DenyEffect DEF Status
  <2>2. CASE Goto(h, "forward") /\ req' = [req EXCEPT ![h].why = "accepted"]
    BY <1>4, <2>2 DEF Status, RequestSet, Types
  <2> QED  BY Zenon, <1>4, <2>1, <2>2 DEF Status
<1>5. ASSUME NEW h \in Handlers, CanPass(h)
      PROVE  RouteOK'
  BY <1>5 DEF CanPass
<1>6. ASSUME NEW h \in Handlers, TallyRead(h)
      PROVE  RouteOK'
  BY <1>6 DEF TallyRead
<1>7. ASSUME NEW h \in Handlers, TallyWrite(h)
      PROVE  RouteOK'
  <2>1. Target(h) \in Services
    BY Zenon, <1>7, TallyWriteEffect, CfgServices DEF Types
  <2>2. Target(h).auth = "freebie"
    BY Zenon, <1>7, <2>1, ServiceTypes, TallyWriteEffect
  <2> HIDE DEF Target
  <2>3. Target(h)' = Target(h)
    BY Zenon, <1>7, TallyWriteEffect DEF Target
  <2>4. \A g \in Handlers : g # h => Target(g)' = Target(g)
    BY Zenon, <1>7, TallyWriteEffect DEF Target
  <2> QED  BY <1>7, <2>2, <2>3, <2>4, TallyWriteEffect
<1>8. ASSUME NEW h \in Handlers, GetPrice(h)
      PROVE  RouteOK'
  BY <1>8, GetPriceEffect
<1>9. ASSUME NEW h \in Handlers, GetPriceError(h)
      PROVE  RouteOK'
  BY <1>9 DEF GetPriceError
<1>10. ASSUME NEW h \in Handlers, NewChallenge(h)
       PROVE  RouteOK'
  BY <1>10 DEF NewChallenge
<1>11. ASSUME NEW h \in Handlers, ChallengeError(h)
       PROVE  RouteOK'
  BY <1>11 DEF ChallengeError
<1>12. ASSUME NEW h \in Handlers, NewSecret(h)
       PROVE  RouteOK'
  BY <1>12 DEF NewSecret
<1>13. ASSUME NEW h \in Handlers, NewSecretError(h)
       PROVE  RouteOK'
  BY <1>13 DEF NewSecretError
<1>14. ASSUME NEW h \in Handlers, Mint(h)
       PROVE  RouteOK'
  BY <1>14, DoneEffect DEF Mint
<1>15. ASSUME NEW h \in Handlers, MintError(h)
       PROVE  RouteOK'
  BY <1>15 DEF MintError
<1>16. ASSUME NEW h \in Handlers, Respond(h)
       PROVE  RouteOK'
  BY <1>16, DoneEffect DEF Respond
<1>17. ASSUME NEW h \in Handlers, Forward(h)
       PROVE  RouteOK'
  BY <1>17, DoneEffect DEF Forward
<1>18. ASSUME NEW t \in Tokens, Pay(t)
       PROVE  RouteOK'
  BY Zenon, <1>18 DEF Pay
<1>19. ASSUME NEW t \in Tokens, Settle(t)
       PROVE  RouteOK'
  BY Zenon, <1>19 DEF Settle
<1>20. ASSUME Tick
       PROVE  RouteOK'
  BY Zenon, <1>20 DEF Tick
<1>21. ASSUME Restart
       PROVE  RouteOK'
  <2>1. \A h \in Handlers : pc'[h] = "idle" /\ req'[h].target = 0
    BY Zenon, <1>21 DEF Restart, Idle
  <2> QED  BY Zenon, <2>1
<1>22. ASSUME UNCHANGED vars
       PROVE  RouteOK'
  BY <1>22 DEF vars
<1> QED
  BY ZenonT(40), <1>1, <1>2, <1>3, <1>4, <1>5, <1>6, <1>7, <1>8, <1>9, <1>10, <1>11,
     <1>12, <1>13, <1>14, <1>15, <1>16, <1>17, <1>18, <1>19, <1>20, <1>21, <1>22 DEF Next

\* A token that is handed out keeps its secret and its caveats.
LEMMA TokensStep ==
    ASSUME Types, Types', TokensOK, MintOK, [Next]_vars
    PROVE  TokensOK'
<1> USE DEF TokensOK, Goto, minted, freebies
<1>1. ASSUME NEW h \in Handlers, Receive(h)
      PROVE  TokensOK'
  BY Zenon, <1>1 DEF Receive
<1>2. ASSUME NEW h \in Handlers, Verify(h)
      PROVE  TokensOK'
  BY Zenon, <1>2 DEF Verify
<1>3. ASSUME NEW h \in Handlers, VerifyError(h)
      PROVE  TokensOK'
  BY Zenon, <1>3 DEF VerifyError
<1>4. ASSUME NEW h \in Handlers, Status(h)
      PROVE  TokensOK'
  BY Zenon, <1>4 DEF Status
<1>5. ASSUME NEW h \in Handlers, CanPass(h)
      PROVE  TokensOK'
  BY Zenon, <1>5 DEF CanPass
<1>6. ASSUME NEW h \in Handlers, TallyRead(h)
      PROVE  TokensOK'
  BY Zenon, <1>6 DEF TallyRead
<1>7. ASSUME NEW h \in Handlers, TallyWrite(h)
      PROVE  TokensOK'
  BY Zenon, <1>7 DEF TallyWrite
<1>8. ASSUME NEW h \in Handlers, GetPrice(h)
      PROVE  TokensOK'
  BY Zenon, <1>8 DEF GetPrice
<1>9. ASSUME NEW h \in Handlers, GetPriceError(h)
      PROVE  TokensOK'
  BY Zenon, <1>9 DEF GetPriceError
<1>10. ASSUME NEW h \in Handlers, NewChallenge(h)
       PROVE  TokensOK'
  BY <1>10, NewChallengeEffect
<1>11. ASSUME NEW h \in Handlers, ChallengeError(h)
       PROVE  TokensOK'
  BY Zenon, <1>11 DEF ChallengeError
<1>12. ASSUME NEW h \in Handlers, NewSecret(h)
       PROVE  TokensOK'
  BY Zenon, <1>12 DEF NewSecret
<1>13. ASSUME NEW h \in Handlers, NewSecretError(h)
       PROVE  TokensOK'
  BY Zenon, <1>13 DEF NewSecretError
<1>14. ASSUME NEW h \in Handlers, Mint(h)
       PROVE  TokensOK'
  <2>1. /\ req[h].t \in secrets /\ tok[req[h].t].name = req[h].name
        /\ tok[req[h].t].st = "minting"
    BY Zenon, <1>14, MintEffect DEF MintOK, Minting
  <2> QED  BY <1>14, <2>1, MintEffect
<1>15. ASSUME NEW h \in Handlers, MintError(h)
       PROVE  TokensOK'
  <2>1. tok[req[h].t].st = "minting"
    BY Zenon, <1>15 DEF MintError, MintOK, Minting
  <2>2. UNCHANGED <<tok, invoice>> /\ \A t \in secrets : t # req[h].t => t \in secrets'
    BY Zenon, <1>15 DEF MintError
  <2> QED  BY Zenon, <2>1, <2>2
<1>16. ASSUME NEW h \in Handlers, Respond(h)
       PROVE  TokensOK'
  BY Zenon, <1>16 DEF Respond
<1>17. ASSUME NEW h \in Handlers, Forward(h)
       PROVE  TokensOK'
  BY Zenon, <1>17 DEF Forward
<1>18. ASSUME NEW t \in Tokens, Pay(t)
       PROVE  TokensOK'
  BY <1>18 DEF Pay
<1>19. ASSUME NEW t \in Tokens, Settle(t)
       PROVE  TokensOK'
  BY <1>19 DEF Settle
<1>20. ASSUME Tick
       PROVE  TokensOK'
  BY Zenon, <1>20 DEF Tick
<1>21. ASSUME Restart
       PROVE  TokensOK'
  BY Zenon, <1>21 DEF Restart
<1>22. ASSUME UNCHANGED vars
       PROVE  TokensOK'
  BY Zenon, <1>22 DEF vars
<1> QED
  BY ZenonT(40), <1>1, <1>2, <1>3, <1>4, <1>5, <1>6, <1>7, <1>8, <1>9, <1>10, <1>11,
     <1>12, <1>13, <1>14, <1>15, <1>16, <1>17, <1>18, <1>19, <1>20, <1>21, <1>22 DEF Next

=============================================================================
