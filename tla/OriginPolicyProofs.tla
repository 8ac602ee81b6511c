-------------------------- MODULE OriginPolicyProofs --------------------------
(***************************************************************************)
(* For every list of allowed origins, of any length: the server admits     *)
(* what is configured and nothing else.  The argument is a loop invariant: *)
(* what the policy allows so far, with what the loop has still to read,    *)
(* admits the same origins as the configuration.                           *)
(***************************************************************************)
EXTENDS OriginPolicy, TLAPS

(* The named parts of a list.                                              *)
Named(list) == {t \in ToSet(list) : t.kind # "blank"}

(* What the texts T admit, together with the policy so far.                *)
AdmittedBy(T) == {o \in Text : \E t \in T : Admits(t, o)}
Allowed == {o \in Text : Allows(o)}

(* The loop invariant.                                                     *)
Fresh == exact = {} /\ hosts = [s \in Scheme |-> {}]

InEnv ==
  stage = "env" =>
    Fresh /\ seen = {} /\ Named(parts) = ToSet(out) \cup Named(rest)

InMerge ==
  stage = "merge" =>
    /\ Fresh
    /\ ToSet(out) \cup ToSet(rest) \subseteq Named(parts)
    /\ \A t \in ToSet(out) : Lower(t) \in seen
    /\ \A l \in seen : \E t \in ToSet(out) : Lower(t) = l
    /\ \A t \in Named(parts) : t \in ToSet(rest) \/ Lower(t) \in seen

InPolicy ==
  stage = "policy" => Allowed \cup AdmittedBy(ToSet(rest)) = AdmittedBy(Configured)

InServe ==
  stage = "serve" => Allowed = AdmittedBy(Configured)

Inv == TypeOK /\ InEnv /\ InMerge /\ InPolicy /\ InServe

-----------------------------------------------------------------------------
(* Lemmas about lists.                                                     *)

(* What append adds to the members of a list.                              *)
LEMMA AppendSet ==
  ASSUME NEW S, NEW list \in Seq(S), NEW x \in S
  PROVE  ToSet(Append(list, x)) = ToSet(list) \cup {x}
<1>1. DOMAIN list = 1..Len(list) /\ DOMAIN Append(list, x) = 1..(Len(list) + 1)
  OBVIOUS
<1>2. \A i \in 1..Len(list) : Append(list, x)[i] = list[i] /\ i \in 1..(Len(list) + 1)
  OBVIOUS
<1>3. Append(list, x)[Len(list) + 1] = x /\ Len(list) + 1 \in 1..(Len(list) + 1)
  OBVIOUS
<1>4. \A i \in 1..(Len(list) + 1) : i \in 1..Len(list) \/ i = Len(list) + 1
  OBVIOUS
<1>5. ToSet(Append(list, x)) \subseteq ToSet(list) \cup {x}
  BY <1>1, <1>2, <1>3, <1>4 DEF ToSet
<1>6. ToSet(list) \cup {x} \subseteq ToSet(Append(list, x))
  BY <1>1, <1>2, <1>3 DEF ToSet
<1>7. QED BY <1>5, <1>6

(* A loop reads the first member of its list and keeps the others.         *)
LEMMA HeadTailSet ==
  ASSUME NEW S, NEW list \in Seq(S), list # <<>>
  PROVE  /\ Head(list) \in S /\ Tail(list) \in Seq(S)
         /\ ToSet(list) = {Head(list)} \cup ToSet(Tail(list))
<1>1. Head(list) \in S /\ Tail(list) \in Seq(S) /\ Len(list) \in Nat \ {0}
  OBVIOUS
<1>2. \A i \in 1..Len(list) : i = 1 \/ (i - 1 \in 1..Len(Tail(list)) /\ list[i] = Tail(list)[i - 1])
  OBVIOUS
<1>3. \A i \in 1..Len(Tail(list)) : i + 1 \in 1..Len(list) /\ Tail(list)[i] = list[i + 1]
  OBVIOUS
<1>4. ToSet(list) \subseteq {Head(list)} \cup ToSet(Tail(list))
  <2>1. SUFFICES ASSUME NEW i \in 1..Len(list)
                 PROVE  list[i] \in {Head(list)} \cup ToSet(Tail(list))
    BY DEF ToSet
  <2>2. CASE i = 1
    <3>1. list[1] = Head(list)
      OBVIOUS
    <3>2. QED BY <2>2, <3>1
  <2>3. CASE i - 1 \in 1..Len(Tail(list)) /\ list[i] = Tail(list)[i - 1]
    <3>1. DOMAIN Tail(list) = 1..Len(Tail(list))
      BY <1>1
    <3>2. list[i] \in ToSet(Tail(list))
      BY <2>3, <3>1 DEF ToSet
    <3>3. QED BY <3>2
  <2>4. QED BY <1>2, <2>2, <2>3
<1>5. {Head(list)} \cup ToSet(Tail(list)) \subseteq ToSet(list)
  BY <1>1, <1>3 DEF ToSet
<1>6. QED BY <1>1, <1>4, <1>5

(* The members of the empty list, and of any list.                         *)
LEMMA SetOfList ==
  /\ ToSet(<<>>) = {}
  /\ \A S : \A list \in Seq(S) : ToSet(list) \subseteq S
  /\ \A S : \A list \in Seq(S) : ToSet(list) = {} => list = <<>>
BY DEF ToSet

-----------------------------------------------------------------------------
(* Lemmas about texts.                                                     *)

(* Two spellings of an entry admit the same origins.                       *)
LEMMA SpellingIsIrrelevant ==
  ASSUME NEW t \in Text, NEW u \in Text, t.kind # "blank", u.kind # "blank",
         Lower(t) = Lower(u), NEW o \in Text
  PROVE  Admits(t, o) <=> Admits(u, o)
<1>1. CASE t.kind = "invalid" /\ u.kind = "invalid"
  BY <1>1 DEF Admits
<1>2. CASE t.kind # "invalid" /\ u.kind # "invalid"
  <2>1. t.kind = u.kind /\ t.scheme = u.scheme /\ t.host = u.host /\ t.port = u.port
    BY <1>2 DEF Lower, Text
  <2>2. QED BY <2>1 DEF Admits
<1>3. t.kind = "invalid" <=> u.kind = "invalid"
  BY DEF Lower, Text
<1>4. QED BY <1>1, <1>2, <1>3

(* The origins of a developer are texts.                                   *)
LEMMA DevOrigins == DevAllowedOrigins \in Seq(Text)
<1>1. \A s \in {"http", "https"}, h \in {"localhost", "127.0.0.1"} : DevOrigin(s, h) \in Text
  BY NamesAssumption DEF DevOrigin, Text
<1>2. QED BY <1>1 DEF DevAllowedOrigins

-----------------------------------------------------------------------------
(* The loop invariant.                                                     *)

LEMMA InitInv == Init => Inv
<1>1. SUFFICES ASSUME Init PROVE Inv
  OBVIOUS
<1>2. parts \in Seq(Text) /\ <<>> \in Seq(Text)
  BY <1>1, EnvironmentsAssumption DEF Init
<1>3. TypeOK
  BY <1>1, <1>2 DEF Init, TypeOK
<1>4. InEnv
  BY <1>1, SetOfList DEF Init, InEnv, Fresh, Named
<1>5. QED BY <1>1, <1>3, <1>4 DEF Inv, Init, InMerge, InPolicy, InServe

LEMMA TakePartStep == Inv /\ TakePart => Inv'
<1>1. SUFFICES ASSUME Inv, TakePart PROVE Inv'
  OBVIOUS
<1> DEFINE t == Head(rest)
<1>2. /\ t \in Text /\ Tail(rest) \in Seq(Text)
      /\ ToSet(rest) = {t} \cup ToSet(Tail(rest))
  BY <1>1, HeadTailSet DEF Inv, TypeOK, TakePart, Read
<1>3. TypeOK'
  BY <1>1, <1>2 DEF Inv, TypeOK, TakePart, Read
<1>4. ToSet(out') \cup Named(rest') = ToSet(out) \cup Named(rest)
  <2>1. ToSet(Append(out, t)) = ToSet(out) \cup {t}
    BY <1>1, <1>2, AppendSet DEF Inv, TypeOK
  <2>2. QED BY <1>1, <1>2, <2>1 DEF TakePart, Read, Named
<1>5. InEnv'
  BY <1>1, <1>4 DEF Inv, InEnv, TakePart, Read, Fresh, Named
<1>6. QED BY <1>1, <1>3, <1>5 DEF Inv, TakePart, Read, InMerge, InPolicy, InServe

LEMMA MergeStep == Inv /\ Merge => Inv'
<1>1. SUFFICES ASSUME Inv, Merge PROVE Inv'
  OBVIOUS
<1> DEFINE t == Head(rest)
<1>2. /\ t \in Text /\ Tail(rest) \in Seq(Text)
      /\ ToSet(rest) = {t} \cup ToSet(Tail(rest))
  BY <1>1, HeadTailSet DEF Inv, TypeOK, Merge, Read
<1>3. t.kind # "blank"
  BY <1>1, <1>2 DEF Inv, InMerge, Merge, Read, Named
<1>4. Lower(t) \in {u \in Text : u.kind \in {"origin", "page"} => ~u.upper}
  BY <1>2, <1>3 DEF Lower, Text
<1>5. TypeOK'
  BY <1>1, <1>2, <1>4 DEF Inv, TypeOK, Merge, Read
<1>6. InMerge'
  <2>1. CASE Lower(t) \in seen
    BY <1>1, <1>2, <2>1 DEF Inv, InMerge, Merge, Read, Fresh, Named
  <2>2. CASE Lower(t) \notin seen
    <3>1. ToSet(Append(out, t)) = ToSet(out) \cup {t}
      BY <1>1, <1>2, AppendSet DEF Inv, TypeOK
    <3>2. out' = Append(out, t) /\ seen' = seen \cup {Lower(t)}
      BY <1>1, <1>3, <2>2 DEF Merge, Read
    <3>3. stage = "merge" /\ rest' = Tail(rest) /\ UNCHANGED <<stage, parts, exact, hosts>>
      BY <1>1 DEF Merge, Read
    <3>4. ToSet(out') = ToSet(out) \cup {t} /\ Named(parts)' = Named(parts) /\ Fresh'
      BY <1>1, <3>1, <3>2, <3>3 DEF Inv, InMerge, Named, Fresh
    <3>5. ToSet(out') \cup ToSet(rest') \subseteq Named(parts)'
      BY <1>1, <1>2, <3>3, <3>4 DEF Inv, InMerge
    <3>6. \A u \in ToSet(out') : Lower(u) \in seen'
      BY <1>1, <3>2, <3>3, <3>4 DEF Inv, InMerge
    <3>7. \A l \in seen' : \E u \in ToSet(out') : Lower(u) = l
      BY <1>1, <3>2, <3>3, <3>4 DEF Inv, InMerge
    <3>8. \A u \in Named(parts)' : u \in ToSet(rest') \/ Lower(u) \in seen'
      BY <1>1, <1>2, <3>2, <3>3, <3>4 DEF Inv, InMerge
    <3>9. ToSet(out)' = ToSet(out') /\ ToSet(rest)' = ToSet(rest')
      OBVIOUS
    <3>10. QED BY <3>4, <3>5, <3>6, <3>7, <3>8, <3>9 DEF InMerge
  <2>3. QED BY <2>1, <2>2
<1>7. QED BY <1>1, <1>5, <1>6 DEF Inv, Merge, Read, InEnv, InPolicy, InServe

(* What one entry adds to the policy is what it admits.                    *)
LEMMA AllowStep == Inv /\ Allow => Inv' /\ Allowed \subseteq Allowed'
<1>1. SUFFICES ASSUME Inv, Allow PROVE Inv' /\ Allowed \subseteq Allowed'
  OBVIOUS
<1> DEFINE t == Head(rest)
<1>2. /\ t \in Text /\ Tail(rest) \in Seq(Text)
      /\ ToSet(rest) = {t} \cup ToSet(Tail(rest))
  BY <1>1, HeadTailSet DEF Inv, TypeOK, Allow, Read
<1>3. TypeOK'
  <2>1. CASE t.kind # "origin"
    BY <1>1, <1>2, <2>1 DEF Inv, TypeOK, Allow, Read
  <2>2. CASE t.kind = "origin"
    <3>1. t.scheme \in Scheme /\ t.host \in Host /\ t.port \in Port
      BY <1>2, <2>2 DEF Text
    <3>2. exact' \subseteq Scheme \X Host \X Port
      <4>1. exact' = exact \cup {<<t.scheme, t.host, t.port>>}
        BY <1>1, <2>2 DEF Allow
      <4>2. exact \subseteq Scheme \X Host \X Port
        BY <1>1 DEF Inv, TypeOK
      <4>3. QED BY <3>1, <4>1, <4>2
    <3>3. hosts' \in [Scheme -> SUBSET Host]
      <4>1. hosts' = hosts \/ hosts' = [hosts EXCEPT ![t.scheme] = @ \cup {t.host}]
        BY <1>1, <2>2 DEF Allow, HostsFor
      <4>2. hosts \in [Scheme -> SUBSET Host]
        BY <1>1 DEF Inv, TypeOK
      <4>3. QED BY <3>1, <4>1, <4>2
    <3>4. QED BY <1>1, <1>2, <3>2, <3>3 DEF Inv, TypeOK, Allow, Read
  <2>3. QED BY <2>1, <2>2
<1>4. Allowed' = Allowed \cup AdmittedBy({t})
  <2>1. CASE t.kind # "origin"
    BY <1>1, <2>1 DEF Allow, Allowed, Allows, AdmittedBy, Admits
  <2>2. CASE t.kind = "origin"
    <3>1. t.scheme \in Scheme /\ t.host \in Host /\ t.port \in Port
      BY <1>2, <2>2 DEF Text
    <3>2. ASSUME NEW o \in Text
          PROVE  Allows(o)' <=> Allows(o) \/ Admits(t, o)
      <4>1. CASE o.kind \in {"blank", "invalid"}
        BY <4>1 DEF Allows, Admits
      <4>2. CASE o.kind \notin {"blank", "invalid"}
        <5>1. o.scheme \in Scheme /\ o.host \in Host /\ o.port \in Port
          BY <4>2 DEF Text
        <5>2. exact' = exact \cup {<<t.scheme, t.host, t.port>>}
          BY <1>1, <2>2 DEF Allow
        <5>3. CASE t.port # ""
          <6>1. hosts' = hosts
            BY <1>1, <2>2, <5>3 DEF Allow, HostsFor
          <6>2. QED BY <2>2, <4>2, <5>2, <5>3, <6>1 DEF Allows, Admits
        <5>4. CASE t.port = ""
          <6>1. hosts' = [hosts EXCEPT ![t.scheme] = @ \cup {t.host}]
            BY <1>1, <2>2, <5>4 DEF Allow, HostsFor
          <6>2. o.host \in hosts'[o.scheme] <=>
                  o.host \in hosts[o.scheme] \/ (o.scheme = t.scheme /\ o.host = t.host)
            BY <1>1, <3>1, <5>1, <6>1 DEF Inv, TypeOK
          <6>3. QED BY <2>2, <4>2, <5>2, <5>4, <6>2 DEF Allows, Admits
        <5>5. QED BY <5>3, <5>4
      <4>3. QED BY <4>1, <4>2
    <3>3. QED BY <3>2 DEF Allowed, AdmittedBy
  <2>3. QED BY <2>1, <2>2
<1>5. AdmittedBy(ToSet(rest)) = AdmittedBy({t}) \cup AdmittedBy(ToSet(rest'))
  BY <1>1, <1>2 DEF Allow, Read, AdmittedBy
<1>6. AdmittedBy(ToSet(rest))' = AdmittedBy(ToSet(rest'))
  BY DEF AdmittedBy, Admits
<1>7. AdmittedBy(Configured)' = AdmittedBy(Configured)
  BY <1>1 DEF AdmittedBy, Admits, Configured, Allow, Read
<1>8. InPolicy'
  BY <1>1, <1>4, <1>5, <1>6, <1>7 DEF Inv, InPolicy, Allow, Read
<1>9. QED BY <1>1, <1>3, <1>4, <1>8 DEF Inv, Allow, Read, InEnv, InMerge, InServe

(* From one loop to the next.                                              *)
LEMMA EnvEnds == Inv /\ Proceed("env", "merge", out) => Inv'
<1>1. SUFFICES ASSUME Inv, Proceed("env", "merge", out) PROVE Inv'
  OBVIOUS
<1>2. ToSet(rest) = {} /\ ToSet(out') = {} /\ <<>> \in Seq(Text)
  BY <1>1, SetOfList DEF Proceed
<1>3. TypeOK'
  BY <1>1, <1>2 DEF Inv, TypeOK, Proceed
<1>4. InMerge'
  BY <1>1, <1>2 DEF Inv, InEnv, InMerge, Proceed, Fresh, Named
<1>5. QED BY <1>1, <1>3, <1>4 DEF Inv, Proceed, InEnv, InPolicy, InServe

(* The list of the hub admits what is configured: the spellings it leaves  *)
(* out admit nothing else, and it is empty only if nothing is named.       *)
LEMMA MergeEnds == Inv /\ Proceed("merge", "policy", Defaulted(out)) => Inv'
<1>1. SUFFICES ASSUME Inv, Proceed("merge", "policy", Defaulted(out)) PROVE Inv'
  OBVIOUS
<1>2. ToSet(rest) = {} /\ <<>> \in Seq(Text) /\ Defaulted(out) \in Seq(Text)
  BY <1>1, SetOfList, DevOrigins DEF Inv, TypeOK, Proceed, Defaulted
<1>3. TypeOK'
  BY <1>1, <1>2 DEF Inv, TypeOK, Proceed
<1>4. Named(parts) \subseteq Text /\ ToSet(out) \subseteq Named(parts)
  BY <1>1, SetOfList DEF Inv, TypeOK, InMerge, Proceed, Named
<1>5. \A t \in Named(parts) : \E u \in ToSet(out) : Lower(t) = Lower(u)
  BY <1>1, <1>2 DEF Inv, InMerge, Proceed
<1>6. AdmittedBy(ToSet(out)) = AdmittedBy(Named(parts))
  <2>1. ASSUME NEW o \in Text, NEW t \in Named(parts), Admits(t, o)
        PROVE  \E u \in ToSet(out) : Admits(u, o)
    <3>1. PICK u \in ToSet(out) : Lower(t) = Lower(u)
      BY <1>5
    <3>2. t \in Text /\ u \in Text /\ t.kind # "blank" /\ u.kind # "blank"
      BY <1>4 DEF Named
    <3>3. QED BY <2>1, <3>1, <3>2, SpellingIsIrrelevant
  <2>2. QED BY <1>4, <2>1 DEF AdmittedBy
<1>7. AdmittedBy(ToSet(Defaulted(out))) = AdmittedBy(Configured)
  <2>1. CASE out = <<>>
    <3>1. Named(parts) = {}
      BY <1>5, <2>1, SetOfList
    <3>2. QED BY <2>1, <3>1 DEF Defaulted, Configured, Named
  <2>2. CASE out # <<>>
    <3>1. Named(parts) # {}
      BY <1>1, <1>4, <2>2, SetOfList DEF Inv, TypeOK
    <3>2. Configured = Named(parts)
      BY <3>1 DEF Configured, Named
    <3>3. QED BY <1>6, <2>2, <3>2 DEF Defaulted
  <2>3. QED BY <2>1, <2>2
<1>8. Allowed' = {}
  <2>1. ASSUME NEW o \in Text PROVE ~Allows(o)'
    <3>1. exact' = {} /\ hosts' = [s \in Scheme |-> {}]
      BY <1>1 DEF Inv, InMerge, Fresh, Proceed
    <3>2. o.kind \notin {"blank", "invalid"} => o.scheme \in Scheme
      BY DEF Text
    <3>3. QED BY <3>1, <3>2 DEF Allows
  <2>2. QED BY <2>1 DEF Allowed
<1>9. AdmittedBy(ToSet(rest))' = AdmittedBy(Configured)'
  <2>1. rest' = Defaulted(out) /\ parts' = parts
    BY <1>1 DEF Proceed
  <2>2. AdmittedBy(ToSet(rest))' = AdmittedBy(ToSet(Defaulted(out)))
    BY <2>1 DEF AdmittedBy, Admits
  <2>3. AdmittedBy(Configured)' = AdmittedBy(Configured)
    BY <2>1 DEF AdmittedBy, Admits, Configured
  <2>4. QED BY <1>7, <2>2, <2>3
<1>10. QED BY <1>1, <1>3, <1>8, <1>9 DEF Inv, Proceed, InEnv, InMerge, InPolicy, InServe

LEMMA PolicyEnds == Inv /\ Proceed("policy", "serve", <<>>) => Inv'
<1>1. SUFFICES ASSUME Inv, Proceed("policy", "serve", <<>>) PROVE Inv'
  OBVIOUS
<1>2. ToSet(rest) = {} /\ <<>> \in Seq(Text)
  BY <1>1, SetOfList DEF Proceed
<1>3. TypeOK'
  BY <1>1, <1>2 DEF Inv, TypeOK, Proceed
<1>4. Allowed' = Allowed /\ AdmittedBy(Configured)' = AdmittedBy(Configured)
  BY <1>1 DEF Proceed, Allowed, Allows, AdmittedBy, Admits, Configured
<1>5. AdmittedBy(ToSet(rest)) = {}
  BY <1>2 DEF AdmittedBy
<1>6. InServe'
  BY <1>1, <1>4, <1>5 DEF Inv, InPolicy, InServe, Proceed
<1>7. QED BY <1>1, <1>3, <1>6 DEF Inv, Proceed, InEnv, InMerge, InPolicy

LEMMA Stutter == Inv /\ UNCHANGED vars => Inv' /\ Allowed' = Allowed
<1>1. SUFFICES ASSUME Inv, UNCHANGED vars PROVE Inv' /\ Allowed' = Allowed
  OBVIOUS
<1>2. Allowed' = Allowed /\ AdmittedBy(Configured)' = AdmittedBy(Configured)
  BY <1>1 DEF vars, Allowed, Allows, AdmittedBy, Admits, Configured
<1>3. AdmittedBy(ToSet(rest))' = AdmittedBy(ToSet(rest))
  BY <1>1 DEF vars, AdmittedBy, Admits
<1>4. TypeOK' /\ InEnv' /\ InMerge'
  BY <1>1 DEF Inv, vars, TypeOK, InEnv, InMerge, Fresh, Named, Lower
<1>5. InPolicy' /\ InServe'
  BY <1>1, <1>2, <1>3 DEF Inv, vars, InPolicy, InServe
<1>6. QED BY <1>2, <1>4, <1>5 DEF Inv

LEMMA StepInv == Inv /\ [Next]_vars => Inv'
BY TakePartStep, MergeStep, AllowStep, EnvEnds, MergeEnds, PolicyEnds, Stutter DEF Next

LEMMA Invariance == Spec => []Inv
BY InitInv, StepInv, PTL DEF Spec

-----------------------------------------------------------------------------
(* The theorems.                                                           *)

(* The lists of the three loops hold texts, and seen holds spellings.      *)
THEOREM PolicyTypeCorrect == Spec => []TypeOK
<1>1. Inv => TypeOK
  BY DEF Inv
<1>2. QED BY <1>1, Invariance, PTL

(* The server that is up admits what is configured and nothing else.       *)
THEOREM PolicyCorrect == Spec => []AllowsExactlyConfigured
<1>1. Inv => AllowsExactlyConfigured
  <2>1. SUFFICES ASSUME Inv, stage = "serve", NEW o \in Text
                 PROVE  Allows(o) <=> \E t \in Configured : Admits(t, o)
    BY DEF AllowsExactlyConfigured
  <2>2. Allowed = AdmittedBy(Configured)
    BY <2>1 DEF Inv, InServe
  <2>3. QED BY <2>2 DEF Allowed, AdmittedBy
<1>2. QED BY <1>1, Invariance, PTL

(* No entry takes back what an earlier one has admitted.                   *)
THEOREM NeverRevoked == Spec => NothingRevoked
<1>1. ASSUME Inv, [Next]_vars, NEW o \in Text, Allows(o)
      PROVE  Allows(o)'
  <2>1. CASE Allow
    BY <1>1, <2>1, AllowStep DEF Allowed
  <2>2. CASE UNCHANGED <<exact, hosts>>
    BY <1>1, <2>2 DEF Allows
  <2>3. QED BY <1>1, <2>1, <2>2 DEF Next, TakePart, Merge, Proceed, vars
<1>2. Inv /\ [Next]_vars => [\A o \in Text : Allows(o) => Allows(o)']_vars
  BY <1>1
<1>3. QED BY <1>2, Invariance, PTL DEF Spec, NothingRevoked
=============================================================================
