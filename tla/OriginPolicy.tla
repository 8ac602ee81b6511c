----------------------------- MODULE OriginPolicy -----------------------------
(***************************************************************************)
(* How the server decides which web pages may connect: the comma separated *)
(* SIGNALING_ALLOWED_ORIGINS (server.go: signalingAllowedOrigins) becomes  *)
(* the list of the hub (hub.go: mergeAllowedOrigins) and its policy        *)
(* (origin.go: newOriginPolicy), which then judges the Origin of each      *)
(* request (allows).  The three loops are modelled entry by entry.         *)
(*                                                                         *)
(* A text is modelled by what strings.TrimSpace and url.Parse see in it:   *)
(* nothing ("blank"), no scheme or no host ("invalid"), an origin, or a    *)
(* page of one (with a path, a query or a fragment); the port is "" if it  *)
(* has none, and upper tells whether the host is spelled in capitals.      *)
(***************************************************************************)
EXTENDS Naturals, Sequences, SequencesExt

CONSTANTS Scheme, Host, Port,
          Environments  \* the lists of parts of the variable to be considered

Text ==
  [kind : {"blank", "invalid"}] \cup
  [kind : {"origin", "page"}, scheme : Scheme, host : Host, port : Port, upper : BOOLEAN]

ASSUME EnvironmentsAssumption == Environments \subseteq Seq(Text)

ASSUME NamesAssumption ==
  /\ {"http", "https"} \subseteq Scheme /\ {"localhost", "127.0.0.1"} \subseteq Host
  /\ "" \in Port

VARIABLES
  parts,  \* the parts of the variable, as configured
  stage,  \* the loop that runs: "env", "merge" or "policy"; or "serve"
  rest,   \* what it has still to read
  out,    \* the list that it makes
  seen,   \* of mergeAllowedOrigins
  exact,  \* of originPolicy: scheme, host and port
  hosts   \* of originPolicy: for each scheme the hosts with every port

vars == <<parts, stage, rest, out, seen, exact, hosts>>

Init ==
  /\ parts \in Environments
  /\ stage = "env" /\ rest = parts /\ out = <<>>
  /\ seen = {} /\ exact = {} /\ hosts = [s \in Scheme |-> {}]

-----------------------------------------------------------------------------
(* Parts of the actions, each after a faulty variant (Bad...) that no      *)
(* action uses: what the properties below would catch.                     *)

(* strings.ToLower                                                         *)
BadLower(t) == t
Lower(t) == IF t.kind = "invalid" THEN t ELSE [t EXCEPT !.upper = FALSE]

(* devAllowedOrigins, and when they are used: when nothing is configured.  *)
DevOrigin(s, h) == [kind |-> "origin", scheme |-> s, host |-> h, port |-> "", upper |-> FALSE]
DevAllowedOrigins ==
  <<DevOrigin("http", "localhost"), DevOrigin("https", "localhost"),
    DevOrigin("http", "127.0.0.1"), DevOrigin("https", "127.0.0.1")>>
BadDefaulted(list) == list \o DevAllowedOrigins
Defaulted(list) == IF list = <<>> THEN DevAllowedOrigins ELSE list

(* policy.hosts once it has a map for the scheme s                         *)
BadHostsFor(s) == [hosts EXCEPT ![s] = {}]
HostsFor(s) == hosts

-----------------------------------------------------------------------------
(* The loop is over: the next one reads list.                              *)
Proceed(from, to, list) ==
  /\ stage = from /\ rest = <<>>
  /\ stage' = to /\ rest' = list /\ out' = <<>>
  /\ UNCHANGED <<parts, seen, exact, hosts>>

Read(where) ==
  /\ stage = where /\ rest # <<>>
  /\ rest' = Tail(rest)
  /\ UNCHANGED <<parts, stage>>

(* strings.Split, TrimSpace and append                                     *)
TakePart ==
  /\ Read("env")
  /\ out' = IF Head(rest).kind = "blank" THEN out ELSE Append(out, Head(rest))
  /\ UNCHANGED <<seen, exact, hosts>>

(* mergeAllowedOrigins: the first of each spelling                         *)
Merge ==
  /\ Read("merge")
  /\ LET t == Head(rest)
         new == t.kind # "blank" /\ Lower(t) \notin seen
     IN  /\ seen' = IF new THEN seen \cup {Lower(t)} ELSE seen
         /\ out' = IF new THEN Append(out, t) ELSE out
  /\ UNCHANGED <<exact, hosts>>

(* newOriginPolicy                                                         *)
Allow ==
  /\ Read("policy")
  /\ LET t == Head(rest)
     IN  IF t.kind # "origin" THEN UNCHANGED <<exact, hosts>>
         ELSE /\ exact' = exact \cup {<<t.scheme, t.host, t.port>>}
              /\ hosts' = IF t.port # "" THEN HostsFor(t.scheme)
                          ELSE [HostsFor(t.scheme) EXCEPT ![t.scheme] = @ \cup {t.host}]
  /\ UNCHANGED <<out, seen>>

Next ==
  \/ TakePart \/ Proceed("env", "merge", out)
  \/ Merge \/ Proceed("merge", "policy", Defaulted(out))
  \/ Allow \/ Proceed("policy", "serve", <<>>)

Spec == Init /\ [][Next]_vars

(* allows, for the Origin header of a request                              *)
Allows(t) ==
  /\ t.kind \notin {"blank", "invalid"}
  /\ \/ <<t.scheme, t.host, t.port>> \in exact
     \/ t.host \in hosts[t.scheme]

-----------------------------------------------------------------------------
(* Properties.                                                             *)

(* mergeAllowedOrigins keeps one spelling of each entry.                   *)
TypeOK ==
  /\ parts \in Seq(Text) /\ rest \in Seq(Text) /\ out \in Seq(Text)
  /\ stage \in {"env", "merge", "policy", "serve"}
  /\ seen \subseteq {t \in Text : t.kind \in {"origin", "page"} => ~t.upper}
  /\ exact \subseteq Scheme \X Host \X Port
  /\ hosts \in [Scheme -> SUBSET Host]

(* What a configured text admits: its scheme and host, in any spelling, at *)
(* its port or, if it has none, at every port.                             *)
Admits(t, o) ==
  /\ t.kind = "origin" /\ o.kind \notin {"blank", "invalid"}
  /\ t.scheme = o.scheme /\ t.host = o.host
  /\ t.port \in {"", o.port}

(* docs/signaling-api.md:83-84: the list of the variable decides, and the  *)
(* hosts of a developer do only when it names nothing at all.              *)
Configured ==
  LET named == {t \in ToSet(parts) : t.kind # "blank"}
  IN  IF named = {} THEN ToSet(DevAllowedOrigins) ELSE named

(* The server that is up admits what is configured and nothing else,       *)
(* however the entries are ordered, spelled and repeated.                  *)
AllowsExactlyConfigured ==
  stage = "serve" => \A o \in Text : Allows(o) <=> \E t \in Configured : Admits(t, o)

(* No entry takes back what an earlier one has admitted (newOriginPolicy). *)
NothingRevoked ==
  [][\A o \in Text : Allows(o) => Allows(o)']_vars
=============================================================================
