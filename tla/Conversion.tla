----------------------------- MODULE Conversion -----------------------------
(***************************************************************************)
(* ConvertIngress: one Ingress becomes one HTTPRoute, or one GRPCRoute, and*)
(* a list of issues.  The annotations are translated one after the other in*)
(* the order of their keys, then the paths rule by rule.                   *)
(*                                                                         *)
(* Beside the algorithm stand two references: what the Ingress controller  *)
(* answers a request with (Served) and what a Gateway does with the route  *)
(* (Routed), both by the precedence their specifications give (Best).      *)
(*                                                                         *)
(* Abstracted: a path is its segments, some of which hold characters of    *)
(* regular expressions; what the Ingress controller takes for a path of    *)
(* type ImplementationSpecific is a parameter; an annotation is what its   *)
(* translator makes of it; parent references, TLS notes, notes beside what *)
(* was translated (app-root) and the wording of issues are left out.       *)
(***************************************************************************)
EXTENDS Naturals, FiniteSets, SequencesExt

CONSTANTS Ingresses,  \* the Ingresses converted
          Hosts,      \* host names requests may have
          Requests,   \* paths requests may have
          Policies,   \* the kinds of annotations a policy may drop
          RegexSegments,   \* segments with characters of regular expressions
          DottedSegments,  \* segments with a dot and no other such character
          Takes(_, _)      \* does the controller take a request for a path?

NoHost == ""
None   == ""  \* no backend: every Service has a name

PathTypes == {"Exact", "Prefix", "ImplementationSpecific", "NoHTTP"}

(* How a path names its backend's port: by number, by a name that can or   *)
(* cannot be resolved, not at all, or it is no Service.                    *)
Ports == {"number", "named", "unresolved", "none", "resource"}

(* A path with the host of its rule; a rule without http is one entry.     *)
EntryType ==
  [host : STRING, type : PathTypes, path : Seq(STRING), port : Ports, service : STRING]

(* rewrite-target without and with capture groups; the redirects; headers; *)
(* CORS; timeouts in seconds; cookie affinity and its cookie's name; what  *)
(* has no equivalent and what nobody knows; what asks for nothing; and     *)
(* what asks for something and is lost without a word: a value of affinity *)
(* that nobody knows, a value of cors-* that cannot be read, a key of a    *)
(* vendor other than the four.                                             *)
AnnotationKinds ==
  {"affinity", "captures", "cookieName", "cors", "header", "inert", "lost", "readTimeout",
   "redirect", "requestTimeout", "rewrite", "sendTimeout", "unsupported"}

Malformed == 1000  \* a timeout that is no number

IngressType ==
  [grpc : BOOLEAN, defaultBackend : BOOLEAN, entries : Seq(EntryType),
   annotations : Seq([kind : AnnotationKinds, seconds : 0..Malformed])]

Convertible(entry) == entry.port \in {"number", "named"}

ASSUME ConversionAssumption ==
  /\ Ingresses \subseteq IngressType
  /\ \A ingress \in Ingresses : \A i \in DOMAIN ingress.entries :
       Convertible(ingress.entries[i]) => ingress.entries[i].service # None
  /\ NoHost \notin Hosts /\ Requests \subseteq Seq(STRING)
  /\ Policies \subseteq SUBSET AnnotationKinds
  /\ RegexSegments \subseteq STRING /\ DottedSegments \subseteq STRING

Filters == {"URLRewrite", "RequestRedirect", "RequestHeaderModifier", "CORS"}

NoTimeout == Malformed

(* session: no persistence, by cookie, by a cookie with a name.            *)
NoEffect == [session |-> "no", request |-> NoTimeout, backend |-> NoTimeout]

Subjects == {"annotation", "path", "defaultBackend", "rules"}

VARIABLES
  ing,       \* the Ingress
  dropped,   \* what the TransferGW's annotation policy drops
  pc,        \* "annotations", "paths" or "done"
  at,        \* the annotation or path to come to next
  filters,   \* the filters of every rule, in order
  effect,    \* session persistence and timeouts of every rule
  hostnames, \* the hosts of the route
  rules,     \* its rules: a match and a backend each
  issues     \* what was reported: severity, subject, position

input == <<ing, dropped>>

vars == <<input, pc, at, filters, effect, hostnames, rules, issues>>

-----------------------------------------------------------------------------
(* Annotations.                                                            *)

FiltersOf(annotation) ==
  CASE annotation.kind = "rewrite"  -> <<"URLRewrite">>
    [] annotation.kind = "redirect" -> <<"RequestRedirect">>
    [] annotation.kind = "header"   -> <<"RequestHeaderModifier">>
    [] annotation.kind = "cors"     -> <<"CORS">>
    [] OTHER                        -> <<>>

Has(kind) == \E i \in DOMAIN ing.annotations : ing.annotations[i].kind = kind

(* A cookie name means something only beside cookie affinity, dropped or   *)
(* not: a translator sees every annotation.                                *)
EffectOf(annotation) ==
  CASE annotation.kind = "affinity" ->
         [NoEffect EXCEPT !.session = "cookie"]
    [] annotation.kind = "cookieName" /\ Has("affinity") ->
         [NoEffect EXCEPT !.session = "named"]
    [] annotation.kind \in {"readTimeout", "sendTimeout"} ->
         [NoEffect EXCEPT !.backend = annotation.seconds]
    [] annotation.kind = "requestTimeout" ->
         [NoEffect EXCEPT !.request = annotation.seconds]
    [] OTHER -> NoEffect

Unreadable(annotation) ==
  /\ annotation.kind \in {"readTimeout", "sendTimeout", "requestTimeout"}
  /\ annotation.seconds = Malformed

(* AnnotationPolicy.dropped.                                               *)
IgnoredByPolicy(annotation) == annotation.kind \in dropped

AnnotationReported_OfNginx(annotation) ==
  annotation.kind \in {"captures", "unsupported"}

AnnotationReported(annotation) ==
  annotation.kind \in {"captures", "unsupported"} \/ Unreadable(annotation)

LongerDuration_TheLast(a, b) == IF b = NoTimeout THEN a ELSE b

LongerDuration(a, b) ==
  IF a = NoTimeout THEN b ELSE IF b = NoTimeout \/ a >= b THEN a ELSE b

(* The later one decides on session persistence.                           *)
MergeRuleEffect(a, b) ==
  [session |-> IF b.session = "no" THEN a.session ELSE b.session,
   request |-> LongerDuration(a.request, b.request),
   backend |-> LongerDuration(a.backend, b.backend)]

-----------------------------------------------------------------------------
(* Paths.                                                                  *)

LooksLikeRegex(path) == \E i \in DOMAIN path : path[i] \in RegexSegments

(* The segments before the first that may belong to a regular expression:  *)
(* a dot is taken for one where the path is one.                           *)
RegexPrefix(path) ==
  LET plain == {n \in 0..Len(path) :
                  \A i \in 1..n : path[i] \notin RegexSegments \union DottedSegments}
  IN SubSeq(path, 1, CHOOSE n \in plain : \A k \in plain : k <= n)

ConvertPath_AllPrefix(entry) == [type |-> "Prefix", path |-> entry.path]

ConvertPath_AsGiven(entry) == [type |-> entry.type, path |-> entry.path]

ConvertPath_ExactUnlessPrefix(entry) ==
  [type |-> IF entry.type = "Prefix" THEN "Prefix" ELSE "Exact", path |-> entry.path]

ConvertPath(entry) ==
  [type |-> IF entry.type = "Exact" THEN "Exact" ELSE "Prefix",
   path |-> IF entry.type = "ImplementationSpecific" /\ LooksLikeRegex(entry.path)
            THEN RegexPrefix(entry.path) ELSE entry.path]

(* A GRPCRoute rule matches every call.                                    *)
EveryCall == [type |-> "Prefix", path |-> <<>>]

PathReported_OfRegex(entry) ==
  IF ing.grpc THEN entry.path # <<>>
  ELSE entry.type = "ImplementationSpecific" /\ LooksLikeRegex(entry.path)

PathReported(entry) ==
  IF ing.grpc THEN entry.path # <<>> ELSE entry.type = "ImplementationSpecific"

-----------------------------------------------------------------------------
Init ==
  /\ ing \in Ingresses /\ dropped \in Policies
  /\ pc = IF ing.grpc THEN "paths" ELSE "annotations"
  /\ at = 1 /\ filters = <<>> /\ effect = NoEffect
  /\ hostnames = {} /\ rules = <<>> /\ issues = {}

Reports(severity, subject) == issues \union {<<severity, subject, at>>}

TranslateAnnotation ==
  /\ pc = "annotations" /\ at <= Len(ing.annotations)
  /\ at' = at + 1
  /\ LET annotation == ing.annotations[at]
     IN IF IgnoredByPolicy(annotation)
        THEN UNCHANGED <<filters, effect, issues>>
        ELSE /\ filters' = filters \o FiltersOf(annotation)
             /\ effect' = MergeRuleEffect(effect, EffectOf(annotation))
             /\ issues' = IF AnnotationReported(annotation)
                          THEN Reports("warning", "annotation") ELSE issues
  /\ UNCHANGED <<input, pc, hostnames, rules>>

StartPaths ==
  /\ pc = "annotations" /\ at > Len(ing.annotations)
  /\ pc' = "paths" /\ at' = 1
  /\ UNCHANGED <<input, filters, effect, hostnames, rules, issues>>

(* The rule's host counts, whether or not its paths can be converted.      *)
ConvertEntry ==
  /\ pc = "paths" /\ at <= Len(ing.entries)
  /\ at' = at + 1
  /\ LET entry == ing.entries[at]
     IN /\ hostnames' = hostnames \union ({entry.host} \ {NoHost})
        /\ CASE entry.type = "NoHTTP" -> UNCHANGED <<rules, issues>>
             [] entry.type # "NoHTTP" /\ ~Convertible(entry) ->
                  issues' = Reports("error", "path") /\ UNCHANGED rules
             [] entry.type # "NoHTTP" /\ Convertible(entry) ->
                  /\ rules' = Append(rules,
                       [match |-> IF ing.grpc THEN EveryCall ELSE ConvertPath(entry),
                        service |-> entry.service])
                  /\ issues' = IF ~PathReported(entry) THEN issues
                               ELSE IF LooksLikeRegex(entry.path) /\ ~ing.grpc
                                    THEN Reports("warning", "path")
                                    ELSE Reports("info", "path")
  /\ UNCHANGED <<input, pc, filters, effect>>

Finish ==
  /\ pc = "paths" /\ at > Len(ing.entries)
  /\ pc' = "done"
  /\ issues' = issues
       \union (IF ing.defaultBackend THEN {<<"warning", "defaultBackend", 0>>} ELSE {})
       \union (IF rules = <<>> THEN {<<"error", "rules", 0>>} ELSE {})
  /\ UNCHANGED <<input, at, filters, effect, hostnames, rules>>

Next == TranslateAnnotation \/ StartPaths \/ ConvertEntry \/ Finish

Spec == Init /\ [][Next]_vars

-----------------------------------------------------------------------------
(* What the result means.                                                  *)

ResultFailed_Empty == \E issue \in issues : issue[2] = "rules"

(* Result.Failed: an error of one path fails the whole Ingress.            *)
ResultFailed == \E issue \in issues : issue[1] = "error"

Converted == pc = "done" /\ ~ResultFailed

RuleMatches(match, path) ==
  IF match.type = "Exact" THEN path = match.path ELSE IsPrefix(match.path, path)

EntryMatches(entry, path) ==
  CASE entry.type = "NoHTTP" -> FALSE
    [] entry.type = "Exact"  -> path = entry.path
    [] entry.type = "Prefix" -> IsPrefix(entry.path, path)
    [] entry.type = "ImplementationSpecific" -> Takes(entry.path, path)

(* Exact before prefix, then the longest path, then the first.             *)
Before(seq, i, j) ==
  LET a == seq[i] b == seq[j]
  IN IF (a.type = "Exact") # (b.type = "Exact") THEN a.type = "Exact"
     ELSE IF Len(a.path) # Len(b.path) THEN Len(a.path) > Len(b.path)
     ELSE i <= j

Best(seq, candidates) ==
  CHOOSE i \in candidates : \A j \in candidates : Before(seq, i, j)

(* The backend the Ingress has for a request: the rules of its host, or    *)
(* else those without a host.                                              *)
Served(host, path) ==
  LET ofHost == {i \in DOMAIN ing.entries : ing.entries[i].host = host}
      pool   == IF ofHost # {} THEN ofHost
                ELSE {i \in DOMAIN ing.entries : ing.entries[i].host = NoHost}
      fit    == {i \in pool : EntryMatches(ing.entries[i], path)}
  IN IF fit = {} THEN None ELSE ing.entries[Best(ing.entries, fit)].service

(* The backend the route has for it.                                       *)
Routed(host, path) ==
  LET matches == [i \in DOMAIN rules |-> rules[i].match]
      fit     == {i \in DOMAIN rules :
                    (hostnames = {} \/ host \in hostnames) /\ RuleMatches(matches[i], path)}
  IN IF fit = {} THEN None ELSE rules[Best(matches, fit)].service

(* The rules the CRD of HTTPRoute has for the filters of a rule.           *)
Once(filter) == Cardinality({i \in DOMAIN filters : filters[i] = filter}) <= 1

Accepts ==
  /\ \A filter \in Filters : Once(filter)
  /\ "RequestRedirect" \in ToSet(filters)
       => rules = <<>> /\ "URLRewrite" \notin ToSet(filters)
  /\ "URLRewrite" \in ToSet(filters)
       => \A i \in DOMAIN rules : rules[i].match.type = "Prefix"
  /\ effect.request \notin {0, NoTimeout} /\ effect.backend # NoTimeout
       => effect.backend <= effect.request

-----------------------------------------------------------------------------
(* Properties.                                                             *)

TypeOK ==
  /\ input \in Ingresses \X Policies /\ pc \in {"annotations", "paths", "done"} /\ at \in Nat \ {0}
  /\ filters \in Seq(Filters)
  /\ effect \in [session : {"no", "cookie", "named"}, request : 0..NoTimeout, backend : 0..NoTimeout]
  /\ hostnames \subseteq STRING /\ NoHost \notin hostnames
  /\ rules \in Seq([match : [type : {"Exact", "Prefix"}, path : Seq(STRING)], service : STRING])
  /\ issues \subseteq {"info", "warning", "error"} \X Subjects \X Nat

(* The first n entries that have http: one path each.                      *)
PathsUpto(n) == {i \in 1..n : ing.entries[i].type # "NoHTTP"}

(* An Ingress is converted as a whole: in a route that is applied there is *)
(* a rule for every path, in their order, with its backend.                *)
WholeIngress ==
  Converted =>
    LET all == PathsUpto(Len(ing.entries))
    IN /\ Len(rules) = Cardinality(all)
       /\ \A i \in all :
            rules[Cardinality(PathsUpto(i))].service = ing.entries[i].service

(* "anything that can't be translated is reported ... instead of being     *)
(* silently dropped" (README.md:12-14): where nothing was reported, every  *)
(* HTTP request goes where the Ingress sent it.                            *)
SameBackends ==
  Converted /\ issues = {} /\ ~ing.grpc =>
    \A host \in Hosts : \A path \in Requests : Routed(host, path) = Served(host, path)

(* An approximated path may take more requests than the Ingress gave it,   *)
(* or fewer (route.go:160-189): whichever request goes astray, a path that *)
(* it fits, in the Ingress or in the route, is named in an issue.          *)
Concerns(i, path) ==
  \/ EntryMatches(ing.entries[i], path)
  \/ RuleMatches(ConvertPath(ing.entries[i]), path)

Named(i) == \E issue \in issues : issue[2] = "path" /\ issue[3] = i

MisroutesAreNamed ==
  Converted /\ ~ing.grpc =>
    \A host \in Hosts : \A path \in Requests :
      Routed(host, path) # Served(host, path)
        => \E i \in DOMAIN ing.entries :
             ing.entries[i].type # "NoHTTP" /\ Named(i) /\ Concerns(i, path)

(* An annotation that the policy keeps and that asks for something shows   *)
(* in every rule of the route, or it is reported, unless its value or its  *)
(* key is unknown in the way the code keeps silent about (lost).           *)
InRules(annotation) ==
  CASE annotation.kind = "affinity" -> effect.session # "no"
    [] annotation.kind \in {"readTimeout", "sendTimeout"} ->
         effect.backend \in annotation.seconds..(NoTimeout - 1)
    [] annotation.kind = "requestTimeout" ->
         effect.request \in annotation.seconds..(NoTimeout - 1)
    [] OTHER -> FiltersOf(annotation) # <<>> /\ ToSet(FiltersOf(annotation)) \subseteq ToSet(filters)

NothingSilent ==
  pc = "done" =>
    \A i \in DOMAIN ing.annotations :
      ing.annotations[i].kind \notin dropped \union {"inert", "lost", "cookieName"}
        => InRules(ing.annotations[i]) \/ <<"warning", "annotation", i>> \in issues

(* "neither annotation's constraint is silently dropped" (engine.go:385):  *)
(* the backend timeout is the longest of those that were set.              *)
Kept == {i \in DOMAIN ing.annotations : ing.annotations[i].kind \notin dropped}

SecondsOf(kinds, S) ==
  {ing.annotations[i].seconds : i \in
     {j \in S : ing.annotations[j].kind \in kinds /\ ~Unreadable(ing.annotations[j])}}

LongestTimeout ==
  LET asked == SecondsOf({"readTimeout", "sendTimeout"}, Kept)
  IN pc = "done" /\ ~ing.grpc =>
       IF asked = {} THEN effect.backend = NoTimeout
       ELSE effect.backend \in asked /\ \A n \in asked : n <= effect.backend

(* Annotations with "a portable Gateway API filter get a real translation" *)
(* (nginx.go:34-35).  Which translations the API server then accepts can   *)
(* be told from the Ingress: those without a redirect, without two         *)
(* annotations for one filter, without a rewrite beside an Exact path and  *)
(* with no backend timeout over the longest request timeout.               *)
Combinable ==
  LET kind(i)  == ing.annotations[i].kind
      backend  == SecondsOf({"readTimeout", "sendTimeout"}, Kept)
      request  == SecondsOf({"requestTimeout"}, Kept)
  IN /\ \A i \in Kept : kind(i) # "redirect"
     /\ \A i, j \in Kept : kind(i) = kind(j) /\ FiltersOf(ing.annotations[i]) # <<>> => i = j
     /\ (\E i \in Kept : kind(i) = "rewrite")
          => \A k \in DOMAIN ing.entries : ing.entries[k].type # "Exact"
     /\ (\E n \in request : n > 0) => \A m \in backend : \E n \in request : m <= n

AcceptedExactly == Converted /\ ~ing.grpc => (Accepts <=> Combinable)
=============================================================================
